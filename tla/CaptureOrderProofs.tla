------------------------- MODULE CaptureOrderProofs -------------------------
(***************************************************************************)
(* What the framework sees of a session of CaptureSession: the order of the *)
(* shutters, the one still, the answer to each request, what a flush gives  *)
(* back, and the contract that all of it implements.                        *)
(***************************************************************************)
EXTENDS CaptureSessionProofs
-----------------------------------------------------------------------------
(* Sequences of requests in increasing order.                               *)

Increasing(s) == \A i, j \in DOMAIN s : i < j => s[i] < s[j]

LEMMA IncreasingAppend ==
  ASSUME NEW s \in Seq(Requests), NEW x \in Requests, Increasing(s), \A y \in ToSet(s) : y < x
  PROVE  Increasing(Append(s, x))
<1> DEFINE a == Append(s, x)  n == Len(s)
<1>1. /\ n \in Nat /\ DOMAIN a = 1..(n + 1) /\ DOMAIN s = 1..n /\ a[n + 1] = x
      /\ \A i \in 1..n : a[i] = s[i] /\ s[i] < x
  BY AppendProperties, LenProperties DEF ToSet
<1>2. \A i \in 1..(n + 1) : i \in 1..n \/ i = n + 1
  BY <1>1
<1> HIDE DEF a, n
<1>3. ASSUME NEW i \in 1..(n + 1), NEW j \in 1..(n + 1), i < j PROVE a[i] < a[j]
  BY <1>1, <1>2, <1>3 DEF Increasing
<1>4. Increasing(a)
  BY <1>1, <1>3 DEF Increasing
<1> QED
  BY <1>4 DEF a

LEMMA IncreasingTail ==
  ASSUME NEW s \in Seq(Requests), s # << >>, Increasing(s)
  PROVE  Increasing(Tail(s)) /\ \A y \in ToSet(Tail(s)) : Head(s) < y
<1>1. Len(s) \in Nat /\ Tail(s) \in Seq(Requests) /\ Len(Tail(s)) = Len(s) - 1 /\ Len(s) > 0
  BY HeadTailProperties, LenProperties, EmptySeq
<1>2. \A i \in 1..Len(Tail(s)) : Tail(s)[i] = s[i + 1] /\ i + 1 \in 1..Len(s)
  BY <1>1
<1>3. DOMAIN Tail(s) = 1..Len(Tail(s)) /\ DOMAIN s = 1..Len(s) /\ Head(s) = s[1]
  BY <1>1, LenProperties
<1>4. Increasing(Tail(s))
  BY <1>1, <1>2, <1>3 DEF Increasing
<1>5. \A i \in 1..Len(Tail(s)) : Head(s) < Tail(s)[i]
  BY <1>1, <1>2, <1>3 DEF Increasing
<1> QED
  BY <1>3, <1>4, <1>5 DEF ToSet

LEMMA IncreasingPutFirst ==
  ASSUME NEW s \in Seq(Requests), NEW x \in Requests, Increasing(s), \A y \in ToSet(s) : x < y
  PROVE  Increasing(<<x>> \o s)
<1> DEFINE c == <<x>> \o s  n == Len(s)
<1>1. /\ n \in Nat /\ c \in Seq(Requests) /\ Len(c) = n + 1 /\ DOMAIN s = 1..n
      /\ \A i \in 1..n : x < s[i]
  BY Put, ConcatProperties, LenProperties DEF ToSet
<1>2. DOMAIN c = 1..(n + 1) /\ c[1] = x /\ \A i \in 2..(n + 1) : c[i] = s[i - 1] /\ i - 1 \in 1..n
  BY <1>1, LenProperties
<1> HIDE DEF c, n
<1>3. ASSUME NEW i \in 1..(n + 1), NEW j \in 1..(n + 1), i < j PROVE c[i] < c[j]
  <2>1. j \in 2..(n + 1)
    BY <1>1, <1>3
  <2>2. CASE i = 1
    BY <1>1, <1>2, <2>1, <2>2
  <2>3. CASE i # 1
    <3>1. i \in 2..(n + 1) /\ i - 1 < j - 1
      BY <1>1, <1>3, <2>3
    <3> QED
      BY <1>1, <1>2, <2>1, <3>1 DEF Increasing
  <2> QED
    BY <2>2, <2>3
<1>4. Increasing(c)
  BY <1>2, <1>3 DEF Increasing
<1> QED
  BY <1>4 DEF c

LEMMA IncreasingEmpty == Increasing(<< >>)
  BY DEF Increasing

-----------------------------------------------------------------------------
(* A session without a preview source never queues a frame for preview.      *)

SourceOK ==
  ~HasSource => /\ previewQueue = << >> /\ videoBlitQueue = << >> /\ resultQueue = << >>
                /\ job["capture"] = None /\ job["blit"] = None /\ job["result"] = None

(* The places before the shutter, counted from the shutter on: whoever is    *)
(* further ahead has the smaller number.                                    *)
NoVideo == \A r \in DOMAIN Outputs : "video" \notin Outputs[r]
Line(n, r) ==
  \/ n = 1 /\ r \in ToSet(shutters)
  \/ n = 2 /\ job["result"] = r /\ pc["result"] = "deliver"
  \/ n = 3 /\ r \in ToSet(resultQueue)
  \/ n = 4 /\ job["capture"] = r
  \/ n = 5 /\ r \in ToSet(previewQueue)
  \/ n = 6 /\ job["framework"] = r /\ pc["framework"] \in {"parameters", "reserve", "enqueue"}
InLine == \A m, n \in 1..6, q, r \in Requests : m < n /\ Line(m, q) /\ Line(n, r) => q < r
ShuttersAccepted == \A r \in ToSet(shutters) : r < next
NoRecording == NoVideo => videoBlitQueue = << >> /\ job["blit"] = None
OrderInv ==
  NoVideo => Increasing(shutters) /\ Increasing(resultQueue) /\ Increasing(previewQueue) /\ InLine

NoNewLine == \A n \in 1..6, x \in Requests : Line(n, x)' => Line(n, x)
(* Frame r leaves line m, of which it is the first, for a line n ahead.      *)
Ahead(r, m, n) ==
  /\ n < m /\ Line(m, r) /\ \A y \in Requests : Line(m, y) /\ y # r => r < y
  /\ \A l \in 1..6, x \in Requests : n < l /\ l < m => ~Line(l, x)
  /\ \A k \in 1..6, x \in Requests : Line(k, x)' => (k = n /\ x = r) \/ (Line(k, x) /\ ~(k = m /\ x = r))

LEMMA RequestsAreNat == Requests \subseteq Nat
  BY Bounds DEF Requests

LEMMA NoNewLineKeeps == ASSUME InLine, NoNewLine PROVE InLine'
  BY DEF InLine, NoNewLine

LEMMA AheadKeeps ==
  ASSUME InLine, NEW r \in Requests, NEW m \in 1..6, NEW n \in 1..6, Ahead(r, m, n)
  PROVE  InLine'
<1> SUFFICES ASSUME NEW k \in 1..6, NEW l \in 1..6, NEW x \in Requests, NEW y \in Requests,
                    k < l, Line(k, x)', Line(l, y)'
             PROVE  x < y
  BY DEF InLine
<1>1. CASE k = n /\ x = r
  <2>1. Line(l, y) /\ ~(l = m /\ y = r)
    BY <1>1 DEF Ahead
  <2>2. CASE l < m
    BY <1>1, <2>1, <2>2 DEF Ahead
  <2>3. CASE l = m
    BY <1>1, <2>1, <2>3 DEF Ahead
  <2>4. CASE l > m
    BY <1>1, <2>1, <2>4 DEF Ahead, InLine
  <2> QED
    BY <2>2, <2>3, <2>4
<1>2. CASE l = n /\ y = r /\ ~(k = n /\ x = r)
  BY <1>2 DEF Ahead, InLine
<1>3. CASE ~(l = n /\ y = r) /\ ~(k = n /\ x = r)
  BY <1>3 DEF Ahead, InLine
<1> QED
  BY <1>1, <1>2, <1>3

(* The sequences that hold frames in their order.                           *)
LEMMA LineAppended ==
  ASSUME InLine, NEW s \in Seq(Requests), NEW n \in 1..6, NEW m \in 1..6, n < m, NEW r \in Requests,
         Line(m, r), Increasing(s), \A y \in ToSet(s) : Line(n, y)
  PROVE  Increasing(Append(s, r))
<1>1. \A y \in ToSet(s) : y \in Requests
  BY LenProperties, ElementOfSeq DEF ToSet
<1>2. \A y \in ToSet(s) : y < r
  BY <1>1 DEF InLine
<1> QED
  BY <1>2, IncreasingAppend


LEMMA SourceOKKept ==
  ASSUME Types, ControlInv, PlacedAreAccepted, WorkerAccepted, SourceOK, SessionStep
  PROVE  SourceOK'
<1> USE DEF Types, ControlTypes, JobType, Threads, SessionTypes, HasSource, SourceOK
<1>1. CASE \/ RejectRawRequest \/ UpdateBackendParameters \/ PopTask
           \/ StartPreviewCheck \/ StartPreview \/ TakePictureFence \/ TakePicture
           \/ PictureStart \/ FinishWorker \/ RestartAfterFailure \/ NextNativeFrame
           \/ DrainPreview \/ SourceFence \/ BlitRequeue \/ PictureThread
           \/ PictureTaken \/ DataCallback \/ HandleJpegCheck \/ SendJpeg
           \/ RestartCheck \/ RestartPreview \/ Flush \/ Close \/ CloseJoin
           \/ CloseFlush \/ FlushLock \/ CancelPicture \/ PictureCancelled
           \/ FlushStopPreview \/ FlushCollect \/ FlushFail \/ FlushEnd \/ CloseEnd
           \/ Stutter
  <2>1. UNCHANGED <<scenario, job, previewQueue, resultQueue, videoBlitQueue>>
    BY <1>1
       DEF RejectRawRequest, Outputs, control, preview, queues, UpdateBackendParameters,
          PopTask, StartPreviewCheck, StartPreview, Faults, TakePictureFence,
          TakePicture, PictureStart, PreviewStopped, FinishWorker, RestartAfterFailure,
          NextNativeFrame, DrainPreview, SourceFence, BlitRequeue, PictureThread,
          PictureTaken, DataCallback, HandleJpegCheck, SendJpeg, RestartCheck,
          RestartPreview, Flush, BeginFlush, Close, CloseJoin, CloseFlush, FlushLock,
          CancelPicture, PictureCancelled, FlushStopPreview, FlushCollect, FlushFail,
          FlushEnd, CloseEnd, Stutter, vars
  <2> QED
    BY <2>1
<1>2. CASE AcceptRequest
  BY <1>2 DEF AcceptRequest, GotoWith, Outputs, Settings, preview, queues
<1>3. CASE Reserve
  BY <1>3 DEF Reserve, GotoWith, Outputs, preview, queues
<1>4. CASE Enqueue
  <2>1. job["framework"] \in DOMAIN Outputs
    BY <1>4, JobsAreRequests, AcceptedPlaces, AcceptedAsked DEF Enqueue, At
  <2>2. ~HasSource => ~NeedsOrderedPreviewCapture(job["framework"])
    BY <2>1, ScenarioAssumption DEF HasSource, Outputs, NeedsOrderedPreviewCapture, SessionTypes
  <2>3. /\ ~NeedsOrderedPreviewCapture(job["framework"]) => UNCHANGED previewQueue
        /\ \A u \in Threads \ {"framework"} : job'[u] = job[u]
        /\ UNCHANGED <<videoBlitQueue, resultQueue, scenario>>
    BY <1>4 DEF Enqueue, GotoWith, queues
  <2> QED
    BY <2>2, <2>3
<1>5. CASE PostRequest
  BY <1>5 DEF PostRequest, GotoWith, NeedsOrderedPreviewCapture, preview, queues, Outputs
<1>6. CASE TakePictureCheck
  BY <1>6 DEF TakePictureCheck, GotoWith, preview, queues
<1>7. CASE TakePictureFinished
  BY <1>7 DEF TakePictureFinished, GotoWith, preview, queues
<1>8. CASE TakePictureClear
  BY <1>8 DEF TakePictureClear, GotoWith, preview, queues
<1>9. CASE DequeuePreview
  <2>1. HasSource /\ scenario' = scenario
    BY <1>9 DEF DequeuePreview
  <2> QED
    BY <2>1
<1>10. CASE SourceFenceTimeout
  BY <1>10 DEF SourceFenceTimeout, Faults, GotoWith, queues
<1>11. CASE DequeueRecheck
  <2>1. job["capture"] # None
    BY <1>11, JobsAreRequests, Outside DEF DequeueRecheck, At
  <2>2. HasSource /\ scenario' = scenario
    BY <1>11, <2>1 DEF DequeueRecheck
  <2> QED
    BY <2>2
<1>12. CASE CopyPreview
  <2>1. job["capture"] # None
    BY <1>12, JobsAreRequests, Outside DEF CopyPreview, At
  <2>2. HasSource /\ scenario' = scenario
    BY <1>12, <2>1 DEF CopyPreview
  <2> QED
    BY <2>2
<1>13. CASE BlitPop
  <2>1. HasSource /\ scenario' = scenario
    BY <1>13 DEF BlitPop
  <2> QED
    BY <2>1
<1>14. CASE BlitComplete
  <2>1. job["blit"] # None
    BY <1>14, JobsAreRequests, Outside DEF BlitComplete, At
  <2>2. HasSource /\ scenario' = scenario
    BY <1>14, <2>1 DEF BlitComplete
  <2> QED
    BY <2>2
<1>15. CASE ResultPop
  <2>1. HasSource /\ scenario' = scenario
    BY <1>15 DEF ResultPop
  <2> QED
    BY <2>1
<1>16. CASE Deliver
  BY <1>16 DEF Deliver, GotoWith, preview, queues
<1>17. CASE ScheduleJpeg
  BY <1>17 DEF ScheduleJpeg, GotoWith, preview, queues
<1>18. CASE PostTakePicture
  BY <1>18 DEF PostTakePicture, GotoWith, preview, queues
<1>19. CASE HandleJpeg
  BY <1>19 DEF HandleJpeg, GotoWith, preview, queues
<1>20. CASE FinishCallback
  BY <1>20 DEF FinishCallback, GotoWith, preview, queues
<1>21. CASE FlushDrainJpeg
  BY <1>21 DEF FlushDrainJpeg, GotoWith, queues
<1>22. CASE FlushResults
  BY <1>22 DEF FlushResults, preview
<1>23. CASE FlushResultIdle
  BY <1>23 DEF FlushResultIdle, GotoWith, preview, queues
<1>24. ASSUME NEW t \in Threads, FailLook(t) PROVE SourceOK'
  BY <1>24 DEF FailLook, preview, queues
<1>25. ASSUME NEW t \in Threads, FailReturn(t) PROVE SourceOK'
  BY <1>25 DEF FailReturn, preview, queues
<1>26. ASSUME NEW t \in Threads, FailStill(t) PROVE SourceOK'
  BY <1>26 DEF FailStill, preview, queues
<1> QED
  BY <1>1, <1>2, <1>3, <1>4, <1>5, <1>6, <1>7, <1>8, <1>9, <1>10, <1>11, <1>12, <1>13,
     <1>14, <1>15, <1>16, <1>17, <1>18, <1>19, <1>20, <1>21, <1>22, <1>23, <1>24, <1>25,
     <1>26
     DEF SessionStep

LEMMA ShuttersAcceptedKept ==
  ASSUME Types, ControlInv, PlacedAreAccepted, WorkerAccepted, ShuttersAccepted,
     SessionStep
  PROVE  ShuttersAccepted'
<1> USE DEF Types, SessionTypes, QueueTypes, ShuttersAccepted
<1>1. CASE \/ UpdateBackendParameters \/ Reserve \/ PostRequest \/ PopTask
           \/ StartPreviewCheck \/ StartPreview \/ TakePictureCheck \/ TakePictureFence
           \/ TakePicture \/ PictureStart \/ FinishWorker \/ TakePictureFinished
           \/ TakePictureClear \/ RestartAfterFailure \/ NextNativeFrame \/ DrainPreview
           \/ DequeuePreview \/ SourceFence \/ SourceFenceTimeout \/ DequeueRecheck
           \/ CopyPreview \/ BlitPop \/ BlitComplete \/ BlitRequeue \/ ResultPop
           \/ ScheduleJpeg \/ PostTakePicture \/ PictureThread \/ PictureTaken
           \/ DataCallback \/ HandleJpeg \/ HandleJpegCheck \/ SendJpeg \/ RestartCheck
           \/ RestartPreview \/ FinishCallback \/ Flush \/ Close \/ CloseJoin
           \/ CloseFlush \/ FlushDrainJpeg \/ FlushLock \/ CancelPicture
           \/ PictureCancelled \/ FlushStopPreview \/ FlushCollect \/ FlushResults
           \/ FlushResultIdle \/ FlushFail \/ FlushEnd \/ CloseEnd \/ Stutter
  <2>1. UNCHANGED <<shutters, next>>
    BY <1>1
       DEF UpdateBackendParameters, seen, Reserve, PostRequest,
          NeedsOrderedPreviewCapture, PopTask, StartPreviewCheck, StartPreview,
          TakePictureCheck, TakePictureFence, TakePicture, PictureStart, FinishWorker,
          TakePictureFinished, TakePictureClear, RestartAfterFailure, NextNativeFrame,
          DrainPreview, DequeuePreview, SourceFence, SourceFenceTimeout, DequeueRecheck,
          CopyPreview, BlitPop, BlitComplete, BlitRequeue, ResultPop, ScheduleJpeg,
          PostTakePicture, PictureThread, PictureTaken, DataCallback, HandleJpeg,
          HandleJpegCheck, SendJpeg, RestartCheck, RestartPreview, FinishCallback,
          Flush, BeginFlush, Close, CloseJoin, CloseFlush, FlushDrainJpeg, FlushLock,
          CancelPicture, PictureCancelled, FlushStopPreview, FlushCollect, FlushResults,
          FlushResultIdle, FlushFail, FlushEnd, CloseEnd, Stutter, vars
  <2> QED
    BY <2>1
<1>2. CASE RejectRawRequest
  <2>1. \A r \in ToSet(shutters) : r \in Requests
    BY LenProperties, ElementOfSeq DEF ToSet
  <2>2. next \in Nat /\ \A r \in ToSet(shutters) : r \in Nat
    BY <2>1, RequestsAreNat, Asking
  <2>3. next' = next + 1 /\ UNCHANGED shutters
    BY <1>2 DEF RejectRawRequest, seen
  <2> QED
    BY <2>2, <2>3
<1>3. CASE AcceptRequest
  <2>1. \A r \in ToSet(shutters) : r \in Requests
    BY LenProperties, ElementOfSeq DEF ToSet
  <2>2. next \in Nat /\ \A r \in ToSet(shutters) : r \in Nat
    BY <2>1, RequestsAreNat, Asking
  <2>3. next' = next + 1 /\ UNCHANGED shutters
    BY <1>3 DEF AcceptRequest, seen
  <2> QED
    BY <2>2, <2>3
<1>4. CASE Enqueue
  <2>1. job["framework"] \in Requests /\ job["framework"] < next
    BY <1>4, JobsAreRequests, AcceptedPlaces DEF Enqueue, At
  <2>2. ToSet(Append(shutters, job["framework"])) = ToSet(shutters) \cup {job["framework"]}
    BY <2>1, Appended
  <2>3. shutters' \in {shutters, Append(shutters, job["framework"])} /\ UNCHANGED next
    BY <1>4 DEF Enqueue
  <2> QED
    BY <2>1, <2>2, <2>3
<1>5. CASE Deliver
  <2>1. job["result"] \in Requests /\ job["result"] < next
    BY <1>5, JobsAreRequests, AcceptedPlaces DEF Deliver, At
  <2>2. ToSet(Append(shutters, job["result"])) = ToSet(shutters) \cup {job["result"]}
    BY <2>1, Appended
  <2>3. shutters' \in {shutters, Append(shutters, job["result"])} /\ UNCHANGED next
    BY <1>5 DEF Deliver
  <2> QED
    BY <2>1, <2>2, <2>3
<1>6. ASSUME NEW t \in Threads, FailLook(t) PROVE ShuttersAccepted'
  BY <1>6 DEF FailLook, seen
<1>7. ASSUME NEW t \in Threads, FailReturn(t) PROVE ShuttersAccepted'
  BY <1>7 DEF FailReturn
<1>8. ASSUME NEW t \in Threads, FailStill(t) PROVE ShuttersAccepted'
  BY <1>8 DEF FailStill, seen
<1> QED
  BY <1>1, <1>2, <1>3, <1>4, <1>5, <1>6, <1>7, <1>8 DEF SessionStep

LEMMA NoRecordingKept ==
  ASSUME Types, ControlInv, OwnedAsked, OnePlace, PlacedAreAccepted, NoRecording,
     SessionStep
  PROVE  NoRecording'
<1> USE DEF Types, ControlTypes, JobType, Threads, QueueTypes, NoVideo, Outputs,
   NoRecording
<1>1. CASE \/ RejectRawRequest \/ UpdateBackendParameters \/ PopTask
           \/ StartPreviewCheck \/ StartPreview \/ TakePictureFence \/ TakePicture
           \/ PictureStart \/ FinishWorker \/ RestartAfterFailure \/ NextNativeFrame
           \/ DrainPreview \/ SourceFence \/ BlitRequeue \/ PictureThread
           \/ PictureTaken \/ DataCallback \/ HandleJpegCheck \/ SendJpeg
           \/ RestartCheck \/ RestartPreview \/ Flush \/ Close \/ CloseJoin
           \/ CloseFlush \/ FlushLock \/ CancelPicture \/ PictureCancelled
           \/ FlushStopPreview \/ FlushCollect \/ FlushResults \/ FlushFail \/ FlushEnd
           \/ CloseEnd \/ Stutter
  <2>1. UNCHANGED <<scenario, job, videoBlitQueue>>
    BY <1>1
       DEF RejectRawRequest, control, queues, UpdateBackendParameters, PopTask,
          StartPreviewCheck, HasSource, StartPreview, Faults, TakePictureFence,
          TakePicture, PictureStart, PreviewStopped, FinishWorker, RestartAfterFailure,
          NextNativeFrame, DrainPreview, SourceFence, BlitRequeue, PictureThread,
          PictureTaken, DataCallback, HandleJpegCheck, SendJpeg, RestartCheck,
          RestartPreview, Flush, BeginFlush, Close, CloseJoin, CloseFlush, FlushLock,
          CancelPicture, PictureCancelled, FlushStopPreview, FlushCollect, FlushResults,
          FlushFail, FlushEnd, CloseEnd, Stutter, vars
  <2> QED
    BY <2>1
<1>2. CASE AcceptRequest
  BY <1>2, Outside DEF AcceptRequest, GotoWith, Settings, queues
<1>3. CASE Reserve
  BY <1>3, Outside DEF Reserve, GotoWith, queues
<1>4. CASE Enqueue
  BY <1>4, Outside DEF Enqueue, GotoWith, NeedsOrderedPreviewCapture, queues, HasSource
<1>5. CASE PostRequest
  BY <1>5, Outside
     DEF PostRequest, GotoWith, NeedsOrderedPreviewCapture, queues, HasSource
<1>6. CASE TakePictureCheck
  BY <1>6, Outside DEF TakePictureCheck, GotoWith, queues
<1>7. CASE TakePictureFinished
  BY <1>7, Outside DEF TakePictureFinished, GotoWith, queues
<1>8. CASE TakePictureClear
  BY <1>8, Outside DEF TakePictureClear, GotoWith, queues
<1>9. CASE DequeuePreview
  BY <1>9, Outside DEF DequeuePreview, GotoWith, queues
<1>10. CASE SourceFenceTimeout
  BY <1>10, Outside DEF SourceFenceTimeout, Faults, GotoWith, queues
<1>11. CASE DequeueRecheck
  BY <1>11, Outside DEF DequeueRecheck, GotoWith, queues
<1>12. CASE CopyPreview
  <2>1. job["capture"] \in Requests /\ job["capture"] < next
    <3>1. job["capture"] \in Requests
      BY <1>12, JobsAreRequests DEF CopyPreview, At
    <3>2. Place("dequeued", job["capture"]) /\ "dequeued" \in Places
      BY DEF Place, Places, Stages
    <3> QED
      BY <3>1, <3>2 DEF PlacedAreAccepted
  <2>2. job["capture"] \in DOMAIN Outputs
    BY <2>1, AcceptedAsked DEF Types
  <2>3. NoVideo => "video" \notin owned[job["capture"]]
    BY <2>1, <2>2 DEF OwnedAsked
  <2> QED
    BY <1>12, <2>3 DEF CopyPreview, GotoWith
<1>13. CASE BlitPop
  BY <1>13 DEF BlitPop, GotoWith
<1>14. CASE BlitComplete
  BY <1>14, Outside DEF BlitComplete, GotoWith
<1>15. CASE ResultPop
  BY <1>15, Outside DEF ResultPop, GotoWith
<1>16. CASE Deliver
  BY <1>16, Outside DEF Deliver, GotoWith, queues
<1>17. CASE ScheduleJpeg
  BY <1>17, Outside DEF ScheduleJpeg, GotoWith, queues
<1>18. CASE PostTakePicture
  BY <1>18, Outside DEF PostTakePicture, GotoWith, queues
<1>19. CASE HandleJpeg
  BY <1>19, Outside DEF HandleJpeg, GotoWith, queues
<1>20. CASE FinishCallback
  BY <1>20, Outside DEF FinishCallback, GotoWith, queues
<1>21. CASE FlushDrainJpeg
  BY <1>21, Outside DEF FlushDrainJpeg, GotoWith, queues
<1>22. CASE FlushResultIdle
  BY <1>22, Outside DEF FlushResultIdle, GotoWith, queues
<1>23. ASSUME NEW t \in Threads, FailLook(t) PROVE NoRecording'
  BY <1>23, Outside DEF FailLook, queues
<1>24. ASSUME NEW t \in Threads, FailReturn(t) PROVE NoRecording'
  BY <1>24, Outside DEF FailReturn, queues
<1>25. ASSUME NEW t \in Threads, FailStill(t) PROVE NoRecording'
  BY <1>25, Outside DEF FailStill, queues
<1> QED
  BY <1>1, <1>2, <1>3, <1>4, <1>5, <1>6, <1>7, <1>8, <1>9, <1>10, <1>11, <1>12, <1>13,
     <1>14, <1>15, <1>16, <1>17, <1>18, <1>19, <1>20, <1>21, <1>22, <1>23, <1>24, <1>25
     DEF SessionStep

LEMMA LinesAccepted ==
  ASSUME Types, ControlInv, PlacedAreAccepted, ShuttersAccepted,
         NEW n \in 1..5, NEW x \in Requests, Line(n, x)
  PROVE  x < next
<1>1. {"delivered", "completed", "dequeued", "queued"} \subseteq Places
  BY DEF Places, Stages
<1>2. x \in ToSet(shutters) \/ \E p \in {"delivered", "completed", "dequeued", "queued"} : Place(p, x)
  BY DEF Line, Place
<1> QED
  BY <1>1, <1>2 DEF PlacedAreAccepted, ShuttersAccepted

LEMMA OrderInvKept ==
  ASSUME Types, ControlInv, NoneTwice, InFlightOK, PlacedAreAccepted, WorkerAccepted,
     OwnedAsked, SourceOK, ShuttersAccepted, NoRecording, OrderInv, SessionStep
  PROVE  OrderInv'
<1> USE DEF Types, ControlTypes, PcType, JobType, Threads, QueueTypes, SessionTypes,
   NoVideo, Outputs, OrderInv
<1>1. CASE \/ RejectRawRequest \/ FlushFail \/ Stutter
  <2>1. UNCHANGED <<scenario, pc, job, previewQueue, resultQueue, shutters>>
    BY <1>1
       DEF RejectRawRequest, At, control, preview, queues, FlushFail, seen, Stutter,
          vars
  <2>2. NoNewLine
    BY <2>1 DEF NoNewLine, Line
  <2> QED
    BY <2>1, <2>2, NoNewLineKeeps
<1>2. CASE AcceptRequest
  <2>1. PICK r \in Requests : r = next
    BY <1>2, Asking DEF AcceptRequest
  <2>2. /\ job' = [job EXCEPT !["framework"] = r] /\ job["framework"] = None
        /\ pc'["result"] = pc["result"] /\ UNCHANGED <<shutters, resultQueue, previewQueue, scenario>>
    BY <1>2, <2>1 DEF AcceptRequest, At, GotoWith, Goto, preview, queues, seen, ControlInv, FrameworkOK
  <2>3. \A n \in 1..6, x \in Requests : Line(n, x)' => Line(n, x) \/ (n = 6 /\ x = r)
    BY <2>2, Outside DEF Line
  <2>4. \A n \in 1..5, x \in Requests : Line(n, x) => x < r
    BY <2>1, LinesAccepted
  <2>5. ASSUME InLine PROVE InLine'
    <3> SUFFICES ASSUME NEW k \in 1..6, NEW l \in 1..6, NEW x \in Requests, NEW y \in Requests,
                        k < l, Line(k, x)', Line(l, y)'
                 PROVE  x < y
      BY DEF InLine
    <3>1. k \in 1..5 /\ Line(k, x)
      BY <2>3
    <3> QED
      BY <2>3, <2>4, <2>5, <3>1 DEF InLine
  <2> QED
    BY <2>2, <2>5
<1>3. CASE UpdateBackendParameters
  <2>1. /\ pc["framework"] = "parameters" /\ pc'["result"] = pc["result"]
        /\ UNCHANGED <<job, shutters, resultQueue, previewQueue, scenario>>
    BY <1>3 DEF UpdateBackendParameters, At, Goto, queues, preview, seen
  <2>2. NoNewLine
    BY <2>1, Outside DEF NoNewLine, Line
  <2> QED
    BY <2>1, <2>2, NoNewLineKeeps
<1>4. CASE Reserve
  <2>1. /\ pc["framework"] = "reserve" /\ pc'["result"] = pc["result"]
        /\ \A u \in Threads \ {"framework"} : job'[u] = job[u]
        /\ job'["framework"] \in {None, job["framework"]}
        /\ UNCHANGED <<shutters, resultQueue, previewQueue, scenario>>
    BY <1>4 DEF Reserve, At, GotoWith, Goto, preview, queues, seen
  <2>2. NoNewLine
    BY <2>1, Outside DEF NoNewLine, Line
  <2> QED
    BY <2>1, <2>2, NoNewLineKeeps
<1>5. CASE Enqueue
  <2>1. PICK r \in Requests : r = job["framework"]
    BY <1>5, JobsAreRequests DEF Enqueue, At
  <2>2. /\ pc["framework"] = "enqueue" /\ pc'["framework"] \in {"idle", "post"}
        /\ pc'["result"] = pc["result"] /\ \A u \in Threads \ {"framework"} : job'[u] = job[u]
        /\ UNCHANGED <<resultQueue, scenario>>
    BY <1>5 DEF Enqueue, At, GotoWith, Goto, queues
  <2>3. Line(6, r) /\ (\A y \in ToSet(previewQueue) : Line(5, y)) /\ \A y \in ToSet(shutters) : Line(1, y)
    BY <2>1, <2>2 DEF Line
  <2>4. CASE UNCHANGED <<shutters, previewQueue>>
    <3>1. NoNewLine
      BY <2>2, <2>4 DEF NoNewLine, Line
    <3> QED
      BY <2>2, <2>4, <3>1, NoNewLineKeeps
  <2>5. CASE UNCHANGED shutters /\ previewQueue' = Append(previewQueue, r)
    <3>1. ToSet(previewQueue') = ToSet(previewQueue) \cup {r}
      BY <2>5, Appended
    <3>2. Ahead(r, 6, 5)
      BY <2>1, <2>2, <2>3, <2>5, <3>1 DEF Ahead, Line
    <3>3. ASSUME NoVideo PROVE Increasing(previewQueue')
      BY <2>3, <2>5, <3>3, LineAppended
    <3> QED
      BY <2>2, <2>5, <3>2, <3>3, AheadKeeps
  <2>6. CASE ~HasSource /\ shutters' = Append(shutters, r) /\ UNCHANGED previewQueue
    <3>1. ToSet(shutters') = ToSet(shutters) \cup {r}
      BY <2>6, Appended
    <3>2. \A l \in 2..5, x \in Requests : ~Line(l, x)
      BY <2>6, EmptySequence, Outside DEF SourceOK, Line
    <3>3. Ahead(r, 6, 1)
      BY <2>1, <2>2, <2>3, <2>6, <3>1, <3>2 DEF Ahead, Line
    <3>4. ASSUME NoVideo PROVE Increasing(shutters')
      BY <2>3, <2>6, <3>4, LineAppended
    <3> QED
      BY <2>2, <2>6, <3>3, <3>4, AheadKeeps
  <2>7. ~NeedsOrderedPreviewCapture(r) => ~HasSource
    BY DEF NeedsOrderedPreviewCapture
  <2> QED
    BY <1>5, <2>1, <2>4, <2>5, <2>6, <2>7 DEF Enqueue
<1>6. CASE PostRequest
  <2>1. /\ pc'["framework"] = "idle" /\ job' = [job EXCEPT !["framework"] = None]
        /\ pc'["result"] = pc["result"]
        /\ UNCHANGED <<shutters, resultQueue, previewQueue, scenario>>
    BY <1>6 DEF PostRequest, GotoWith, Goto, queues, preview, seen
  <2>2. NoNewLine
    BY <2>1, Outside DEF NoNewLine, Line
  <2> QED
    BY <2>1, <2>2, NoNewLineKeeps
<1>7. CASE PopTask
  <2>1. /\ pc'["result"] = pc["result"] /\ pc'["framework"] = pc["framework"]
        /\ \A u \in {"framework", "result", "capture"} : job'[u] = job[u]
        /\ UNCHANGED <<shutters, resultQueue, previewQueue, scenario>>
    BY <1>7 DEF PopTask, At, Goto, preview, queues, seen
  <2>2. NoNewLine
    BY <2>1 DEF NoNewLine, Line
  <2> QED
    BY <2>1, <2>2, NoNewLineKeeps
<1>8. CASE StartPreviewCheck
  <2>1. /\ pc'["result"] = pc["result"] /\ pc'["framework"] = pc["framework"]
        /\ \A u \in {"framework", "result", "capture"} : job'[u] = job[u]
        /\ UNCHANGED <<shutters, resultQueue, previewQueue, scenario>>
    BY <1>8 DEF StartPreviewCheck, At, Goto, HasSource, preview, queues, seen
  <2>2. NoNewLine
    BY <2>1 DEF NoNewLine, Line
  <2> QED
    BY <2>1, <2>2, NoNewLineKeeps
<1>9. CASE StartPreview
  <2>1. /\ pc'["result"] = pc["result"] /\ pc'["framework"] = pc["framework"]
        /\ \A u \in {"framework", "result", "capture"} : job'[u] = job[u]
        /\ UNCHANGED <<shutters, resultQueue, previewQueue, scenario>>
    BY <1>9 DEF StartPreview, At, Faults, Goto, preview, queues, seen
  <2>2. NoNewLine
    BY <2>1 DEF NoNewLine, Line
  <2> QED
    BY <2>1, <2>2, NoNewLineKeeps
<1>10. CASE TakePictureCheck
  <2>1. /\ pc'["result"] = pc["result"] /\ pc'["framework"] = pc["framework"]
        /\ \A u \in {"framework", "result", "capture"} : job'[u] = job[u]
        /\ UNCHANGED <<shutters, resultQueue, previewQueue, scenario>>
    BY <1>10 DEF TakePictureCheck, At, GotoWith, preview, queues, seen, Goto
  <2>2. NoNewLine
    BY <2>1 DEF NoNewLine, Line
  <2> QED
    BY <2>1, <2>2, NoNewLineKeeps
<1>11. CASE TakePictureFence
  <2>1. /\ pc'["result"] = pc["result"] /\ pc'["framework"] = pc["framework"]
        /\ \A u \in {"framework", "result", "capture"} : job'[u] = job[u]
        /\ UNCHANGED <<shutters, resultQueue, previewQueue, scenario>>
    BY <1>11 DEF TakePictureFence, At, Faults, Goto, preview, queues, seen
  <2>2. NoNewLine
    BY <2>1 DEF NoNewLine, Line
  <2> QED
    BY <2>1, <2>2, NoNewLineKeeps
<1>12. CASE TakePicture
  <2>1. /\ pc'["result"] = pc["result"] /\ pc'["framework"] = pc["framework"]
        /\ \A u \in {"framework", "result", "capture"} : job'[u] = job[u]
        /\ UNCHANGED <<shutters, resultQueue, previewQueue, scenario>>
    BY <1>12 DEF TakePicture, At, Faults, Goto, preview, queues, seen
  <2>2. NoNewLine
    BY <2>1 DEF NoNewLine, Line
  <2> QED
    BY <2>1, <2>2, NoNewLineKeeps
<1>13. CASE PictureStart
  <2>1. /\ pc'["result"] = pc["result"] /\ pc'["framework"] = pc["framework"]
        /\ \A u \in {"framework", "result", "capture"} : job'[u] = job[u]
        /\ UNCHANGED <<shutters, resultQueue, previewQueue, scenario>>
    BY <1>13 DEF PictureStart, At, Faults, Goto, preview, queues, seen
  <2>2. NoNewLine
    BY <2>1 DEF NoNewLine, Line
  <2> QED
    BY <2>1, <2>2, NoNewLineKeeps
<1>14. CASE FinishWorker
  <2>1. /\ pc'["result"] = pc["result"] /\ pc'["framework"] = pc["framework"]
        /\ \A u \in {"framework", "result", "capture"} : job'[u] = job[u]
        /\ UNCHANGED <<shutters, resultQueue, previewQueue, scenario>>
    BY <1>14 DEF FinishWorker, At, Goto, preview, queues, seen
  <2>2. NoNewLine
    BY <2>1 DEF NoNewLine, Line
  <2> QED
    BY <2>1, <2>2, NoNewLineKeeps
<1>15. CASE TakePictureFinished
  <2>1. /\ pc'["result"] = pc["result"] /\ pc'["framework"] = pc["framework"]
        /\ \A u \in {"framework", "result", "capture"} : job'[u] = job[u]
        /\ UNCHANGED <<shutters, resultQueue, previewQueue, scenario>>
    BY <1>15 DEF TakePictureFinished, At, Goto, GotoWith, preview, queues, seen
  <2>2. NoNewLine
    BY <2>1 DEF NoNewLine, Line
  <2> QED
    BY <2>1, <2>2, NoNewLineKeeps
<1>16. CASE TakePictureClear
  <2>1. /\ pc'["result"] = pc["result"] /\ pc'["framework"] = pc["framework"]
        /\ \A u \in {"framework", "result", "capture"} : job'[u] = job[u]
        /\ UNCHANGED <<shutters, resultQueue, previewQueue, scenario>>
    BY <1>16 DEF TakePictureClear, At, GotoWith, preview, queues, seen, Goto
  <2>2. NoNewLine
    BY <2>1 DEF NoNewLine, Line
  <2> QED
    BY <2>1, <2>2, NoNewLineKeeps
<1>17. CASE RestartAfterFailure
  <2>1. /\ pc'["result"] = pc["result"] /\ pc'["framework"] = pc["framework"]
        /\ \A u \in {"framework", "result", "capture"} : job'[u] = job[u]
        /\ UNCHANGED <<shutters, resultQueue, previewQueue, scenario>>
    BY <1>17 DEF RestartAfterFailure, At, Goto, preview, queues, seen
  <2>2. NoNewLine
    BY <2>1 DEF NoNewLine, Line
  <2> QED
    BY <2>1, <2>2, NoNewLineKeeps
<1>18. CASE NextNativeFrame
  <2>1. /\ pc'["result"] = pc["result"] /\ pc'["framework"] = pc["framework"]
        /\ \A u \in {"framework", "result", "capture"} : job'[u] = job[u]
        /\ UNCHANGED <<shutters, resultQueue, previewQueue, scenario>>
    BY <1>18 DEF NextNativeFrame, At, Faults, Goto, preview, queues, seen
  <2>2. NoNewLine
    BY <2>1 DEF NoNewLine, Line
  <2> QED
    BY <2>1, <2>2, NoNewLineKeeps
<1>19. CASE DrainPreview
  <2>1. /\ pc'["result"] = pc["result"] /\ pc'["framework"] = pc["framework"]
        /\ \A u \in {"framework", "result", "capture"} : job'[u] = job[u]
        /\ UNCHANGED <<shutters, resultQueue, previewQueue, scenario>>
    BY <1>19 DEF DrainPreview, At, Goto, preview, queues, seen
  <2>2. NoNewLine
    BY <2>1 DEF NoNewLine, Line
  <2> QED
    BY <2>1, <2>2, NoNewLineKeeps
<1>20. CASE DequeuePreview
  <2>1. PICK r \in Requests : r = Head(previewQueue)
    BY <1>20, Split DEF DequeuePreview
  <2>2. /\ job["capture"] = None /\ job' = [job EXCEPT !["capture"] = r]
        /\ pc' = [pc EXCEPT !["capture"] = "fence"] /\ previewQueue' = Tail(previewQueue)
        /\ UNCHANGED <<shutters, resultQueue, scenario>> /\ previewQueue # << >>
    BY <1>20, <2>1 DEF DequeuePreview, At, GotoWith, Goto, queues, seen, ControlInv, CaptureOK
  <2>3. ToSet(previewQueue) = {r} \cup ToSet(Tail(previewQueue)) /\ r \notin ToSet(Tail(previewQueue))
    BY <2>1, <2>2, Split DEF NoneTwice
  <2>4. ASSUME NoVideo PROVE Increasing(Tail(previewQueue)) /\ \A y \in ToSet(Tail(previewQueue)) : r < y
    BY <2>1, <2>2, <2>4, IncreasingTail
  <2>5. ASSUME NoVideo PROVE Ahead(r, 5, 4)
    BY <2>2, <2>3, <2>4, <2>5, Outside DEF Ahead, Line
  <2> QED
    BY <2>2, <2>4, <2>5, AheadKeeps
<1>21. CASE SourceFence
  <2>1. /\ pc'["result"] = pc["result"] /\ pc'["framework"] = pc["framework"]
        /\ \A u \in {"framework", "result", "capture"} : job'[u] = job[u]
        /\ UNCHANGED <<shutters, resultQueue, previewQueue, scenario>>
    BY <1>21 DEF SourceFence, At, Goto, preview, queues, seen
  <2>2. NoNewLine
    BY <2>1 DEF NoNewLine, Line
  <2> QED
    BY <2>1, <2>2, NoNewLineKeeps
<1>22. CASE SourceFenceTimeout
  <2>1. /\ pc'["result"] = pc["result"] /\ pc'["framework"] = pc["framework"]
        /\ job' = [job EXCEPT !["capture"] = None]
        /\ UNCHANGED <<shutters, resultQueue, previewQueue, scenario>>
    BY <1>22 DEF SourceFenceTimeout, GotoWith, Goto, queues, seen
  <2>2. NoNewLine
    BY <2>1, Outside DEF NoNewLine, Line
  <2> QED
    BY <2>1, <2>2, NoNewLineKeeps
<1>23. CASE DequeueRecheck
  <2>1. PICK r \in Requests : r = job["capture"]
    BY <1>23, JobsAreRequests DEF DequeueRecheck, At
  <2>2. UNCHANGED <<shutters, resultQueue, scenario>> /\ pc'["result"] = pc["result"]
        /\ pc'["framework"] = pc["framework"]
    BY <1>23 DEF DequeueRecheck, GotoWith, Goto, queues, seen
  <2>3. CASE UNCHANGED previewQueue /\ job' \in {job, [job EXCEPT !["capture"] = None]}
    <3>1. NoNewLine
      BY <2>2, <2>3, Outside DEF NoNewLine, Line
    <3> QED
      BY <2>2, <2>3, <3>1, NoNewLineKeeps
  <2>4. CASE previewQueue' = <<r>> \o previewQueue /\ job' = [job EXCEPT !["capture"] = None]
    <3>1. ToSet(previewQueue') = {r} \cup ToSet(previewQueue)
      BY <2>4, PutFirst
    <3>2. Line(4, r) /\ \A y \in ToSet(previewQueue) : y \in Requests /\ Line(5, y)
      BY <2>1, LenProperties, ElementOfSeq DEF Line, ToSet
    <3>3. ASSUME NoVideo PROVE Increasing(previewQueue')
      <4>1. \A y \in ToSet(previewQueue) : r < y
        BY <3>2, <3>3 DEF InLine
      <4> QED
        BY <2>4, <3>3, <4>1, IncreasingPutFirst
    <3>4. \A n \in 1..6, x \in Requests :
            Line(n, x)' => n # 4 /\ (Line(n, x) \/ (n = 5 /\ x = r))
      <4>1. /\ job'["capture"] = None /\ job'["result"] = job["result"]
            /\ job'["framework"] = job["framework"]
        BY <2>4
      <4> QED
        BY <2>2, <4>1, <3>1, Outside DEF Line
    <3>5. ASSUME NoVideo PROVE InLine'
      <4> SUFFICES ASSUME NEW k \in 1..6, NEW l \in 1..6, NEW x \in Requests, NEW y \in Requests,
                          k < l, Line(k, x)', Line(l, y)'
                   PROVE  x < y
        BY DEF InLine
      <4>1. InLine
        BY <3>5
      <4>2. (Line(k, x) /\ k # 4) \/ (k = 5 /\ x = r)
        BY <3>4
      <4>3. Line(l, y) \/ (l = 5 /\ y = r)
        BY <3>4
      <4>4. CASE k = 5 /\ x = r
        BY <3>2, <4>1, <4>3, <4>4 DEF InLine
      <4>5. CASE Line(k, x) /\ k # 4 /\ l = 5 /\ y = r
        BY <3>2, <4>1, <4>5 DEF InLine
      <4>6. CASE Line(k, x) /\ Line(l, y)
        BY <4>1, <4>6 DEF InLine
      <4> QED
        BY <4>2, <4>3, <4>4, <4>5, <4>6
    <3> QED
      BY <2>2, <3>3, <3>5
  <2> QED
    BY <1>23, <2>1, <2>3, <2>4 DEF DequeueRecheck, GotoWith, preview
<1>24. CASE CopyPreview
  <2>1. PICK r \in Requests : r = job["capture"]
    BY <1>24, JobsAreRequests DEF CopyPreview, At
  <2>2. /\ UNCHANGED <<shutters, previewQueue, scenario>> /\ pc'["result"] = pc["result"]
        /\ pc'["framework"] = pc["framework"] /\ job' = [job EXCEPT !["capture"] = None]
    BY <1>24 DEF CopyPreview, GotoWith, Goto, seen
  <2>3. CASE UNCHANGED resultQueue
    <3>1. NoNewLine
      BY <2>2, <2>3, Outside DEF NoNewLine, Line
    <3> QED
      BY <2>2, <2>3, <3>1, NoNewLineKeeps
  <2>4. CASE resultQueue' = Append(resultQueue, r)
    <3>1. ToSet(resultQueue') = ToSet(resultQueue) \cup {r}
      BY <2>4, Appended
    <3>2. Line(4, r) /\ \A y \in ToSet(resultQueue) : Line(3, y)
      BY <2>1 DEF Line
    <3>3. Ahead(r, 4, 3)
      BY <2>1, <2>2, <3>1, <3>2, Outside DEF Ahead, Line
    <3>4. ASSUME NoVideo PROVE Increasing(resultQueue')
      BY <2>4, <3>2, <3>4, LineAppended
    <3> QED
      BY <2>2, <3>3, <3>4, AheadKeeps
  <2> QED
    BY <1>24, <2>1, <2>3, <2>4 DEF CopyPreview, Complete
<1>25. CASE BlitPop
  <2>1. videoBlitQueue # << >> /\ scenario' = scenario
    BY <1>25 DEF BlitPop
  <2> QED
    BY <2>1 DEF NoRecording
<1>26. CASE BlitComplete
  <2>1. job["blit"] # None /\ scenario' = scenario
    BY <1>26, JobsAreRequests, Outside DEF BlitComplete, At
  <2> QED
    BY <2>1 DEF NoRecording
<1>27. CASE BlitRequeue
  <2>1. /\ pc'["result"] = pc["result"] /\ pc'["framework"] = pc["framework"]
        /\ \A u \in {"framework", "result", "capture"} : job'[u] = job[u]
        /\ UNCHANGED <<shutters, resultQueue, previewQueue, scenario>>
    BY <1>27 DEF BlitRequeue, At, Goto, preview, queues, seen
  <2>2. NoNewLine
    BY <2>1 DEF NoNewLine, Line
  <2> QED
    BY <2>1, <2>2, NoNewLineKeeps
<1>28. CASE ResultPop
  <2>1. PICK r \in Requests : r = Head(resultQueue)
    BY <1>28, Split DEF ResultPop
  <2>2. /\ job["result"] = None /\ job' = [job EXCEPT !["result"] = r]
        /\ pc' = [pc EXCEPT !["result"] = "deliver"] /\ resultQueue' = Tail(resultQueue)
        /\ UNCHANGED <<shutters, previewQueue, scenario>> /\ resultQueue # << >>
    BY <1>28, <2>1 DEF ResultPop, At, GotoWith, Goto, preview, seen, ControlInv, ResultOK
  <2>3. ToSet(resultQueue) = {r} \cup ToSet(Tail(resultQueue)) /\ r \notin ToSet(Tail(resultQueue))
    BY <2>1, <2>2, Split DEF NoneTwice
  <2>4. ASSUME NoVideo PROVE Increasing(Tail(resultQueue)) /\ \A y \in ToSet(Tail(resultQueue)) : r < y
    BY <2>1, <2>2, <2>4, IncreasingTail
  <2>5. ASSUME NoVideo PROVE Ahead(r, 3, 2)
    BY <2>2, <2>3, <2>4, <2>5, Outside DEF Ahead, Line
  <2> QED
    BY <2>2, <2>4, <2>5, AheadKeeps
<1>29. CASE Deliver
  <2>1. PICK r \in Requests : r = job["result"]
    BY <1>29, JobsAreRequests DEF Deliver, At
  <2>2. /\ pc["result"] = "deliver" /\ pc'["result"] \in {"schedule", "idle"}
        /\ pc'["framework"] = pc["framework"] /\ \A u \in Threads \ {"result"} : job'[u] = job[u]
        /\ shutters' = Append(shutters, r) /\ UNCHANGED <<resultQueue, previewQueue, scenario>>
    BY <1>29, <2>1 DEF Deliver, At, GotoWith, Goto, preview, queues
  <2>3. ToSet(shutters') = ToSet(shutters) \cup {r}
    BY <2>2, Appended
  <2>4. Line(2, r) /\ \A y \in ToSet(shutters) : Line(1, y)
    BY <2>1, <2>2 DEF Line
  <2>5. Ahead(r, 2, 1)
    BY <2>1, <2>2, <2>3, <2>4 DEF Ahead, Line
  <2>6. ASSUME NoVideo PROVE Increasing(shutters')
    BY <2>2, <2>4, <2>6, LineAppended
  <2> QED
    BY <2>2, <2>5, <2>6, AheadKeeps
<1>30. CASE ScheduleJpeg
  <2>1. /\ pc["result"] = "schedule" /\ pc'["result"] \in {"idle", "post"}
        /\ pc'["framework"] = pc["framework"] /\ \A u \in Threads \ {"result"} : job'[u] = job[u]
        /\ UNCHANGED <<shutters, resultQueue, previewQueue, scenario>>
    BY <1>30 DEF ScheduleJpeg, At, GotoWith, Goto, queues, preview, seen
  <2>2. NoNewLine
    BY <2>1, Outside DEF NoNewLine, Line
  <2> QED
    BY <2>1, <2>2, NoNewLineKeeps
<1>31. CASE PostTakePicture
  <2>1. /\ pc'["result"] = "idle" /\ job' = [job EXCEPT !["result"] = None]
        /\ pc'["framework"] = pc["framework"]
        /\ UNCHANGED <<shutters, resultQueue, previewQueue, scenario>>
    BY <1>31 DEF PostTakePicture, GotoWith, Goto, queues, preview, seen
  <2>2. NoNewLine
    BY <2>1, Outside DEF NoNewLine, Line
  <2> QED
    BY <2>1, <2>2, NoNewLineKeeps
<1>32. CASE PictureThread
  <2>1. /\ pc'["result"] = pc["result"] /\ pc'["framework"] = pc["framework"]
        /\ \A u \in {"framework", "result", "capture"} : job'[u] = job[u]
        /\ UNCHANGED <<shutters, resultQueue, previewQueue, scenario>>
    BY <1>32 DEF PictureThread, At, Goto, preview, queues, seen
  <2>2. NoNewLine
    BY <2>1 DEF NoNewLine, Line
  <2> QED
    BY <2>1, <2>2, NoNewLineKeeps
<1>33. CASE PictureTaken
  <2>1. /\ pc'["result"] = pc["result"] /\ pc'["framework"] = pc["framework"]
        /\ \A u \in {"framework", "result", "capture"} : job'[u] = job[u]
        /\ UNCHANGED <<shutters, resultQueue, previewQueue, scenario>>
    BY <1>33 DEF PictureTaken, At, Faults, Goto, preview, queues, seen
  <2>2. NoNewLine
    BY <2>1 DEF NoNewLine, Line
  <2> QED
    BY <2>1, <2>2, NoNewLineKeeps
<1>34. CASE DataCallback
  <2>1. /\ pc'["result"] = pc["result"] /\ pc'["framework"] = pc["framework"]
        /\ \A u \in {"framework", "result", "capture"} : job'[u] = job[u]
        /\ UNCHANGED <<shutters, resultQueue, previewQueue, scenario>>
    BY <1>34 DEF DataCallback, At, Goto, preview, queues, seen
  <2>2. NoNewLine
    BY <2>1 DEF NoNewLine, Line
  <2> QED
    BY <2>1, <2>2, NoNewLineKeeps
<1>35. CASE HandleJpeg
  <2>1. /\ pc'["result"] = pc["result"] /\ pc'["framework"] = pc["framework"]
        /\ \A u \in {"framework", "result", "capture"} : job'[u] = job[u]
        /\ UNCHANGED <<shutters, resultQueue, previewQueue, scenario>>
    BY <1>35 DEF HandleJpeg, At, GotoWith, preview, queues, seen, Goto
  <2>2. NoNewLine
    BY <2>1 DEF NoNewLine, Line
  <2> QED
    BY <2>1, <2>2, NoNewLineKeeps
<1>36. CASE HandleJpegCheck
  <2>1. /\ pc'["result"] = pc["result"] /\ pc'["framework"] = pc["framework"]
        /\ \A u \in {"framework", "result", "capture"} : job'[u] = job[u]
        /\ UNCHANGED <<shutters, resultQueue, previewQueue, scenario>>
    BY <1>36 DEF HandleJpegCheck, At, Goto, preview, queues, seen
  <2>2. NoNewLine
    BY <2>1 DEF NoNewLine, Line
  <2> QED
    BY <2>1, <2>2, NoNewLineKeeps
<1>37. CASE SendJpeg
  <2>1. /\ pc'["result"] = pc["result"] /\ pc'["framework"] = pc["framework"]
        /\ \A u \in {"framework", "result", "capture"} : job'[u] = job[u]
        /\ UNCHANGED <<shutters, resultQueue, previewQueue, scenario>>
    BY <1>37 DEF SendJpeg, At, Goto, preview, queues
  <2>2. NoNewLine
    BY <2>1 DEF NoNewLine, Line
  <2> QED
    BY <2>1, <2>2, NoNewLineKeeps
<1>38. CASE RestartCheck
  <2>1. /\ pc'["result"] = pc["result"] /\ pc'["framework"] = pc["framework"]
        /\ \A u \in {"framework", "result", "capture"} : job'[u] = job[u]
        /\ UNCHANGED <<shutters, resultQueue, previewQueue, scenario>>
    BY <1>38 DEF RestartCheck, At, Goto, preview, queues, seen
  <2>2. NoNewLine
    BY <2>1 DEF NoNewLine, Line
  <2> QED
    BY <2>1, <2>2, NoNewLineKeeps
<1>39. CASE RestartPreview
  <2>1. /\ pc'["result"] = pc["result"] /\ pc'["framework"] = pc["framework"]
        /\ \A u \in {"framework", "result", "capture"} : job'[u] = job[u]
        /\ UNCHANGED <<shutters, resultQueue, previewQueue, scenario>>
    BY <1>39 DEF RestartPreview, At, Goto, preview, queues, seen
  <2>2. NoNewLine
    BY <2>1 DEF NoNewLine, Line
  <2> QED
    BY <2>1, <2>2, NoNewLineKeeps
<1>40. CASE FinishCallback
  <2>1. /\ pc'["result"] = pc["result"] /\ pc'["framework"] = pc["framework"]
        /\ \A u \in {"framework", "result", "capture"} : job'[u] = job[u]
        /\ UNCHANGED <<shutters, resultQueue, previewQueue, scenario>>
    BY <1>40 DEF FinishCallback, At, GotoWith, preview, queues, seen, Goto
  <2>2. NoNewLine
    BY <2>1 DEF NoNewLine, Line
  <2> QED
    BY <2>1, <2>2, NoNewLineKeeps
<1>41. CASE Flush
  <2>1. /\ pc'["result"] = pc["result"] /\ pc'["framework"] = pc["framework"]
        /\ \A u \in {"framework", "result", "capture"} : job'[u] = job[u]
        /\ UNCHANGED <<shutters, resultQueue, previewQueue, scenario>>
    BY <1>41 DEF Flush, At, BeginFlush, Goto, preview, queues, seen
  <2>2. NoNewLine
    BY <2>1 DEF NoNewLine, Line
  <2> QED
    BY <2>1, <2>2, NoNewLineKeeps
<1>42. CASE Close
  <2>1. /\ pc'["result"] = pc["result"] /\ pc'["framework"] = pc["framework"]
        /\ \A u \in {"framework", "result", "capture"} : job'[u] = job[u]
        /\ UNCHANGED <<shutters, resultQueue, previewQueue, scenario>>
    BY <1>42 DEF Close, At, Goto, preview, queues, seen
  <2>2. NoNewLine
    BY <2>1 DEF NoNewLine, Line
  <2> QED
    BY <2>1, <2>2, NoNewLineKeeps
<1>43. CASE CloseJoin
  <2>1. /\ pc'["result"] = pc["result"] /\ pc'["framework"] = pc["framework"]
        /\ \A u \in {"framework", "result", "capture"} : job'[u] = job[u]
        /\ UNCHANGED <<shutters, resultQueue, previewQueue, scenario>>
    BY <1>43 DEF CloseJoin, At, Goto, preview, queues, seen
  <2>2. NoNewLine
    BY <2>1 DEF NoNewLine, Line
  <2> QED
    BY <2>1, <2>2, NoNewLineKeeps
<1>44. CASE CloseFlush
  <2>1. /\ pc'["result"] = pc["result"] /\ pc'["framework"] = pc["framework"]
        /\ \A u \in {"framework", "result", "capture"} : job'[u] = job[u]
        /\ UNCHANGED <<shutters, resultQueue, previewQueue, scenario>>
    BY <1>44 DEF CloseFlush, At, BeginFlush, Goto, preview, queues, seen
  <2>2. NoNewLine
    BY <2>1 DEF NoNewLine, Line
  <2> QED
    BY <2>1, <2>2, NoNewLineKeeps
<1>45. CASE FlushDrainJpeg
  <2>1. /\ \A u \in Threads \ {"flusher"} : job'[u] = job[u] /\ pc'[u] = pc[u]
        /\ previewQueue' = << >> /\ UNCHANGED <<shutters, resultQueue, scenario>>
    BY <1>45 DEF FlushDrainJpeg, GotoWith, Goto, queues, seen
  <2>2. NoNewLine
    BY <2>1, EmptySequence DEF NoNewLine, Line
  <2> QED
    BY <2>1, <2>2, NoNewLineKeeps, IncreasingEmpty
<1>46. CASE FlushLock
  <2>1. /\ pc'["result"] = pc["result"] /\ pc'["framework"] = pc["framework"]
        /\ \A u \in {"framework", "result", "capture"} : job'[u] = job[u]
        /\ UNCHANGED <<shutters, resultQueue, previewQueue, scenario>>
    BY <1>46 DEF FlushLock, At, Goto, preview, queues, seen
  <2>2. NoNewLine
    BY <2>1 DEF NoNewLine, Line
  <2> QED
    BY <2>1, <2>2, NoNewLineKeeps
<1>47. CASE CancelPicture
  <2>1. /\ pc'["result"] = pc["result"] /\ pc'["framework"] = pc["framework"]
        /\ \A u \in {"framework", "result", "capture"} : job'[u] = job[u]
        /\ UNCHANGED <<shutters, resultQueue, previewQueue, scenario>>
    BY <1>47 DEF CancelPicture, At, preview, queues, seen
  <2>2. NoNewLine
    BY <2>1 DEF NoNewLine, Line
  <2> QED
    BY <2>1, <2>2, NoNewLineKeeps
<1>48. CASE PictureCancelled
  <2>1. /\ pc'["result"] = pc["result"] /\ pc'["framework"] = pc["framework"]
        /\ \A u \in {"framework", "result", "capture"} : job'[u] = job[u]
        /\ UNCHANGED <<shutters, resultQueue, previewQueue, scenario>>
    BY <1>48 DEF PictureCancelled, At, Goto, preview, queues, seen
  <2>2. NoNewLine
    BY <2>1 DEF NoNewLine, Line
  <2> QED
    BY <2>1, <2>2, NoNewLineKeeps
<1>49. CASE FlushStopPreview
  <2>1. /\ pc'["result"] = pc["result"] /\ pc'["framework"] = pc["framework"]
        /\ \A u \in {"framework", "result", "capture"} : job'[u] = job[u]
        /\ UNCHANGED <<shutters, resultQueue, previewQueue, scenario>>
    BY <1>49 DEF FlushStopPreview, At, Goto, preview, queues, seen
  <2>2. NoNewLine
    BY <2>1 DEF NoNewLine, Line
  <2> QED
    BY <2>1, <2>2, NoNewLineKeeps
<1>50. CASE FlushCollect
  <2>1. /\ pc'["result"] = pc["result"] /\ pc'["framework"] = pc["framework"]
        /\ \A u \in {"framework", "result", "capture"} : job'[u] = job[u]
        /\ UNCHANGED <<shutters, resultQueue, previewQueue, scenario>>
    BY <1>50 DEF FlushCollect, At, Goto, queues, seen
  <2>2. NoNewLine
    BY <2>1 DEF NoNewLine, Line
  <2> QED
    BY <2>1, <2>2, NoNewLineKeeps
<1>51. CASE FlushResults
  <2>1. /\ UNCHANGED job /\ pc' = [pc EXCEPT !["flusher"] = "resultIdle"]
        /\ resultQueue' = << >> /\ UNCHANGED <<shutters, previewQueue, scenario>>
    BY <1>51 DEF FlushResults, Goto, preview, seen
  <2>2. NoNewLine
    BY <2>1, EmptySequence DEF NoNewLine, Line
  <2> QED
    BY <2>1, <2>2, NoNewLineKeeps, IncreasingEmpty
<1>52. CASE FlushResultIdle
  <2>1. /\ pc'["result"] = pc["result"] /\ pc'["framework"] = pc["framework"]
        /\ \A u \in {"framework", "result", "capture"} : job'[u] = job[u]
        /\ UNCHANGED <<shutters, resultQueue, previewQueue, scenario>>
    BY <1>52 DEF FlushResultIdle, At, GotoWith, preview, queues, seen, Goto
  <2>2. NoNewLine
    BY <2>1 DEF NoNewLine, Line
  <2> QED
    BY <2>1, <2>2, NoNewLineKeeps
<1>53. CASE FlushEnd
  <2>1. /\ pc'["result"] = pc["result"] /\ pc'["framework"] = pc["framework"]
        /\ \A u \in {"framework", "result", "capture"} : job'[u] = job[u]
        /\ UNCHANGED <<shutters, resultQueue, previewQueue, scenario>>
    BY <1>53 DEF FlushEnd, At, Goto, preview, queues, seen
  <2>2. NoNewLine
    BY <2>1 DEF NoNewLine, Line
  <2> QED
    BY <2>1, <2>2, NoNewLineKeeps
<1>54. CASE CloseEnd
  <2>1. /\ pc'["result"] = "exited" /\ pc'["framework"] = pc["framework"]
        /\ UNCHANGED <<job, shutters, resultQueue, previewQueue, scenario>>
    BY <1>54 DEF CloseEnd, queues, preview, seen
  <2>2. NoNewLine
    BY <2>1, Outside DEF NoNewLine, Line
  <2> QED
    BY <2>1, <2>2, NoNewLineKeeps
<1>55. ASSUME NEW t \in Threads, FailLook(t) PROVE OrderInv'
  <2>1. /\ pc'["result"] = pc["result"] /\ pc'["framework"] = pc["framework"]
        /\ \A u \in {"framework", "result", "capture"} : job'[u] = job[u]
        /\ UNCHANGED <<shutters, resultQueue, previewQueue, scenario>>
    BY <1>55 DEF FailLook, preview, queues, seen
  <2>2. NoNewLine
    BY <2>1 DEF NoNewLine, Line
  <2> QED
    BY <2>1, <2>2, NoNewLineKeeps
<1>56. ASSUME NEW t \in Threads, FailReturn(t) PROVE OrderInv'
  <2>1. /\ pc'["result"] = pc["result"] /\ pc'["framework"] = pc["framework"]
        /\ \A u \in {"framework", "result", "capture"} : job'[u] = job[u]
        /\ UNCHANGED <<shutters, resultQueue, previewQueue, scenario>>
    BY <1>56 DEF FailReturn, preview, queues
  <2>2. NoNewLine
    BY <2>1 DEF NoNewLine, Line
  <2> QED
    BY <2>1, <2>2, NoNewLineKeeps
<1>57. ASSUME NEW t \in Threads, FailStill(t) PROVE OrderInv'
  <2>1. /\ pc'["result"] = pc["result"] /\ pc'["framework"] = pc["framework"]
        /\ \A u \in {"framework", "result", "capture"} : job'[u] = job[u]
        /\ UNCHANGED <<shutters, resultQueue, previewQueue, scenario>>
    BY <1>57 DEF FailStill, preview, queues, seen
  <2>2. NoNewLine
    BY <2>1 DEF NoNewLine, Line
  <2> QED
    BY <2>1, <2>2, NoNewLineKeeps
<1> QED
  BY <1>1, <1>2, <1>3, <1>4, <1>5, <1>6, <1>7, <1>8, <1>9, <1>10, <1>11, <1>12, <1>13,
     <1>14, <1>15, <1>16, <1>17, <1>18, <1>19, <1>20, <1>21, <1>22, <1>23, <1>24, <1>25,
     <1>26, <1>27, <1>28, <1>29, <1>30, <1>31, <1>32, <1>33, <1>34, <1>35, <1>36, <1>37,
     <1>38, <1>39, <1>40, <1>41, <1>42, <1>43, <1>44, <1>45, <1>46, <1>47, <1>48, <1>49,
     <1>50, <1>51, <1>52, <1>53, <1>54, <1>55, <1>56, <1>57
     DEF SessionStep

-----------------------------------------------------------------------------
SessionInv == FramesInv /\ SourceOK /\ ShuttersAccepted /\ NoRecording /\ OrderInv

LEMMA SessionInit == Init => SessionInv
<1> SUFFICES ASSUME Init PROVE SessionInv
  OBVIOUS
<1>1. FramesInv
  BY FramesInit
<1>2. SourceOK /\ NoRecording
  BY DEF Init, SourceOK, NoRecording, Threads
<1>3. ShuttersAccepted
  BY EmptySequence DEF Init, ShuttersAccepted
<1>4. \A n \in 1..6, r \in Requests : ~Line(n, r)
  BY Outside, EmptySequence DEF Init, Line, Threads
<1>5. OrderInv
  BY <1>4, IncreasingEmpty DEF Init, OrderInv, InLine
<1> QED
  BY <1>1, <1>2, <1>3, <1>5 DEF SessionInv

LEMMA SessionNext == SessionInv /\ [Next]_vars => SessionInv'
<1> SUFFICES ASSUME SessionInv, [Next]_vars PROVE SessionInv'
  OBVIOUS
<1>1. FramesInv' /\ SessionStep
  BY FramesNext, Steps DEF SessionInv
<1> USE DEF SessionInv, FramesInv
<1>2. SourceOK'
  BY <1>1, SourceOKKept
<1>3. ShuttersAccepted'
  BY <1>1, ShuttersAcceptedKept
<1>4. NoRecording'
  BY <1>1, NoRecordingKept
<1>5. OrderInv'
  BY <1>1, OrderInvKept
<1> QED
  BY <1>1, <1>2, <1>3, <1>4, <1>5

LEMMA SessionAlways == Spec => []SessionInv
<1> QED
  BY SessionInit, SessionNext, PTL DEF Spec

(* In a session that records nothing the framework sees the shutters in the  *)
(* order of its requests: a still keeps its place among the previews,       *)
(* whatever the flushes, the failures and the threads do (Deliver, Enqueue). *)
THEOREM StillsInOrder == Spec => []ShutterOrderOfStills
<1>1. SessionInv => ShutterOrderOfStills
  BY DEF SessionInv, OrderInv, NoVideo, Increasing, ShutterOrderOfStills, ShutterOrder
<1> QED
  BY <1>1, SessionAlways, PTL

-----------------------------------------------------------------------------
(* The answer to each request.  Until its result is delivered a frame is on   *)
(* its way (OnTheWay); its still, if it has one, is late.                     *)

OnTheWay(r) ==
  \/ job["framework"] = r /\ pc["framework"] \in {"parameters", "reserve", "enqueue"}
  \/ r \in ToSet(previewQueue) \/ job["capture"] = r
  \/ r \in ToSet(videoBlitQueue) \/ job["blit"] = r \/ r \in ToSet(resultQueue)
  \/ job["result"] = r /\ pc["result"] = "deliver"
Late(r) ==
  \/ pendingJpeg = r
  \/ job["picture"] = r /\ pc["picture"] \in {"check", "send"}
  \/ job["result"] = r /\ pc["result"] = "schedule"

WorkerIsLate ==
  job["worker"] # None => ~OnTheWay(job["worker"]) /\ owned[job["worker"]] \subseteq {"jpeg"}
Unanswered == \A r \in Requests :
  OnTheWay(r) \/ r >= next => r \notin metadataReturned /\ r \notin requestErrorNotified
LateAnswered == \A r \in Requests : Late(r) => r \in metadataReturned
OneAnswer == \A r \in Requests : ~(r \in metadataReturned /\ r \in requestErrorNotified)

(* What a step does of it.                                                  *)
WayShortens == \A r \in Requests : OnTheWay(r)' => OnTheWay(r) \/ (r = next /\ next' = next + 1)
WorkerTakes ==
  \/ job'["worker"] \in {None, job["worker"]}
  \/ UNCHANGED <<owned, next>> /\ job'["worker"] = pendingJpeg /\ pendingJpeg' = pendingJpeg
Answers(ms, es) ==
  /\ metadataReturned' = metadataReturned \cup ms
  /\ requestErrorNotified' = requestErrorNotified \cup es
AnswerStep ==
  \/ Answers({}, {}) /\ next' \in {next, next + 1}
  \/ \E r \in Requests : r = next /\ ~OnTheWay(r)' /\ Answers({}, {r}) /\ next' = next + 1
  \/ \E r \in Requests :
       r < next /\ OnTheWay(r) /\ ~OnTheWay(r)' /\ Answers({r}, {}) /\ UNCHANGED next
  \/ \E r \in Requests :
       /\ r < next /\ ~OnTheWay(r) /\ r \notin metadataReturned
       /\ Answers({}, {r}) /\ UNCHANGED next


LEMMA WayGetsShorter ==
  ASSUME Types, ControlInv, SessionStep
  PROVE  WayShortens
<1> USE DEF Types, ControlTypes, PcType, JobType, Threads, QueueTypes, OnTheWay,
   WayShortens
<1>1. CASE \/ RejectRawRequest \/ FlushFail \/ Stutter
  <2>1. UNCHANGED <<pc, job, previewQueue, resultQueue, videoBlitQueue>>
    BY <1>1 DEF RejectRawRequest, At, control, preview, queues, FlushFail, Stutter, vars
  <2> QED
    BY <2>1
<1>2. CASE AcceptRequest
  <2>1. /\ job' = [job EXCEPT !["framework"] = next] /\ next' = next + 1
        /\ pc'["result"] = pc["result"] /\ UNCHANGED <<resultQueue, videoBlitQueue, previewQueue>>
    BY <1>2, Asking DEF AcceptRequest, At, GotoWith, Goto, preview, queues
  <2> QED
    BY <2>1, Outside
<1>3. CASE UpdateBackendParameters
  BY <1>3, Outside DEF UpdateBackendParameters, At, Goto, preview, queues
<1>4. CASE Reserve
  BY <1>4, Outside DEF Reserve, At, Goto, GotoWith, preview, queues
<1>5. CASE Enqueue
  <2>1. /\ pc["framework"] = "enqueue" /\ pc'["framework"] \in {"idle", "post"}
        /\ pc'["result"] = pc["result"] /\ \A u \in Threads \ {"framework"} : job'[u] = job[u]
        /\ UNCHANGED <<resultQueue, videoBlitQueue>>
    BY <1>5 DEF Enqueue, At, GotoWith, Goto, queues
  <2>2. job["framework"] \in Requests
    BY <1>5, JobsAreRequests DEF Enqueue, At
  <2>3. previewQueue' \in {previewQueue, Append(previewQueue, job["framework"])}
    BY <1>5 DEF Enqueue
  <2>4. ToSet(Append(previewQueue, job["framework"])) = ToSet(previewQueue) \cup {job["framework"]}
    BY <2>2, Appended
  <2> QED
    BY <2>1, <2>3, <2>4
<1>6. CASE PostRequest
  BY <1>6, Outside
     DEF PostRequest, At, GotoWith, NeedsOrderedPreviewCapture, preview, queues, Goto
<1>7. CASE PopTask
  <2>1. pc' \in {[pc EXCEPT !["worker"] = w] : w \in {"exited", "idle", "start", "take"}}
    BY <1>7, TaskHeads DEF PopTask, Goto
  <2> QED
    BY <1>7, <2>1, Outside
       DEF PopTask, At, preview, queues
<1>8. CASE StartPreviewCheck
  BY <1>8, Outside DEF StartPreviewCheck, At, Goto, preview, queues
<1>9. CASE StartPreview
  <2>1. CASE pc' = [pc EXCEPT !["worker"] = "idle"] /\ UNCHANGED <<preview_enabled, node0>>
    BY <1>9, <2>1, Outside
       DEF StartPreview, At, preview, queues
  <2>2. CASE pc' = [pc EXCEPT !["worker"] = "idle", !["capture"] = "loop"]
             /\ preview_enabled' = TRUE /\ node0' = "preview" /\ ~preview_enabled
    BY <1>9, <2>2, Outside
       DEF StartPreview, At, preview, queues
  <2> QED
    BY <1>9, <2>1, <2>2 DEF StartPreview, Goto
<1>10. CASE TakePictureCheck
  BY <1>10, Outside DEF TakePictureCheck, At, GotoWith, preview, queues, Goto
<1>11. CASE TakePictureFence
  BY <1>11, Outside DEF TakePictureFence, At, Goto, preview, queues
<1>12. CASE TakePicture
  BY <1>12, Outside DEF TakePicture, At, Goto, preview, queues
<1>13. CASE PictureStart
  BY <1>13, Outside DEF PictureStart, At, Goto, preview, queues
<1>14. CASE FinishWorker
  BY <1>14, Outside DEF FinishWorker, At, Goto, preview, queues
<1>15. CASE TakePictureFinished
  BY <1>15, Outside DEF TakePictureFinished, At, Goto, GotoWith, preview, queues
<1>16. CASE TakePictureClear
  BY <1>16, Outside DEF TakePictureClear, At, GotoWith, preview, queues, Goto
<1>17. CASE RestartAfterFailure
  BY <1>17, Outside DEF RestartAfterFailure, At, Goto, preview, queues
<1>18. CASE NextNativeFrame
  BY <1>18, Outside DEF NextNativeFrame, At, Goto, preview, queues
<1>19. CASE DrainPreview
  BY <1>19, Outside DEF DrainPreview, At, Goto, preview, queues
<1>20. CASE DequeuePreview
  <2>1. ToSet(previewQueue) = {Head(previewQueue)} \cup ToSet(Tail(previewQueue))
    BY <1>20, Split DEF DequeuePreview
  <2>2. /\ job' = [job EXCEPT !["capture"] = Head(previewQueue)] /\ previewQueue' = Tail(previewQueue)
        /\ UNCHANGED <<resultQueue, videoBlitQueue>> /\ \A u \in Threads \ {"capture"} : pc'[u] = pc[u]
    BY <1>20 DEF DequeuePreview, GotoWith, Goto, preview, queues
  <2> QED
    BY <2>1, <2>2
<1>21. CASE SourceFence
  BY <1>21, Outside DEF SourceFence, At, Goto, preview, queues
<1>22. CASE SourceFenceTimeout
  BY <1>22, Outside DEF SourceFenceTimeout, At, GotoWith, queues, Goto
<1>23. CASE DequeueRecheck
  <2>1. job["capture"] \in Requests
    BY <1>23, JobsAreRequests DEF DequeueRecheck, At
  <2>2. ToSet(<<job["capture"]>> \o previewQueue) = {job["capture"]} \cup ToSet(previewQueue)
    BY <2>1, PutFirst
  <2>3. /\ previewQueue' \in {previewQueue, <<job["capture"]>> \o previewQueue}
        /\ job' \in {job, [job EXCEPT !["capture"] = None]}
        /\ UNCHANGED <<resultQueue, videoBlitQueue>> /\ \A u \in Threads \ {"capture"} : pc'[u] = pc[u]
    BY <1>23 DEF DequeueRecheck, GotoWith, Goto, queues, preview
  <2> QED
    BY <2>2, <2>3, Outside
<1>24. CASE CopyPreview
  <2>1. job["capture"] \in Requests
    BY <1>24, JobsAreRequests DEF CopyPreview, At
  <2>2. /\ ToSet(Append(resultQueue, job["capture"])) = {job["capture"]} \cup ToSet(resultQueue)
        /\ ToSet(Append(videoBlitQueue, job["capture"])) = {job["capture"]} \cup ToSet(videoBlitQueue)
    BY <2>1, Appended
  <2>3. /\ resultQueue' \in {resultQueue, Append(resultQueue, job["capture"])}
        /\ videoBlitQueue' \in {videoBlitQueue, Append(videoBlitQueue, job["capture"])}
        /\ job' = [job EXCEPT !["capture"] = None]
        /\ UNCHANGED previewQueue /\ \A u \in Threads \ {"capture"} : pc'[u] = pc[u]
    BY <1>24 DEF CopyPreview, Complete, GotoWith, Goto
  <2> QED
    BY <2>2, <2>3, Outside
<1>25. CASE BlitPop
  <2>1. ToSet(videoBlitQueue) = {Head(videoBlitQueue)} \cup ToSet(Tail(videoBlitQueue))
    BY <1>25, Split DEF BlitPop
  <2>2. /\ job' = [job EXCEPT !["blit"] = Head(videoBlitQueue)] /\ videoBlitQueue' = Tail(videoBlitQueue)
        /\ UNCHANGED <<resultQueue, previewQueue>> /\ \A u \in Threads \ {"blit"} : pc'[u] = pc[u]
    BY <1>25 DEF BlitPop, GotoWith, Goto, preview, queues
  <2> QED
    BY <2>1, <2>2
<1>26. CASE BlitComplete
  <2>1. job["blit"] \in Requests
    BY <1>26, JobsAreRequests DEF BlitComplete, At
  <2>2. ToSet(Append(resultQueue, job["blit"])) = {job["blit"]} \cup ToSet(resultQueue)
    BY <2>1, Appended
  <2>3. /\ resultQueue' \in {resultQueue, Append(resultQueue, job["blit"])}
        /\ job' = [job EXCEPT !["blit"] = None]
        /\ UNCHANGED <<previewQueue, videoBlitQueue>> /\ \A u \in Threads \ {"blit"} : pc'[u] = pc[u]
    BY <1>26 DEF BlitComplete, Complete, GotoWith, Goto
  <2> QED
    BY <2>2, <2>3, Outside
<1>27. CASE BlitRequeue
  BY <1>27, Outside DEF BlitRequeue, At, Goto, preview, queues
<1>28. CASE ResultPop
  <2>1. ToSet(resultQueue) = {Head(resultQueue)} \cup ToSet(Tail(resultQueue))
    BY <1>28, Split DEF ResultPop
  <2>2. /\ job' = [job EXCEPT !["result"] = Head(resultQueue)] /\ resultQueue' = Tail(resultQueue)
        /\ UNCHANGED <<previewQueue, videoBlitQueue>> /\ \A u \in Threads \ {"result"} : pc'[u] = pc[u]
    BY <1>28 DEF ResultPop, GotoWith, Goto, preview, queues
  <2> QED
    BY <2>1, <2>2
<1>29. CASE Deliver
  BY <1>29, Outside DEF Deliver, At, Goto, GotoWith, preview, queues
<1>30. CASE ScheduleJpeg
  BY <1>30, Outside DEF ScheduleJpeg, At, Goto, GotoWith, preview, queues
<1>31. CASE PostTakePicture
  BY <1>31, Outside DEF PostTakePicture, At, GotoWith, preview, queues, Goto
<1>32. CASE PictureThread
  BY <1>32, Outside DEF PictureThread, At, Goto, preview, queues
<1>33. CASE PictureTaken
  BY <1>33, Outside DEF PictureTaken, At, Goto, preview, queues
<1>34. CASE DataCallback
  BY <1>34, Outside DEF DataCallback, At, Goto, preview, queues
<1>35. CASE HandleJpeg
  BY <1>35, Outside DEF HandleJpeg, At, GotoWith, preview, queues, Goto
<1>36. CASE HandleJpegCheck
  BY <1>36, Outside DEF HandleJpegCheck, At, Goto, preview, queues
<1>37. CASE SendJpeg
  BY <1>37, Outside DEF SendJpeg, At, Goto, preview, queues
<1>38. CASE RestartCheck
  BY <1>38, Outside DEF RestartCheck, At, Goto, preview, queues
<1>39. CASE RestartPreview
  BY <1>39, Outside DEF RestartPreview, At, Goto, preview, queues
<1>40. CASE FinishCallback
  BY <1>40, Outside DEF FinishCallback, At, GotoWith, preview, queues, Goto
<1>41. CASE Flush
  BY <1>41, Outside DEF Flush, At, BeginFlush, Goto, preview, queues
<1>42. CASE Close
  BY <1>42, Outside DEF Close, At, Goto, preview, queues
<1>43. CASE CloseJoin
  BY <1>43, Outside DEF CloseJoin, At, Goto, preview, queues
<1>44. CASE CloseFlush
  BY <1>44, Outside DEF CloseFlush, At, BeginFlush, Goto, preview, queues
<1>45. CASE FlushDrainJpeg
  <2>1. /\ \A u \in Threads \ {"flusher"} : job'[u] = job[u] /\ pc'[u] = pc[u]
        /\ previewQueue' = << >> /\ UNCHANGED <<resultQueue, videoBlitQueue>>
    BY <1>45 DEF FlushDrainJpeg, GotoWith, Goto, queues
  <2> QED
    BY <2>1, EmptySequence
<1>46. CASE FlushLock
  BY <1>46, Outside DEF FlushLock, At, Goto, preview, queues
<1>47. CASE CancelPicture
  BY <1>47, Outside DEF CancelPicture, At, preview, queues
<1>48. CASE PictureCancelled
  BY <1>48, Outside DEF PictureCancelled, At, Goto, preview, queues
<1>49. CASE FlushStopPreview
  BY <1>49, Outside DEF FlushStopPreview, At, Goto, preview, queues
<1>50. CASE FlushCollect
  BY <1>50, Outside DEF FlushCollect, At, Goto, queues
<1>51. CASE FlushResults
  <2>1. /\ UNCHANGED job /\ pc' = [pc EXCEPT !["flusher"] = "resultIdle"]
        /\ resultQueue' = << >> /\ UNCHANGED <<previewQueue, videoBlitQueue>>
    BY <1>51 DEF FlushResults, Goto, preview
  <2> QED
    BY <2>1, EmptySequence
<1>52. CASE FlushResultIdle
  BY <1>52, Outside DEF FlushResultIdle, At, GotoWith, preview, queues, Goto
<1>53. CASE FlushEnd
  BY <1>53, Outside DEF FlushEnd, At, Goto, preview, queues
<1>54. CASE CloseEnd
  BY <1>54, Outside DEF CloseEnd, At, preview, queues
<1>55. ASSUME NEW t \in Threads, FailLook(t) PROVE WayShortens
  BY <1>55, Outside DEF FailLook, preview, queues
<1>56. ASSUME NEW t \in Threads, FailReturn(t) PROVE WayShortens
  BY <1>56, Outside DEF FailReturn, preview, queues
<1>57. ASSUME NEW t \in Threads, FailStill(t) PROVE WayShortens
  BY <1>57, Outside DEF FailStill, preview, queues
<1> QED
  BY <1>1, <1>2, <1>3, <1>4, <1>5, <1>6, <1>7, <1>8, <1>9, <1>10, <1>11, <1>12, <1>13,
     <1>14, <1>15, <1>16, <1>17, <1>18, <1>19, <1>20, <1>21, <1>22, <1>23, <1>24, <1>25,
     <1>26, <1>27, <1>28, <1>29, <1>30, <1>31, <1>32, <1>33, <1>34, <1>35, <1>36, <1>37,
     <1>38, <1>39, <1>40, <1>41, <1>42, <1>43, <1>44, <1>45, <1>46, <1>47, <1>48, <1>49,
     <1>50, <1>51, <1>52, <1>53, <1>54, <1>55, <1>56, <1>57
     DEF SessionStep

LEMMA WorkerTakesPending ==
  ASSUME Types, ControlInv, SessionStep
  PROVE  WorkerTakes
<1> USE DEF Types, ControlTypes, PcType, JobType, Threads, WorkerTakes
<1>1. CASE \/ RejectRawRequest \/ UpdateBackendParameters \/ PopTask
           \/ StartPreviewCheck \/ StartPreview \/ TakePictureFence \/ TakePicture
           \/ PictureStart \/ FinishWorker \/ RestartAfterFailure \/ NextNativeFrame
           \/ DrainPreview \/ SourceFence \/ BlitRequeue \/ PictureThread
           \/ PictureTaken \/ DataCallback \/ HandleJpegCheck \/ SendJpeg
           \/ RestartCheck \/ RestartPreview \/ Flush \/ Close \/ CloseJoin
           \/ CloseFlush \/ FlushLock \/ CancelPicture \/ PictureCancelled
           \/ FlushStopPreview \/ FlushCollect \/ FlushResults \/ FlushFail \/ FlushEnd
           \/ CloseEnd \/ Stutter
  <2>1. UNCHANGED <<job>>
    BY <1>1
       DEF RejectRawRequest, control, UpdateBackendParameters, PopTask,
          StartPreviewCheck, StartPreview, TakePictureFence, TakePicture, PictureStart,
          FinishWorker, RestartAfterFailure, NextNativeFrame, DrainPreview, SourceFence,
          BlitRequeue, PictureThread, PictureTaken, DataCallback, HandleJpegCheck,
          SendJpeg, RestartCheck, RestartPreview, Flush, BeginFlush, Close, CloseJoin,
          CloseFlush, FlushLock, CancelPicture, PictureCancelled, FlushStopPreview,
          FlushCollect, FlushResults, FlushFail, FlushEnd, CloseEnd, Stutter, vars
  <2> QED
    BY <2>1
<1>2. CASE AcceptRequest
  BY <1>2 DEF AcceptRequest, GotoWith
<1>3. CASE Reserve
  BY <1>3 DEF Reserve, GotoWith
<1>4. CASE Enqueue
  BY <1>4 DEF Enqueue, GotoWith, NeedsOrderedPreviewCapture
<1>5. CASE PostRequest
  BY <1>5 DEF PostRequest, GotoWith, NeedsOrderedPreviewCapture
<1>6. CASE TakePictureCheck
  BY <1>6 DEF TakePictureCheck, GotoWith, frame
<1>7. CASE TakePictureFinished
  BY <1>7 DEF TakePictureFinished, GotoWith
<1>8. CASE TakePictureClear
  BY <1>8 DEF TakePictureClear, GotoWith
<1>9. CASE DequeuePreview
  BY <1>9 DEF DequeuePreview, GotoWith
<1>10. CASE SourceFenceTimeout
  BY <1>10 DEF SourceFenceTimeout, GotoWith
<1>11. CASE DequeueRecheck
  BY <1>11 DEF DequeueRecheck, GotoWith
<1>12. CASE CopyPreview
  BY <1>12 DEF CopyPreview, GotoWith
<1>13. CASE BlitPop
  BY <1>13 DEF BlitPop, GotoWith
<1>14. CASE BlitComplete
  BY <1>14 DEF BlitComplete, GotoWith
<1>15. CASE ResultPop
  BY <1>15 DEF ResultPop, GotoWith
<1>16. CASE Deliver
  BY <1>16 DEF Deliver, GotoWith
<1>17. CASE ScheduleJpeg
  BY <1>17 DEF ScheduleJpeg, GotoWith
<1>18. CASE PostTakePicture
  BY <1>18 DEF PostTakePicture, GotoWith
<1>19. CASE HandleJpeg
  BY <1>19 DEF HandleJpeg, GotoWith
<1>20. CASE FinishCallback
  BY <1>20 DEF FinishCallback, GotoWith
<1>21. CASE FlushDrainJpeg
  BY <1>21 DEF FlushDrainJpeg, GotoWith
<1>22. CASE FlushResultIdle
  BY <1>22 DEF FlushResultIdle, GotoWith
<1>23. ASSUME NEW t \in Threads, FailLook(t) PROVE WorkerTakes
  BY <1>23 DEF FailLook
<1>24. ASSUME NEW t \in Threads, FailReturn(t) PROVE WorkerTakes
  BY <1>24 DEF FailReturn
<1>25. ASSUME NEW t \in Threads, FailStill(t) PROVE WorkerTakes
  BY <1>25 DEF FailStill
<1> QED
  BY <1>1, <1>2, <1>3, <1>4, <1>5, <1>6, <1>7, <1>8, <1>9, <1>10, <1>11, <1>12, <1>13,
     <1>14, <1>15, <1>16, <1>17, <1>18, <1>19, <1>20, <1>21, <1>22, <1>23, <1>24, <1>25
     DEF SessionStep

LEMMA EarlyPlaces ==
  ASSUME NEW r \in Requests
  PROVE  /\ OnTheWay(r) => \E p \in Places \cap {"asked", "queued", "dequeued", "recording", "recorded",
                                                  "completed", "delivered"} :
              Place(p, r) /\ (p = "delivered" => pc["result"] = "deliver")
         /\ OnTheWay(r)' => \E p \in Places \cap {"asked", "queued", "dequeued", "recording", "recorded",
                                                   "completed", "delivered"} :
              Place(p, r)' /\ (p = "delivered" => pc'["result"] = "deliver")
<1>1. {"asked", "queued", "dequeued", "recording", "recorded", "completed", "delivered"} \subseteq Places
  BY DEF Places, Stages
<1>2. ASSUME OnTheWay(r)
      PROVE  \E p \in {"asked", "queued", "dequeued", "recording", "recorded", "completed", "delivered"} :
               Place(p, r) /\ (p = "delivered" => pc["result"] = "deliver")
  BY <1>2 DEF OnTheWay, Place
<1>3. ASSUME OnTheWay(r)'
      PROVE  \E p \in {"asked", "queued", "dequeued", "recording", "recorded", "completed", "delivered"} :
               Place(p, r)' /\ (p = "delivered" => pc'["result"] = "deliver")
  BY <1>3 DEF OnTheWay, Place
<1> QED
  BY <1>1, <1>2, <1>3

(* Whoever holds a frame at one of these places holds one that is not on its  *)
(* way.                                                                     *)
LEMMA NotOnTheWay ==
  ASSUME Types, OnePlace, NEW r \in Requests, NEW p \in Failers \cup {"pending", "pictured", "delivered"},
         Place(p, r), p = "delivered" => pc["result"] # "deliver"
  PROVE  ~OnTheWay(r)
<1>1. p \in Places
  BY DEF Places, Stages, Failers, Threads
<1>2. p \notin {"asked", "queued", "dequeued", "recording", "recorded", "completed"}
  BY DEF Failers, Threads
<1> QED
  BY <1>1, <1>2, EarlyPlaces DEF OnePlace

LEMMA WorkerIsLateKept ==
  ASSUME Types, ControlInv, PlacedAreAccepted, WorkerAccepted, JpegOnly, OnePlace, WorkerIsLate,
         SessionStep
  PROVE  WorkerIsLate'
<1> SUFFICES ASSUME job'["worker"] # None PROVE WorkerIsLate'
  BY DEF WorkerIsLate
<1> USE DEF Types
<1>1. ASSUME NEW r \in Requests, r < next, ~OnTheWay(r), owned[r] \subseteq {"jpeg"}
      PROVE  ~OnTheWay(r)' /\ owned'[r] \subseteq {"jpeg"}
  <2>1. r # next
    BY <1>1, Asking, RequestsAreNat
  <2> QED
    BY <1>1, <2>1, WayGetsShorter, OwnedShrinks DEF WayShortens, OwnedShrink
<1>2. CASE job'["worker"] = job["worker"]
  <2>1. job["worker"] \in Requests /\ job["worker"] < next
    BY <1>2 DEF ControlTypes, JobType, Threads, WorkerAccepted
  <2> QED
    BY <1>1, <1>2, <2>1, Outside DEF WorkerIsLate
<1>3. CASE job'["worker"] = pendingJpeg
  <2>1. pendingJpeg \in Requests /\ pendingJpeg < next
    BY <1>3, AcceptedPlaces DEF SlotTypes
  <2>2. ~OnTheWay(pendingJpeg)
    <3>1. Place("pending", pendingJpeg)
      BY DEF Place
    <3> QED
      BY <2>1, <3>1, NotOnTheWay
  <2>3. owned[pendingJpeg] \subseteq {"jpeg"}
    BY <2>1 DEF JpegOnly, JpegTurn
  <2> QED
    BY <1>1, <1>3, <2>1, <2>2, <2>3 DEF WorkerIsLate
<1> QED
  BY <1>2, <1>3, WorkerTakesPending DEF WorkerTakes

LEMMA LateAnsweredKept ==
  ASSUME Types, ControlInv, LateAnswered, SessionStep
  PROVE  LateAnswered'
<1> USE DEF Types, ControlTypes, PcType, JobType, SlotTypes, Threads, Late, LateAnswered
<1>1. CASE \/ RejectRawRequest \/ FlushFail \/ Stutter
  <2>1. UNCHANGED <<pc, job, pendingJpeg, metadataReturned>>
    BY <1>1 DEF RejectRawRequest, At, control, still, FlushFail, frame, Stutter, vars
  <2> QED
    BY <2>1
<1>2. CASE AcceptRequest
  BY <1>2, Outside DEF AcceptRequest, At, GotoWith, still, Goto
<1>3. CASE UpdateBackendParameters
  BY <1>3, Outside DEF UpdateBackendParameters, At, Goto, frame, still
<1>4. CASE Reserve
  BY <1>4, Outside DEF Reserve, At, Goto, GotoWith, frame
<1>5. CASE Enqueue
  <2>1. job["framework"] \in Requests
    BY <1>5, JobsAreRequests DEF Enqueue, At
  <2>2. /\ pc'["picture"] = pc["picture"] /\ pc'["result"] = pc["result"]
        /\ \A u \in Threads \ {"framework"} : job'[u] = job[u]
        /\ \/ UNCHANGED pendingJpeg /\ metadataReturned \subseteq metadataReturned'
           \/ pendingJpeg' = job["framework"] /\ metadataReturned' = metadataReturned \cup {job["framework"]}
    BY <1>5 DEF Enqueue, Goto, GotoWith
  <2> QED
    BY <2>1, <2>2
<1>6. CASE PostRequest
  BY <1>6, Outside
     DEF PostRequest, At, GotoWith, NeedsOrderedPreviewCapture, frame, still, Goto
<1>7. CASE PopTask
  <2>1. pc' \in {[pc EXCEPT !["worker"] = w] : w \in {"exited", "idle", "start", "take"}}
    BY <1>7, TaskHeads DEF PopTask, Goto
  <2> QED
    BY <1>7, <2>1, Outside
       DEF PopTask, At, still, frame
<1>8. CASE StartPreviewCheck
  BY <1>8, Outside DEF StartPreviewCheck, At, Goto, frame
<1>9. CASE StartPreview
  <2>1. CASE pc' = [pc EXCEPT !["worker"] = "idle"] /\ UNCHANGED <<preview_enabled, node0>>
    BY <1>9, <2>1, Outside
       DEF StartPreview, At, still, frame
  <2>2. CASE pc' = [pc EXCEPT !["worker"] = "idle", !["capture"] = "loop"]
             /\ preview_enabled' = TRUE /\ node0' = "preview" /\ ~preview_enabled
    BY <1>9, <2>2, Outside
       DEF StartPreview, At, still, frame
  <2> QED
    BY <1>9, <2>1, <2>2 DEF StartPreview, Goto
<1>10. CASE TakePictureCheck
  BY <1>10, Outside DEF TakePictureCheck, At, GotoWith, frame, Goto
<1>11. CASE TakePictureFence
  BY <1>11, Outside DEF TakePictureFence, At, Goto, frame, still
<1>12. CASE TakePicture
  BY <1>12, Outside DEF TakePicture, At, Goto, frame, still
<1>13. CASE PictureStart
  BY <1>13, Outside DEF PictureStart, At, Goto, frame, still
<1>14. CASE FinishWorker
  BY <1>14, Outside DEF FinishWorker, At, Goto, frame, still
<1>15. CASE TakePictureFinished
  BY <1>15, Outside DEF TakePictureFinished, At, Goto, GotoWith, frame, still
<1>16. CASE TakePictureClear
  BY <1>16, Outside DEF TakePictureClear, At, GotoWith, frame, Goto
<1>17. CASE RestartAfterFailure
  BY <1>17, Outside DEF RestartAfterFailure, At, Goto, frame, still
<1>18. CASE NextNativeFrame
  BY <1>18, Outside DEF NextNativeFrame, At, Goto, frame, still
<1>19. CASE DrainPreview
  BY <1>19, Outside DEF DrainPreview, At, Goto, frame, still
<1>20. CASE DequeuePreview
  BY <1>20, Outside DEF DequeuePreview, At, GotoWith, frame, still, Goto
<1>21. CASE SourceFence
  BY <1>21, Outside DEF SourceFence, At, Goto, frame, still
<1>22. CASE SourceFenceTimeout
  BY <1>22, Outside DEF SourceFenceTimeout, At, GotoWith, frame, Goto
<1>23. CASE DequeueRecheck
  BY <1>23, Outside DEF DequeueRecheck, At, Goto, GotoWith, frame, still
<1>24. CASE CopyPreview
  BY <1>24, Outside DEF CopyPreview, At, GotoWith, VideoBlitRoom, frame, still, Goto
<1>25. CASE BlitPop
  BY <1>25, Outside DEF BlitPop, At, GotoWith, frame, still, Goto
<1>26. CASE BlitComplete
  BY <1>26, Outside DEF BlitComplete, At, GotoWith, frame, still, Goto
<1>27. CASE BlitRequeue
  BY <1>27, Outside DEF BlitRequeue, At, Goto, frame, still
<1>28. CASE ResultPop
  BY <1>28, Outside DEF ResultPop, At, GotoWith, frame, still, Goto
<1>29. CASE Deliver
  BY <1>29, Outside DEF Deliver, At, Goto, GotoWith, still
<1>30. CASE ScheduleJpeg
  BY <1>30, Outside DEF ScheduleJpeg, At, Goto, GotoWith, frame
<1>31. CASE PostTakePicture
  BY <1>31, Outside DEF PostTakePicture, At, GotoWith, frame, still, Goto
<1>32. CASE PictureThread
  BY <1>32, Outside DEF PictureThread, At, Goto, frame, still
<1>33. CASE PictureTaken
  BY <1>33, Outside DEF PictureTaken, At, Goto, frame, still
<1>34. CASE DataCallback
  BY <1>34, Outside DEF DataCallback, At, Goto, frame, still
<1>35. CASE HandleJpeg
  BY <1>35, Outside DEF HandleJpeg, At, GotoWith, frame, Goto
<1>36. CASE HandleJpegCheck
  BY <1>36, Outside DEF HandleJpegCheck, At, Goto, frame, still
<1>37. CASE SendJpeg
  BY <1>37, Outside DEF SendJpeg, At, Goto, still
<1>38. CASE RestartCheck
  BY <1>38, Outside DEF RestartCheck, At, Goto, frame, still
<1>39. CASE RestartPreview
  BY <1>39, Outside DEF RestartPreview, At, Goto, frame, still
<1>40. CASE FinishCallback
  BY <1>40, Outside DEF FinishCallback, At, GotoWith, frame, still, Goto
<1>41. CASE Flush
  BY <1>41, Outside DEF Flush, At, BeginFlush, Goto, frame
<1>42. CASE Close
  BY <1>42, Outside DEF Close, At, Goto, frame
<1>43. CASE CloseJoin
  BY <1>43, Outside DEF CloseJoin, At, Goto, frame, still
<1>44. CASE CloseFlush
  BY <1>44, Outside DEF CloseFlush, At, BeginFlush, Goto, frame
<1>45. CASE FlushDrainJpeg
  BY <1>45, Outside DEF FlushDrainJpeg, At, GotoWith, frame, Goto
<1>46. CASE FlushLock
  BY <1>46, Outside DEF FlushLock, At, Goto, frame, still
<1>47. CASE CancelPicture
  BY <1>47, Outside DEF CancelPicture, At, frame, still
<1>48. CASE PictureCancelled
  BY <1>48, Outside DEF PictureCancelled, At, Goto, frame, still
<1>49. CASE FlushStopPreview
  BY <1>49, Outside DEF FlushStopPreview, At, Goto, frame, still
<1>50. CASE FlushCollect
  BY <1>50, Outside DEF FlushCollect, At, Goto, frame, still
<1>51. CASE FlushResults
  BY <1>51, Outside DEF FlushResults, At, Goto, frame, still
<1>52. CASE FlushResultIdle
  BY <1>52, Outside DEF FlushResultIdle, At, GotoWith, frame, still, Goto
<1>53. CASE FlushEnd
  BY <1>53, Outside DEF FlushEnd, At, Goto, frame
<1>54. CASE CloseEnd
  BY <1>54, Outside DEF CloseEnd, At, frame, still
<1>55. ASSUME NEW t \in Threads, FailLook(t) PROVE LateAnswered'
  BY <1>55, Outside DEF FailLook, still
<1>56. ASSUME NEW t \in Threads, FailReturn(t) PROVE LateAnswered'
  BY <1>56, Outside DEF FailReturn, still
<1>57. ASSUME NEW t \in Threads, FailStill(t) PROVE LateAnswered'
  BY <1>57, Outside DEF FailStill, frame
<1> QED
  BY <1>1, <1>2, <1>3, <1>4, <1>5, <1>6, <1>7, <1>8, <1>9, <1>10, <1>11, <1>12, <1>13,
     <1>14, <1>15, <1>16, <1>17, <1>18, <1>19, <1>20, <1>21, <1>22, <1>23, <1>24, <1>25,
     <1>26, <1>27, <1>28, <1>29, <1>30, <1>31, <1>32, <1>33, <1>34, <1>35, <1>36, <1>37,
     <1>38, <1>39, <1>40, <1>41, <1>42, <1>43, <1>44, <1>45, <1>46, <1>47, <1>48, <1>49,
     <1>50, <1>51, <1>52, <1>53, <1>54, <1>55, <1>56, <1>57
     DEF SessionStep

LEMMA AnswerSteps ==
  ASSUME Types, ControlInv, PlacedAreAccepted, WorkerAccepted, OnePlace, WorkerIsLate, LateAnswered,
         OnePlace', SessionStep
  PROVE  AnswerStep
<1> USE DEF Types, SessionTypes, AnswerStep, Answers
<1>1. CASE \/ UpdateBackendParameters \/ Reserve \/ PostRequest \/ PopTask
           \/ StartPreviewCheck \/ StartPreview \/ TakePictureCheck \/ TakePictureFence
           \/ TakePicture \/ PictureStart \/ FinishWorker \/ TakePictureFinished
           \/ TakePictureClear \/ RestartAfterFailure \/ NextNativeFrame \/ DrainPreview
           \/ DequeuePreview \/ SourceFence \/ SourceFenceTimeout \/ DequeueRecheck
           \/ CopyPreview \/ BlitPop \/ BlitComplete \/ BlitRequeue \/ ResultPop
           \/ ScheduleJpeg \/ PostTakePicture \/ PictureThread \/ PictureTaken
           \/ DataCallback \/ HandleJpeg \/ HandleJpegCheck \/ RestartCheck
           \/ RestartPreview \/ FinishCallback \/ Flush \/ Close \/ CloseJoin
           \/ CloseFlush \/ FlushDrainJpeg \/ FlushLock \/ CancelPicture
           \/ PictureCancelled \/ FlushStopPreview \/ FlushCollect \/ FlushResults
           \/ FlushResultIdle \/ FlushFail \/ FlushEnd \/ CloseEnd \/ Stutter
  <2>1. UNCHANGED <<metadataReturned, requestErrorNotified, next>>
    BY <1>1
       DEF UpdateBackendParameters, frame, Reserve, PostRequest,
          NeedsOrderedPreviewCapture, PopTask, StartPreviewCheck, StartPreview,
          TakePictureCheck, TakePictureFence, TakePicture, PictureStart, FinishWorker,
          TakePictureFinished, TakePictureClear, RestartAfterFailure, NextNativeFrame,
          DrainPreview, DequeuePreview, SourceFence, SourceFenceTimeout, DequeueRecheck,
          CopyPreview, BlitPop, BlitComplete, BlitRequeue, ResultPop, ScheduleJpeg,
          PostTakePicture, PictureThread, PictureTaken, DataCallback, HandleJpeg,
          HandleJpegCheck, RestartCheck, RestartPreview, FinishCallback, Flush,
          BeginFlush, Close, CloseJoin, CloseFlush, FlushDrainJpeg, FlushLock,
          CancelPicture, PictureCancelled, FlushStopPreview, FlushCollect, FlushResults,
          FlushResultIdle, FlushFail, FlushEnd, CloseEnd, Stutter, vars
  <2> QED
    BY <2>1
<1>2. CASE RejectRawRequest
  <2>1. PICK r \in Requests : r = next
    BY <1>2, Asking DEF RejectRawRequest
  <2>2. UNCHANGED <<pc, job, previewQueue, videoBlitQueue, resultQueue>>
    BY <1>2 DEF RejectRawRequest, control, preview, queues
  <2>3. ~OnTheWay(r)
    BY <2>1, Asking, EarlyPlaces DEF PlacedAreAccepted
  <2>4. ~OnTheWay(r)'
    BY <2>2, <2>3 DEF OnTheWay
  <2> QED
    BY <1>2, <2>1, <2>4 DEF RejectRawRequest
<1>3. CASE AcceptRequest
  BY <1>3 DEF AcceptRequest
<1>4. CASE Enqueue
  <2>1. PICK r \in Requests : /\ r = job["framework"] /\ r < next
                             /\ pc["framework"] = "enqueue" /\ UNCHANGED <<requestErrorNotified, next>>
    BY <1>4, JobsAreRequests, AcceptedPlaces DEF Enqueue, At
  <2>2. CASE NeedsOrderedPreviewCapture(r)
    BY <1>4, <2>1, <2>2 DEF Enqueue
  <2>3. CASE ~NeedsOrderedPreviewCapture(r)
    <3>1. metadataReturned' = metadataReturned \cup {r}
      BY <1>4, <2>1, <2>3 DEF Enqueue
    <3>2. OnTheWay(r)
      BY <2>1 DEF OnTheWay
    <3>3. Place("framework", r)' \/ Place("pending", r)'
      BY <1>4, <2>1, <2>3, EnqueueMoves DEF Moved
    <3>4. ~OnTheWay(r)'
      <4>1. {"framework", "pending"} \subseteq Places
        BY DEF Places, Stages, Failers, Threads
      <4> QED
        BY <2>1, <3>3, <4>1, EarlyPlaces DEF OnePlace
    <3> QED
      BY <2>1, <3>1, <3>2, <3>4
  <2> QED
    BY <2>2, <2>3
<1>5. CASE Deliver
  <2>1. PICK r \in Requests : /\ r = job["result"] /\ r < next
                             /\ pc["result"] = "deliver" /\ UNCHANGED <<requestErrorNotified, next>>
    BY <1>5, JobsAreRequests, AcceptedPlaces DEF Deliver, At
  <2>2. metadataReturned' = metadataReturned \cup {r} /\ pc'["result"] # "deliver"
    BY <1>5, <2>1 DEF Deliver, Goto, GotoWith, ControlTypes, PcType, Threads
  <2>3. OnTheWay(r)
    BY <2>1 DEF OnTheWay
  <2>4. ~OnTheWay(r)'
    <3>1. \A p \in Places : Place(p, r)' => Place(p, r)
      BY <1>5, <2>1, DeliverMoves DEF Dropped
    <3>2. "delivered" \in Places /\ Place("delivered", r)
      BY <2>1 DEF Places, Stages, Place
    <3> QED
      BY <2>1, <2>2, <3>1, <3>2, EarlyPlaces DEF OnePlace
  <2> QED
    BY <2>1, <2>2, <2>3, <2>4
<1>6. CASE SendJpeg
  <2>1. job["picture"] \in Requests
    BY <1>6, JobsAreRequests DEF SendJpeg, At
  <2>2. job["picture"] \in metadataReturned
    BY <1>6, <2>1 DEF SendJpeg, At, LateAnswered, Late
  <2> QED
    BY <1>6, <2>2 DEF SendJpeg
<1>7. ASSUME NEW t \in Threads, FailLook(t) PROVE AnswerStep
  <2> DEFINE r == failing[t].frame
  <2>1. r \in Requests /\ r < next /\ failing[t] # None
    BY <1>7, AcceptedPlaces DEF FailLook
  <2>2. ~OnTheWay(r)
    <3>1. CASE t = "worker"
      BY <2>1, <3>1, Outside DEF ControlInv, WorkerOK, WorkerIsLate
    <3>2. CASE t # "worker"
      <4>1. t \in Failers /\ Place(t, r)
        BY <2>1, <3>2 DEF Failers, Place
      <4> QED
        BY <2>1, <4>1, NotOnTheWay DEF Failers, Threads
    <3> QED
      BY <3>1, <3>2
  <2>3. CASE r \in metadataReturned
    BY <1>7, <2>3 DEF FailLook
  <2>4. CASE r \notin metadataReturned
    BY <1>7, <2>1, <2>2, <2>4 DEF FailLook
  <2> QED
    BY <2>3, <2>4
<1>8. ASSUME NEW t \in Threads, FailReturn(t) PROVE AnswerStep
  BY <1>8 DEF FailReturn
<1>9. ASSUME NEW t \in Threads, FailStill(t) PROVE AnswerStep
  BY <1>9 DEF FailStill, frame
<1> QED
  BY <1>1, <1>2, <1>3, <1>4, <1>5, <1>6, <1>7, <1>8, <1>9 DEF SessionStep

LEMMA AnswersKept ==
  ASSUME Types, ControlInv, PlacedAreAccepted, WorkerAccepted, OnePlace, WorkerIsLate, LateAnswered,
         OnePlace', Unanswered, OneAnswer, SessionStep
  PROVE  Unanswered' /\ OneAnswer'
<1>1. AnswerStep /\ WayShortens
  BY AnswerSteps, WayGetsShorter
<1>2. next \in Nat /\ \A r \in Requests : r \in Nat
  BY Asking, RequestsAreNat DEF Types
<1> USE DEF AnswerStep, Answers, Unanswered, OneAnswer, WayShortens
<1>3. CASE Answers({}, {}) /\ next' \in {next, next + 1}
  BY <1>1, <1>2, <1>3
<1>4. ASSUME NEW r \in Requests, r = next, ~OnTheWay(r)', Answers({}, {r}), next' = next + 1
      PROVE  Unanswered' /\ OneAnswer'
  BY <1>1, <1>2, <1>4
<1>5. ASSUME NEW r \in Requests, r < next, OnTheWay(r), ~OnTheWay(r)', Answers({r}, {}), UNCHANGED next
      PROVE  Unanswered' /\ OneAnswer'
  BY <1>1, <1>2, <1>5
<1>6. ASSUME NEW r \in Requests, r < next, ~OnTheWay(r), r \notin metadataReturned,
             Answers({}, {r}), UNCHANGED next
      PROVE  Unanswered' /\ OneAnswer'
  BY <1>1, <1>2, <1>6
<1> QED
  BY <1>1, <1>3, <1>4, <1>5, <1>6

-----------------------------------------------------------------------------
(* The buffers of each request, of the kinds K.                              *)

(* A buffer is in the device or has been returned, once; a failFrame() that   *)
(* is about to return a frame's buffers knows those the frame has.            *)
Exact(K) ==
  /\ \A r \in Requests, k \in K :
       returned[r][k] = IF k \in Asked(r) /\ k \notin owned[r] THEN 1 ELSE 0
  /\ \A t \in Threads : failing[t] # None /\ failing[t].step = "return" =>
       failing[t].has \cap K = owned[failing[t].frame] \cap K
(* The JPEG buffer of a frame that the worker fails is with no other thread,   *)
(* and the buffer to be sent is there.  Other buffers need no such thing.      *)
StillSettled(K) == "jpeg" \in K =>
  /\ failing["worker"] # None =>
       \A p \in Failers \cup {"pictured"} : ~Place(p, job["worker"])
  /\ pc["picture"] = "send" => "jpeg" \in owned[job["picture"]]

(* The steps that give buffers back or take them in.                         *)
BufferStep ==
  \/ UNCHANGED <<owned, returned, next>>
  \/ RejectRawRequest \/ AcceptRequest \/ Deliver \/ SendJpeg
  \/ \E t \in Threads : FailReturn(t)

LEMMA BufferSteps ==
  ASSUME SessionStep
  PROVE  BufferStep
<1> USE DEF BufferStep
<1>1. CASE \/ UpdateBackendParameters \/ Reserve \/ Enqueue \/ PostRequest \/ PopTask
           \/ StartPreviewCheck \/ StartPreview \/ TakePictureCheck \/ TakePictureFence
           \/ TakePicture \/ PictureStart \/ FinishWorker \/ TakePictureFinished
           \/ TakePictureClear \/ RestartAfterFailure \/ NextNativeFrame \/ DrainPreview
           \/ DequeuePreview \/ SourceFence \/ SourceFenceTimeout \/ DequeueRecheck
           \/ CopyPreview \/ BlitPop \/ BlitComplete \/ BlitRequeue \/ ResultPop
           \/ ScheduleJpeg \/ PostTakePicture \/ PictureThread \/ PictureTaken
           \/ DataCallback \/ HandleJpeg \/ HandleJpegCheck \/ RestartCheck
           \/ RestartPreview \/ FinishCallback \/ Flush \/ Close \/ CloseJoin
           \/ CloseFlush \/ FlushDrainJpeg \/ FlushLock \/ CancelPicture
           \/ PictureCancelled \/ FlushStopPreview \/ FlushCollect \/ FlushResults
           \/ FlushResultIdle \/ FlushFail \/ FlushEnd \/ CloseEnd \/ Stutter
  <2>1. UNCHANGED <<owned, returned, next>>
    BY <1>1
       DEF UpdateBackendParameters, frame, seen, Reserve, Enqueue,
          NeedsOrderedPreviewCapture, PostRequest, PopTask, StartPreviewCheck,
          StartPreview, TakePictureCheck, TakePictureFence, TakePicture, PictureStart,
          FinishWorker, TakePictureFinished, TakePictureClear, RestartAfterFailure,
          NextNativeFrame, DrainPreview, DequeuePreview, SourceFence,
          SourceFenceTimeout, DequeueRecheck, CopyPreview, BlitPop, BlitComplete,
          BlitRequeue, ResultPop, ScheduleJpeg, PostTakePicture, PictureThread,
          PictureTaken, DataCallback, HandleJpeg, HandleJpegCheck, RestartCheck,
          RestartPreview, FinishCallback, Flush, BeginFlush, Close, CloseJoin,
          CloseFlush, FlushDrainJpeg, FlushLock, CancelPicture, PictureCancelled,
          FlushStopPreview, FlushCollect, FlushResults, FlushResultIdle, FlushFail,
          FlushEnd, CloseEnd, Stutter, vars
  <2> QED
    BY <2>1
<1>2. CASE RejectRawRequest
  BY <1>2
<1>3. CASE AcceptRequest
  BY <1>3
<1>4. CASE Deliver
  BY <1>4
<1>5. CASE SendJpeg
  BY <1>5
<1>6. ASSUME NEW t \in Threads, FailLook(t) PROVE BufferStep
  BY <1>6 DEF FailLook, seen
<1>7. ASSUME NEW t \in Threads, FailReturn(t) PROVE BufferStep
  BY <1>7
<1>8. ASSUME NEW t \in Threads, FailStill(t) PROVE BufferStep
  BY <1>8 DEF FailStill, frame, seen
<1> QED
  BY <1>1, <1>2, <1>3, <1>4, <1>5, <1>6, <1>7, <1>8 DEF SessionStep

(* The frame whose buffers a step gives back: those of the kinds K were all   *)
(* there, and no other thread is about to return them.                       *)
Gives(K, r, ks) ==
  /\ r < next /\ UNCHANGED next /\ owned' = [owned EXCEPT ![r] = @ \ ks] /\ GiveBack(r, ks)
  /\ ks \cap K \subseteq owned[r]
  /\ \A u \in Threads :
       failing[u] # None /\ failing[u].frame = r /\ failing[u].step = "return" /\ ks \cap K # {}
       => failing'[u] # failing[u]

LEMMA DeliverGives ==
  ASSUME Types, ControlInv, PlacedAreAccepted, WorkerAccepted, OnePlace, WorkerIsLate,
         NEW K \in SUBSET Kinds, NEW r \in Requests, r = job["result"], Deliver
  PROVE  Gives(K, r, owned[r] \ {"jpeg"})
<1>1. pc["result"] = "deliver" /\ r < next
  BY AcceptedPlaces DEF Deliver, At
<1>2. owned \in [Requests -> SUBSET Kinds]
  BY DEF Types, FrameTypes, OwnedType
<1>3. owned[r] \ (owned[r] \ {"jpeg"}) = owned[r] \ (Kinds \ {"jpeg"})
  BY <1>2
<1>4. owned' = [owned EXCEPT ![r] = owned[r] \ (owned[r] \ {"jpeg"})]
  BY <1>3 DEF Deliver, Reset
<1>5. GiveBack(r, owned[r] \ {"jpeg"}) /\ UNCHANGED next
  BY DEF Deliver
<1>6. \A u \in Threads : ~(failing[u] # None /\ failing[u].frame = r)
  <2> SUFFICES ASSUME NEW u \in Threads, failing[u] # None, failing[u].frame = r PROVE FALSE
    OBVIOUS
  <2>1. OnTheWay(r)
    BY <1>1 DEF OnTheWay
  <2>2. CASE u = "worker"
    BY <2>1, <2>2, Outside DEF ControlInv, WorkerOK, WorkerIsLate
  <2>3. CASE u # "worker"
    <3>1. u \in Failers /\ Place(u, r)
      BY <2>3 DEF Failers, Place
    <3> QED
      BY <2>1, <3>1, NotOnTheWay DEF Failers, Threads
  <2> QED
    BY <2>2, <2>3
<1> QED
  BY <1>1, <1>4, <1>5, <1>6 DEF Gives

LEMMA FailReturnGives ==
  ASSUME Types, ControlInv, PlacedAreAccepted, WorkerAccepted, OnePlace, WorkerIsLate,
         NEW K \in SUBSET Kinds, Exact(K), StillSettled(K), NEW t \in Threads, FailReturn(t)
  PROVE  Gives(K, failing[t].frame, failing[t].has)
<1> DEFINE r == failing[t].frame  ks == failing[t].has
<1>1. failing[t] # None /\ failing[t].step = "return" /\ r \in Requests /\ r < next
  BY AcceptedPlaces DEF FailReturn
<1>2. owned' = [owned EXCEPT ![r] = @ \ ks] /\ GiveBack(r, ks) /\ UNCHANGED next
  BY DEF FailReturn, Reset
<1>3. ks \cap K = owned[r] \cap K
  BY <1>1 DEF Exact
<1>4. ASSUME NEW u \in Threads, failing[u] # None, failing[u].frame = r,
             failing[u].step = "return", ks \cap K # {}
      PROVE  failing'[u] # failing[u]
  <2>1. CASE u = t
    <3>1. failing'[t] \in {None, [failing[t] EXCEPT !.step = "still"]}
      BY DEF FailReturn, Types, ControlTypes, FailingType
    <3>2. failing[t] \in Failures
      BY <1>1 DEF Types, ControlTypes, FailingType
    <3>3. [failing[t] EXCEPT !.step = "still"].step = "still"
      BY <3>2 DEF Failures
    <3> QED
      BY <1>1, <2>1, <3>1, <3>3
  <2>2. CASE u # t /\ u # "worker" /\ t # "worker"
    <3>1. u \in Places /\ t \in Places /\ Place(u, r) /\ Place(t, r)
      BY <1>1, <1>4, <2>2 DEF Places, Failers, Place
    <3> QED
      BY <1>1, <2>2, <3>1 DEF OnePlace
  <2>3. CASE u # t /\ (u = "worker" \/ t = "worker")
    <3>1. failing["worker"] # None /\ r = job["worker"] /\ r # None
      BY <1>1, <1>4, <2>3, Outside DEF ControlInv, WorkerOK
    <3>2. owned[r] \subseteq {"jpeg"}
      BY <3>1 DEF WorkerIsLate
    <3>3. "jpeg" \in K
      BY <1>3, <1>4, <3>2
    <3>4. PICK w \in {u, t} : w # "worker"
      BY <2>3
    <3>5. w \in Failers /\ Place(w, r)
      BY <1>1, <1>4, <3>4 DEF Failers, Place
    <3> QED
      BY <3>1, <3>3, <3>5 DEF StillSettled
  <2> QED
    BY <2>1, <2>2, <2>3
<1> QED
  BY <1>1, <1>2, <1>3, <1>4 DEF Gives

LEMMA SendJpegGives ==
  ASSUME Types, ControlInv, PlacedAreAccepted, WorkerAccepted, OnePlace,
         NEW K \in SUBSET Kinds, StillSettled(K), NEW r \in Requests, r = job["picture"],
         Current(generation[r]), SendJpeg
  PROVE  Gives(K, r, {"jpeg"})
<1>1. pc["picture"] = "send" /\ Place("pictured", r)
  BY DEF SendJpeg, At, Place
<1>2. r < next
  BY <1>1 DEF PlacedAreAccepted, Places, Stages
<1>3. owned' = [owned EXCEPT ![r] = @ \ {"jpeg"}] /\ GiveBack(r, {"jpeg"}) /\ UNCHANGED next
  BY DEF SendJpeg, Reset
<1>4. "jpeg" \in K => "jpeg" \in owned[r]
  BY <1>1 DEF StillSettled
<1>5. ASSUME NEW u \in Threads, failing[u] # None, failing[u].frame = r, {"jpeg"} \cap K # {}
      PROVE  FALSE
  <2>1. CASE u = "worker"
    <3>1. r = job["worker"]
      BY <1>5, <2>1 DEF ControlInv, WorkerOK
    <3> QED
      BY <1>1, <1>5, <2>1, <3>1 DEF StillSettled
  <2>2. CASE u # "worker"
    <3>1. u \in Places /\ Place(u, r) /\ "pictured" \in Places /\ u # "pictured"
      BY <1>5, <2>2 DEF Places, Stages, Failers, Place, Threads
    <3> QED
      BY <1>1, <3>1 DEF OnePlace
  <2> QED
    BY <2>1, <2>2
<1> QED
  BY <1>2, <1>3, <1>4, <1>5 DEF Gives

LEMMA LookedHas ==
  ASSUME Types, NEW t \in Threads, FailLook(t), NEW K
  PROVE  failing'[t].has \cap K = owned'[failing'[t].frame] \cap K
<1>1. failing[t] \in Failures /\ UNCHANGED owned
  BY DEF FailLook, Types, ControlTypes, FailingType
<1>2. failing'[t] = [failing[t] EXCEPT !.step = "return", !.has = owned[failing[t].frame]]
  BY DEF FailLook, Types, ControlTypes, FailingType
<1>3. failing'[t] = [frame |-> failing[t].frame, step |-> "return", has |-> owned[failing[t].frame]]
  BY <1>1, <1>2 DEF Failures
<1> QED
  BY <1>1, <1>3

LEMMA ReturnedStep ==
  ASSUME Types, NEW t \in Threads, failing'[t] # None, failing'[t].step = "return"
  PROVE  ~FailReturn(t) /\ ~FailStill(t)
<1>1. ASSUME FailReturn(t) PROVE FALSE
  <2>1. failing[t] \in Failures
    BY <1>1 DEF FailReturn, Types, ControlTypes, FailingType
  <2>2. failing'[t] = [failing[t] EXCEPT !.step = "still"]
    BY <1>1 DEF FailReturn, Types, ControlTypes, FailingType
  <2> QED
    BY <2>1, <2>2 DEF Failures
<1>2. ASSUME FailStill(t) PROVE FALSE
  BY <1>2 DEF FailStill, Types, ControlTypes, FailingType
<1> QED
  BY <1>1, <1>2

LEMMA GivesKeepsExact ==
  ASSUME Types, ControlInv, PlacedAreAccepted, WorkerAccepted, OwnedAsked, FailedEmpty,
         NEW K \in SUBSET Kinds, Exact(K), NEW r \in Requests, NEW ks \in SUBSET Kinds, Gives(K, r, ks),
         SessionStep
  PROVE  Exact(K)'
<1> USE DEF Types, FrameTypes, OwnedType, ReturnedType
<1>1. UNCHANGED <<next, scenario>> /\ r < next /\ ks \cap K \subseteq owned[r]
  BY ScenarioConstant DEF Gives, ScenarioStays
<1>2. Asked(r)' = Asked(r) /\ \A x \in Requests : Asked(x)' = Asked(x)
  BY <1>1 DEF Asked, Outputs
<1>3. /\ \A x \in Requests \ {r} : owned'[x] = owned[x] /\ returned'[x] = returned[x]
      /\ owned'[r] = owned[r] \ ks
      /\ \A k \in Kinds : returned'[r][k] = IF k \in ks THEN returned[r][k] + 1 ELSE returned[r][k]
  BY DEF Gives, GiveBack
<1>4. ASSUME NEW x \in Requests, NEW k \in K
      PROVE  returned'[x][k] = IF k \in Asked(x)' /\ k \notin owned'[x] THEN 1 ELSE 0
  <2>1. CASE x # r
    BY <1>2, <1>3, <2>1 DEF Exact
  <2>2. CASE x = r /\ k \in ks
    <3>1. k \in owned[r] /\ r \in DOMAIN Outputs
      BY <1>1, <2>2, AcceptedAsked
    <3>2. k \in Asked(r)
      BY <1>1, <3>1 DEF Asked, OwnedAsked
    <3>3. returned[r][k] = 0
      BY <3>1 DEF Exact
    <3> QED
      BY <1>2, <1>3, <2>2, <3>2, <3>3
  <2>3. CASE x = r /\ k \notin ks
    BY <1>2, <1>3, <2>3 DEF Exact
  <2> QED
    BY <2>1, <2>2, <2>3
<1>5. ASSUME NEW t \in Threads, failing'[t] # None, failing'[t].step = "return"
      PROVE  failing'[t].has \cap K = owned'[failing'[t].frame] \cap K
  <2>1. CASE failing'[t] = failing[t]
    <3>1. failing[t].frame \in Requests
      BY <1>5, <2>1, AcceptedPlaces
    <3>2. CASE failing[t].frame # r
      BY <1>3, <1>5, <2>1, <3>1, <3>2 DEF Exact
    <3>3. CASE failing[t].frame = r
      <4>1. ks \cap K = {}
        BY <1>5, <2>1, <3>3 DEF Gives
      <4>2. owned'[r] \cap K = owned[r] \cap K
        BY <1>3, <4>1
      <4> QED
        BY <1>5, <2>1, <3>3, <4>2 DEF Exact
    <3> QED
      BY <3>2, <3>3
  <2>2. CASE FailLook(t)
    BY <1>5, <2>2, LookedHas
  <2>3. ~FailReturn(t) /\ ~FailStill(t)
    BY <1>5, ReturnedStep
  <2> QED
    BY <1>5, <2>1, <2>2, <2>3, FailuresProgress DEF FailuresGoOn, FailureGoesOn
<1> QED
  BY <1>4, <1>5 DEF Exact

LEMMA ExactKept ==
  ASSUME Types, ControlInv, PlacedAreAccepted, WorkerAccepted, OnePlace, WorkerIsLate, OwnedAsked,
         FailedEmpty, NEW K \in SUBSET Kinds, Exact(K), StillSettled(K), SessionStep
  PROVE  Exact(K)'
<1>1. scenario' = scenario
  BY ScenarioConstant DEF ScenarioStays
<1>2. ASSUME NEW t \in Threads, failing'[t] # None, failing'[t].step = "return", UNCHANGED owned
      PROVE  failing'[t].has \cap K = owned'[failing'[t].frame] \cap K
  <2>1. CASE failing'[t] = failing[t]
    BY <1>2, <2>1 DEF Exact
  <2>2. CASE FailLook(t)
    BY <2>2, LookedHas
  <2>3. ~FailReturn(t) /\ ~FailStill(t)
    BY <1>2, ReturnedStep
  <2> QED
    BY <1>2, <2>1, <2>2, <2>3, FailuresProgress DEF FailuresGoOn, FailureGoesOn
<1>3. CASE UNCHANGED <<owned, returned, next>>
  <2>1. \A x \in Requests : Asked(x)' = Asked(x)
    BY <1>1, <1>3 DEF Asked, Outputs
  <2> QED
    BY <1>2, <1>3, <2>1 DEF Exact
<1>4. ASSUME RejectRawRequest \/ AcceptRequest PROVE Exact(K)'
  <2>1. PICK r \in Requests : r = next
    BY <1>4, Asking DEF RejectRawRequest, AcceptRequest, Types
  <2>2. /\ r \in DOMAIN Outputs /\ next' = next + 1
        /\ \A x \in Requests : x < next' <=> x < next \/ x = r
    BY <1>4, <2>1, Asking, RequestsAreNat DEF RejectRawRequest, AcceptRequest, Types
  <2>3. Asked(r) = {} /\ Asked(r)' = Outputs[r] /\ owned[r] = {}
    BY <1>1, <2>1, <2>2, Asking DEF Asked, Outputs, OwnedAsked, Types
  <2>4. \A x \in Requests \ {r} : Asked(x)' = Asked(x)
    BY <1>1, <2>2 DEF Asked, Outputs
  <2>5. ASSUME NEW x \in Requests, NEW k \in K
        PROVE  returned'[x][k] = IF k \in Asked(x)' /\ k \notin owned'[x] THEN 1 ELSE 0
    <3>1. CASE RejectRawRequest
      <4>1. UNCHANGED owned /\ GiveBack(r, Outputs[r])
        BY <2>1, <3>1 DEF RejectRawRequest
      <4>2. /\ \A y \in Requests \ {r} : returned'[y] = returned[y]
            /\ returned'[r][k] = IF k \in Outputs[r] THEN returned[r][k] + 1 ELSE returned[r][k]
        BY <4>1 DEF GiveBack, Types, FrameTypes, ReturnedType
      <4> QED
        BY <2>3, <2>4, <4>1, <4>2 DEF Exact
    <3>2. CASE AcceptRequest
      <4>1. UNCHANGED returned /\ owned' = [owned EXCEPT ![r] = Outputs[r]]
        BY <2>1, <3>2 DEF AcceptRequest, seen
      <4>2. owned'[r] = Outputs[r] /\ \A y \in Requests \ {r} : owned'[y] = owned[y]
        BY <4>1 DEF Types, FrameTypes, OwnedType
      <4> QED
        BY <2>3, <2>4, <4>1, <4>2 DEF Exact
    <3> QED
      BY <1>4, <3>1, <3>2
  <2>6. ASSUME NEW t \in Threads, failing'[t] # None, failing'[t].step = "return"
        PROVE  failing'[t].has \cap K = owned'[failing'[t].frame] \cap K
    <3>1. UNCHANGED failing
      BY <1>4 DEF RejectRawRequest, AcceptRequest, control
    <3>2. failing[t].frame \in Requests /\ failing[t].frame < next
      BY <2>6, <3>1, AcceptedPlaces
    <3>3. owned'[failing[t].frame] = owned[failing[t].frame]
      BY <1>4, <2>1, <2>2, <3>2, RequestsAreNat DEF RejectRawRequest, AcceptRequest, Types, FrameTypes, OwnedType
    <3> QED
      BY <2>6, <3>1, <3>3 DEF Exact
  <2> QED
    BY <2>5, <2>6 DEF Exact
<1>5. CASE Deliver
  <2>1. PICK r \in Requests : r = job["result"]
    BY <1>5, JobsAreRequests DEF Deliver, At, Types
  <2>2. owned[r] \ {"jpeg"} \in SUBSET Kinds
    BY DEF Types, FrameTypes, OwnedType
  <2> QED
    BY <1>5, <2>1, <2>2, DeliverGives, GivesKeepsExact
<1>6. CASE SendJpeg
  <2>1. PICK r \in Requests : r = job["picture"]
    BY <1>6, JobsAreRequests DEF SendJpeg, At, Types
  <2>2. CASE Current(generation[r])
    BY <1>6, <2>1, <2>2, SendJpegGives, GivesKeepsExact DEF Kinds
  <2>3. CASE ~Current(generation[r])
    BY <1>3, <1>6, <2>1, <2>3 DEF SendJpeg
  <2> QED
    BY <2>2, <2>3
<1>7. ASSUME NEW t \in Threads, FailReturn(t) PROVE Exact(K)'
  <2>1. failing[t].frame \in Requests /\ failing[t].has \in SUBSET Kinds
    BY <1>7 DEF FailReturn, Types, ControlTypes, FailingType, Failures
  <2> QED
    BY <1>7, <2>1, FailReturnGives, GivesKeepsExact
<1> QED
  BY <1>3, <1>4, <1>5, <1>6, <1>7, BufferSteps DEF BufferStep

-----------------------------------------------------------------------------
(* The answers and the realtime buffers, in one invariant.                    *)
Realtime == {"preview", "video"}
AnswerInv ==
  /\ FramesInv /\ WorkerIsLate /\ LateAnswered /\ Unanswered /\ OneAnswer
  /\ Exact(Realtime)

LEMMA RealtimeSettled == Realtime \in SUBSET Kinds /\ StillSettled(Realtime)
  BY DEF Realtime, Kinds, StillSettled

LEMMA AnswerInit == Init => AnswerInv
<1> SUFFICES ASSUME Init PROVE AnswerInv
  OBVIOUS
<1>1. FramesInv
  BY FramesInit
<1>2. WorkerIsLate /\ LateAnswered /\ Unanswered /\ OneAnswer
  BY Outside DEF Init, WorkerIsLate, LateAnswered, Late, Unanswered, OneAnswer, Threads
<1>3. next = 1 /\ \A r \in Requests : ~(r < next)
  BY Bounds DEF Init, Requests
<1>4. Exact(Realtime)
  BY <1>3, RealtimeSettled DEF Init, Exact, Asked
<1> QED
  BY <1>1, <1>2, <1>4 DEF AnswerInv

LEMMA AnswerNext == AnswerInv /\ [Next]_vars => AnswerInv'
<1> SUFFICES ASSUME AnswerInv, [Next]_vars PROVE AnswerInv'
  OBVIOUS
<1>1. FramesInv' /\ SessionStep
  BY FramesNext, Steps DEF AnswerInv
<1> USE DEF AnswerInv, FramesInv
<1>2. WorkerIsLate'
  BY <1>1, WorkerIsLateKept
<1>3. LateAnswered'
  BY <1>1, LateAnsweredKept
<1>4. Unanswered' /\ OneAnswer'
  BY <1>1, AnswersKept
<1>5. Exact(Realtime)'
  BY <1>1, ExactKept, RealtimeSettled
<1> QED
  BY <1>1, <1>2, <1>3, <1>4, <1>5

LEMMA AnswerAlways == Spec => []AnswerInv
<1> QED
  BY AnswerInit, AnswerNext, PTL DEF Spec

(* Whatever fails and whenever it is flushed or closed, a session answers a   *)
(* request by its metadata or by a request error and never by both, gives a   *)
(* preview or a video buffer back at most once, and still has exactly those   *)
(* it has not given back (sendResults, failFrame, rejectRawRequest).          *)
THEOREM RequestsAnsweredOnce ==
  Spec => [](\A r \in Requests :
               /\ ~(r \in metadataReturned /\ r \in requestErrorNotified)
               /\ \A k \in {"preview", "video"} :
                    returned[r][k] = IF k \in Asked(r) \ owned[r] THEN 1 ELSE 0)
<1>1. AnswerInv => \A r \in Requests :
        /\ ~(r \in metadataReturned /\ r \in requestErrorNotified)
        /\ \A k \in {"preview", "video"} : returned[r][k] = IF k \in Asked(r) \ owned[r] THEN 1 ELSE 0
  BY DEF AnswerInv, OneAnswer, Exact, Realtime
<1> QED
  BY <1>1, AnswerAlways, PTL

-----------------------------------------------------------------------------
(* FrameContract, for the buffers of the kinds K: the others count as never   *)
(* handed over.  Owed(K) is what the framework is owed by its own count,       *)
(* Present(K) what the device still has.                                     *)

Owed(K) == [r \in Requests |-> [k \in Kinds |->
             IF k \in K THEN (IF k \in Asked(r) THEN 1 ELSE 0) - returned[r][k] ELSE 0]]
Present(K) == [r \in Requests |-> [k \in Kinds |-> IF k \in K \cap owned[r] THEN 1 ELSE 0]]
Heard == [r \in Requests |-> (IF r \in metadataReturned THEN {"metadata"} ELSE {})
                             \cup (IF r \in requestErrorNotified THEN {"error"} ELSE {})]

(* The steps of the contract, of what the device has.                        *)
Submitted(K, r) ==
  /\ r = next /\ next' = next + 1 /\ UNCHANGED Heard
  /\ Present(K)' = [Present(K) EXCEPT ![r] = [k \in Kinds |-> IF k \in Outputs[r] \cap K THEN 1 ELSE 0]]
Rejected(K, r) ==
  /\ r = next /\ next' = next + 1 /\ UNCHANGED Present(K)
  /\ Heard' = [Heard EXCEPT ![r] = {"error"}]
HeardOf(r) ==
  \/ UNCHANGED Heard
  \/ Heard[r] = {} /\ \E a \in {"metadata", "error"} : Heard' = [Heard EXCEPT ![r] = {a}]
Resulted(K, r, ks) ==
  /\ r < next /\ UNCHANGED next /\ \A k \in ks : Present(K)[r][k] = 1
  /\ Present(K)' = [Present(K) EXCEPT ![r] = [k \in Kinds |-> IF k \in ks THEN 0 ELSE @[k]]]
  /\ HeardOf(r)
ContractStep(K) ==
  \/ UNCHANGED <<next, Present(K), Heard>>
  \/ \E r \in Requests : Submitted(K, r) \/ Rejected(K, r)
  \/ \E r \in Requests, ks \in SUBSET Kinds : Resulted(K, r, ks)

LEMMA OwedIsPresent ==
  ASSUME NEW K \in SUBSET Kinds
  PROVE  /\ Types /\ OwnedAsked /\ Exact(K) => Owed(K) = Present(K)
         /\ (Types /\ OwnedAsked /\ Exact(K))' => Owed(K)' = Present(K)'
<1>1. ASSUME Types, OwnedAsked, Exact(K) PROVE Owed(K) = Present(K)
  <2>1. ASSUME NEW r \in Requests PROVE owned[r] \subseteq Asked(r)
    BY <1>1, <2>1, AcceptedAsked DEF OwnedAsked, Asked, Types
  <2>2. ASSUME NEW r \in Requests, NEW k \in K
        PROVE  (IF k \in Asked(r) THEN 1 ELSE 0) - returned[r][k] = IF k \in K \cap owned[r] THEN 1 ELSE 0
    BY <1>1, <2>1, <2>2 DEF Exact
  <2> QED
    BY <2>2 DEF Owed, Present
<1>2. ASSUME Types', OwnedAsked', Exact(K)' PROVE Owed(K)' = Present(K)'
  <2>1. ASSUME NEW r \in Requests PROVE owned'[r] \subseteq Asked(r)'
    <3>1. next' \in 1..(Len(Outputs)' + 1) /\ DOMAIN Outputs' = 1..Len(Outputs)'
      <4>1. Outputs' \in Seq((SUBSET Kinds) \ {{}})
        BY <1>2, ScenarioAssumption DEF Types, SessionTypes, Outputs
      <4> QED
        BY <1>2, <4>1, LenProperties DEF Types, SessionTypes
    <3>2. r < next' => r \in DOMAIN Outputs'
      BY <3>1, RequestsAreNat DEF Requests
    <3> QED
      BY <1>2, <2>1, <3>2 DEF OwnedAsked, Asked
  <2>2. ASSUME NEW r \in Requests, NEW k \in K
        PROVE  (IF k \in Asked(r)' THEN 1 ELSE 0) - returned'[r][k] = IF k \in K \cap owned'[r] THEN 1 ELSE 0
    BY <1>2, <2>1, <2>2 DEF Exact
  <2> QED
    BY <2>2 DEF Owed, Present
<1> QED
  BY <1>1, <1>2

LEMMA GivesResults ==
  ASSUME Types, NEW K \in SUBSET Kinds, NEW r \in Requests, NEW ks \in SUBSET Kinds, Gives(K, r, ks),
         HeardOf(r)
  PROVE  ContractStep(K)
<1>1. r < next /\ UNCHANGED next /\ ks \cap K \subseteq owned[r]
  BY DEF Gives
<1>2. owned'[r] = owned[r] \ ks /\ \A x \in Requests \ {r} : owned'[x] = owned[x]
  BY DEF Gives, Types, FrameTypes, OwnedType
<1>3. \A k \in ks \cap K : Present(K)[r][k] = 1
  BY <1>1 DEF Present
<1>4. Present(K)' = [Present(K) EXCEPT ![r] = [k \in Kinds |-> IF k \in ks \cap K THEN 0 ELSE @[k]]]
  BY <1>2 DEF Present
<1>5. Resulted(K, r, ks \cap K)
  BY <1>1, <1>3, <1>4 DEF Resulted
<1> QED
  BY <1>5 DEF ContractStep

LEMMA HeardAnswers ==
  ASSUME NEW r \in Requests, r \notin metadataReturned, r \notin requestErrorNotified
  PROVE  /\ Answers({r}, {}) => Heard[r] = {} /\ Heard' = [Heard EXCEPT ![r] = {"metadata"}]
         /\ Answers({}, {r}) => Heard[r] = {} /\ Heard' = [Heard EXCEPT ![r] = {"error"}]
<1>1. Heard[r] = {}
  BY DEF Heard
<1>2. ASSUME Answers({r}, {}) PROVE Heard' = [Heard EXCEPT ![r] = {"metadata"}]
  BY <1>2 DEF Heard, Answers
<1>3. ASSUME Answers({}, {r}) PROVE Heard' = [Heard EXCEPT ![r] = {"error"}]
  BY <1>3 DEF Heard, Answers
<1> QED
  BY <1>1, <1>2, <1>3

LEMMA SilentResults ==
  ASSUME Types, NEW K \in SUBSET Kinds, Unanswered, AnswerStep, UNCHANGED <<owned, next>>
  PROVE  ContractStep(K)
<1>1. UNCHANGED Present(K)
  BY DEF Present
<1>2. ASSUME NEW r \in Requests, r < next, HeardOf(r) PROVE ContractStep(K)
  <2>1. Resulted(K, r, {})
    BY <1>1, <1>2 DEF Resulted, Present
  <2> QED
    BY <2>1 DEF ContractStep
<1>3. next' # next + 1
  BY Asking DEF Types
<1>4. CASE Answers({}, {})
  BY <1>1, <1>4 DEF Answers, Heard, ContractStep
<1>5. ASSUME NEW r \in Requests, r < next, OnTheWay(r), Answers({r}, {}) PROVE ContractStep(K)
  <2>1. Heard[r] = {} /\ Heard' = [Heard EXCEPT ![r] = {"metadata"}]
    BY <1>5, HeardAnswers DEF Unanswered
  <2> QED
    BY <1>2, <1>5, <2>1 DEF HeardOf
<1>6. ASSUME NEW r \in Requests, r < next, r \notin metadataReturned, Answers({}, {r})
      PROVE  ContractStep(K)
  <2>1. CASE r \in requestErrorNotified
    BY <1>2, <1>6, <2>1 DEF HeardOf, Heard, Answers
  <2>2. CASE r \notin requestErrorNotified
    <3>1. Heard[r] = {} /\ Heard' = [Heard EXCEPT ![r] = {"error"}]
      BY <1>6, <2>2, HeardAnswers
    <3> QED
      BY <1>2, <1>6, <3>1 DEF HeardOf
  <2> QED
    BY <2>1, <2>2
<1> QED
  BY <1>3, <1>4, <1>5, <1>6 DEF AnswerStep

(* Every step of the session is one of the contract.                         *)
LEMMA ContractSteps ==
  ASSUME Types, ControlInv, PlacedAreAccepted, WorkerAccepted, OnePlace, WorkerIsLate, LateAnswered,
         OnePlace', Unanswered, NEW K \in SUBSET Kinds, Exact(K), StillSettled(K), SessionStep
  PROVE  ContractStep(K)
<1>1. CASE UNCHANGED <<owned, returned, next>>
  BY <1>1, AnswerSteps, SilentResults
<1>2. CASE RejectRawRequest
  <2>1. PICK r \in Requests : r = next
    BY <1>2, Asking DEF RejectRawRequest, Types
  <2>2. r \notin metadataReturned /\ r \notin requestErrorNotified
    BY <2>1, Asking DEF Unanswered, Types
  <2>3. UNCHANGED owned /\ next' = next + 1 /\ Answers({}, {r})
    BY <1>2, <2>1 DEF RejectRawRequest, Answers
  <2>4. Heard' = [Heard EXCEPT ![r] = {"error"}]
    BY <2>2, <2>3, HeardAnswers
  <2>5. UNCHANGED Present(K)
    BY <2>3 DEF Present
  <2> QED
    BY <2>1, <2>3, <2>4, <2>5 DEF ContractStep, Rejected
<1>3. CASE AcceptRequest
  <2>1. PICK r \in Requests : r = next
    BY <1>3, Asking DEF AcceptRequest, Types
  <2>2. owned' = [owned EXCEPT ![r] = Outputs[r]] /\ next' = next + 1 /\ UNCHANGED Heard
    BY <1>3, <2>1 DEF AcceptRequest, Heard
  <2>3. owned'[r] = Outputs[r] /\ \A x \in Requests \ {r} : owned'[x] = owned[x]
    BY <2>2 DEF Types, FrameTypes, OwnedType
  <2>4. Present(K)' = [Present(K) EXCEPT ![r] = [k \in Kinds |-> IF k \in Outputs[r] \cap K THEN 1 ELSE 0]]
    BY <2>3 DEF Present
  <2> QED
    BY <2>1, <2>2, <2>4 DEF ContractStep, Submitted
<1>4. CASE Deliver
  <2>1. PICK r \in Requests : r = job["result"]
    BY <1>4, JobsAreRequests DEF Deliver, At, Types
  <2>2. owned[r] \ {"jpeg"} \in SUBSET Kinds
    BY DEF Types, FrameTypes, OwnedType
  <2>3. Answers({r}, {}) /\ OnTheWay(r)
    BY <1>4, <2>1 DEF Deliver, At, Answers, OnTheWay
  <2>4. Heard[r] = {} /\ Heard' = [Heard EXCEPT ![r] = {"metadata"}]
    BY <2>3, HeardAnswers DEF Unanswered
  <2> QED
    BY <1>4, <2>1, <2>2, <2>4, DeliverGives, GivesResults DEF HeardOf
<1>5. CASE SendJpeg
  <2>1. PICK r \in Requests : r = job["picture"]
    BY <1>5, JobsAreRequests DEF SendJpeg, At, Types
  <2>2. CASE Current(generation[r])
    <3>1. r \in metadataReturned
      BY <1>5, <2>1 DEF SendJpeg, At, LateAnswered, Late
    <3>2. UNCHANGED <<metadataReturned, requestErrorNotified>>
      BY <1>5, <2>1, <3>1 DEF SendJpeg
    <3>3. HeardOf(r)
      BY <3>2 DEF HeardOf, Heard
    <3> QED
      BY <1>5, <2>1, <2>2, <3>3, SendJpegGives, GivesResults DEF Kinds
  <2>3. CASE ~Current(generation[r])
    BY <1>1, <1>5, <2>1, <2>3 DEF SendJpeg
  <2> QED
    BY <2>2, <2>3
<1>6. ASSUME NEW t \in Threads, FailReturn(t) PROVE ContractStep(K)
  <2>1. failing[t].frame \in Requests /\ failing[t].has \in SUBSET Kinds
    BY <1>6 DEF FailReturn, Types, ControlTypes, FailingType, Failures
  <2>2. HeardOf(failing[t].frame)
    BY <1>6 DEF FailReturn, HeardOf, Heard
  <2> QED
    BY <1>6, <2>1, <2>2, FailReturnGives, GivesResults
<1> QED
  BY <1>1, <1>2, <1>3, <1>4, <1>5, <1>6, BufferSteps DEF BufferStep

-----------------------------------------------------------------------------
(* The contract of the realtime buffers, that every session keeps.            *)
RealtimeContract == INSTANCE FrameContract WITH
  submitted <- next - 1, owed <- Owed(Realtime), answer <- Heard
RealtimeSpec == RealtimeContract!Spec

LEMMA RealtimeInit == Init => RealtimeContract!Init
<1> SUFFICES ASSUME Init PROVE RealtimeContract!Init
  OBVIOUS
<1>1. AnswerInv /\ next = 1
  BY AnswerInit DEF Init
<1>2. Owed(Realtime) = Present(Realtime)
  BY <1>1, OwedIsPresent, RealtimeSettled DEF AnswerInv, FramesInv
<1>3. Present(Realtime) = [r \in Requests |-> [k \in Kinds |-> 0]]
  BY DEF Init, Present
<1>4. Heard = [r \in Requests |-> {}]
  BY DEF Init, Heard
<1>5. /\ RealtimeContract!Requests = Requests
      /\ RealtimeContract!Kinds = Kinds
  BY DEF RealtimeContract!Requests, RealtimeContract!Kinds, Requests, Kinds
<1> QED
  BY <1>1, <1>2, <1>3, <1>4, <1>5 DEF RealtimeContract!Init

LEMMA RealtimeNext ==
  AnswerInv /\ [Next]_vars => [RealtimeContract!Next]_RealtimeContract!vars
<1> SUFFICES ASSUME AnswerInv, [Next]_vars PROVE [RealtimeContract!Next]_RealtimeContract!vars
  OBVIOUS
<1>1. AnswerInv' /\ SessionStep
  BY AnswerNext, Steps
<1>2. Owed(Realtime) = Present(Realtime) /\ Owed(Realtime)' = Present(Realtime)'
  BY <1>1, OwedIsPresent, RealtimeSettled DEF AnswerInv, FramesInv
<1>3. ContractStep(Realtime)
  BY <1>1, ContractSteps, RealtimeSettled DEF AnswerInv, FramesInv
<1>4. next \in Nat /\ MaxRequests \in Nat /\ \A r \in Requests : r \in Nat /\ r <= MaxRequests
  BY Bounds, Asking DEF AnswerInv, FramesInv, Types, Requests
<1>5. /\ RealtimeContract!Requests = Requests
      /\ RealtimeContract!Kinds = Kinds
  BY DEF RealtimeContract!Requests, RealtimeContract!Kinds, Requests, Kinds
<1> HIDE DEF Kinds
<1>6. CASE UNCHANGED <<next, Present(Realtime), Heard>>
  BY <1>2, <1>6 DEF RealtimeContract!vars
<1>7. ASSUME NEW r \in Requests, Submitted(Realtime, r) PROVE RealtimeContract!Next
  <2>1. next - 1 < MaxRequests /\ next' - 1 = (next - 1) + 1 /\ (next - 1) + 1 = r
    BY <1>4, <1>7 DEF Submitted
  <2>2. Outputs[r] \cap Realtime \in SUBSET Kinds
    BY RealtimeSettled
  <2>3. RealtimeContract!Submit(Outputs[r] \cap Realtime)
    BY <1>2, <1>5, <1>7, <2>1 DEF Submitted, RealtimeContract!Submit
  <2> QED
    BY <1>5, <2>2, <2>3 DEF RealtimeContract!Next
<1>8. ASSUME NEW r \in Requests, Rejected(Realtime, r) PROVE RealtimeContract!Next
  <2>1. next - 1 < MaxRequests /\ next' - 1 = (next - 1) + 1 /\ (next - 1) + 1 = r
    BY <1>4, <1>8 DEF Rejected
  <2>2. RealtimeContract!Reject
    BY <1>2, <1>8, <2>1 DEF Rejected, RealtimeContract!Reject
  <2> QED
    BY <2>2 DEF RealtimeContract!Next
<1>9. ASSUME NEW r \in Requests, NEW ks \in SUBSET Kinds, Resulted(Realtime, r, ks)
      PROVE  RealtimeContract!Next
  <2>1. r <= next - 1 /\ next' - 1 = next - 1
    BY <1>4, <1>9 DEF Resulted
  <2>2. RealtimeContract!Result(r, ks)
    BY <1>2, <1>5, <1>9, <2>1 DEF Resulted, HeardOf, RealtimeContract!Result
  <2> QED
    BY <1>5, <2>2 DEF RealtimeContract!Next
<1> QED
  BY <1>3, <1>6, <1>7, <1>8, <1>9 DEF ContractStep

(* Whatever fails, every session keeps the contract for its preview and video *)
(* buffers: the framework never gets one it was not owed, and each request     *)
(* has one answer at most (process_capture_result, notify).                   *)
THEOREM RealtimeBuffersKept == Spec => RealtimeSpec
<1> QED
  BY RealtimeInit, RealtimeNext, AnswerAlways, PTL DEF Spec, RealtimeContract!Spec, RealtimeSpec

-----------------------------------------------------------------------------
(* What a flush has emptied so far, whatever the other threads do beside it.  *)
FlushProgress ==
  /\ pc["flusher"] \in FlushWork =>
       previewQueue = << >> /\ pendingJpeg = None /\ pc["worker"] \notin Taking
  /\ pc["flusher"] \in {"stopPreview"} \cup Collecting => pc["picture"] = "off"
  /\ pc["flusher"] \in Collecting =>
       failing["capture"] = None /\ pc["blit"] = "idle" /\ failing["blit"] = None
  /\ pc["flusher"] \in {"resultIdle", "fail"} => resultQueue = << >>
  /\ pc["flusher"] = "fail" => pc["result"] = "idle" /\ failing["result"] = None


LEMMA FlushProgressKept ==
  ASSUME Types, ControlInv, LocksInv, CallsInv, InFlightOK, NothingToCollect,
     FlushProgress, SessionStep
  PROVE  FlushProgress'
<1> USE DEF Types, ControlTypes, PcType, JobType, FailingType, Threads, FlushWork,
   Taking, Collecting, FlushProgress
<1>1. CASE \/ RejectRawRequest \/ Stutter
  <2>1. UNCHANGED <<pc, failing, closing, flushing, pendingJpeg, previewQueue,
     resultQueue>>
    BY <1>1
       DEF RejectRawRequest, At, InTransition, control, preview, queues, session, still,
          Stutter, vars
  <2> QED
    BY <2>1
<1>2. CASE AcceptRequest
  BY <1>2, Outside
     DEF AcceptRequest, At, GotoWith, InTransition, preview, queues, session, still,
        Goto
<1>3. CASE UpdateBackendParameters
  BY <1>3, Outside DEF UpdateBackendParameters, At, Goto, preview, queues, session, still
<1>4. CASE Reserve
  BY <1>4, Outside
     DEF Reserve, At, Changed, Goto, GotoWith, StartFailing, preview, queues, session,
        InTransition
<1>5. CASE Enqueue
  <2>1. pc["flusher"] \in FlushWork => UNCHANGED <<previewQueue, pendingJpeg>>
    BY <1>5 DEF Enqueue, Changed, CallsInv, InTransition
  <2>2. UNCHANGED resultQueue /\ \A u \in Threads \ {"framework"} : pc'[u] = pc[u] /\ failing'[u] = failing[u]
    BY <1>5 DEF Enqueue, GotoWith, Goto, queues, StartFailing
  <2> QED
    BY <2>1, <2>2
<1>6. CASE PostRequest
  BY <1>6, Outside
     DEF PostRequest, At, GotoWith, NeedsOrderedPreviewCapture, preview, queues,
        session, still, Goto
<1>7. CASE PopTask
  <2>1. pc' \in {[pc EXCEPT !["worker"] = w] : w \in {"exited", "idle", "start", "take"}}
    BY <1>7, TaskHeads DEF PopTask, Goto
  <2> QED
    BY <1>7, <2>1, Outside
       DEF PopTask, At, preview, queues, session, still
<1>8. CASE StartPreviewCheck
  BY <1>8, Outside DEF StartPreviewCheck, At, Goto, InTransition, preview, queues, session
<1>9. CASE StartPreview
  <2>1. CASE pc' = [pc EXCEPT !["worker"] = "idle"] /\ UNCHANGED <<preview_enabled, node0>>
    BY <1>9, <2>1, Outside
       DEF StartPreview, At, preview, queues, session, still
  <2>2. CASE pc' = [pc EXCEPT !["worker"] = "idle", !["capture"] = "loop"]
             /\ preview_enabled' = TRUE /\ node0' = "preview" /\ ~preview_enabled
    BY <1>9, <2>2, Outside
       DEF StartPreview, At, preview, queues, session, still
  <2> QED
    BY <1>9, <2>1, <2>2 DEF StartPreview, Goto
<1>10. CASE TakePictureCheck
  BY <1>10, Outside
     DEF TakePictureCheck, At, GotoWith, InTransition, preview, queues, session, Goto
<1>11. CASE TakePictureFence
  BY <1>11, Outside DEF TakePictureFence, At, Goto, preview, queues, session, still
<1>12. CASE TakePicture
  BY <1>12, Outside DEF TakePicture, At, Goto, preview, queues, session, still
<1>13. CASE PictureStart
  BY <1>13, Outside
     DEF PictureStart, At, Goto, PreviewStopped, preview, queues, session, still
<1>14. CASE FinishWorker
  BY <1>14, Outside DEF FinishWorker, At, Goto, preview, queues, session, still
<1>15. CASE TakePictureFinished
  BY <1>15, Outside
     DEF TakePictureFinished, At, Goto, GotoWith, StartFailing, preview, queues,
        session, still
<1>16. CASE TakePictureClear
  BY <1>16, Outside DEF TakePictureClear, At, GotoWith, preview, queues, session, Goto
<1>17. CASE RestartAfterFailure
  BY <1>17, Outside DEF RestartAfterFailure, At, Goto, preview, queues, session, still
<1>18. CASE NextNativeFrame
  BY <1>18, Outside DEF NextNativeFrame, At, Goto, preview, queues, session, still
<1>19. CASE DrainPreview
  BY <1>19, Outside
     DEF DrainPreview, At, Goto, InTransition, preview, queues, session, still
<1>20. CASE DequeuePreview
  BY <1>20, Outside
     DEF DequeuePreview, At, GotoWith, InTransition, queues, session, still, Goto
<1>21. CASE SourceFence
  BY <1>21, Outside DEF SourceFence, At, Goto, preview, queues, session, still
<1>22. CASE SourceFenceTimeout
  <2>1. job["capture"] \in Requests
    BY <1>22, JobsAreRequests DEF SourceFenceTimeout, At
  <2>2. pc["flusher"] \notin Collecting
    BY <2>1 DEF NothingToCollect, InFlightOK
  <2> QED
    BY <1>22, <2>2, Outside
       DEF SourceFenceTimeout, At, Complete, GotoWith, Goto, StartFailing, queues, session, still,
           preview, CallsInv, InTransition
<1>23. CASE DequeueRecheck
  <2>1. job["capture"] \in Requests
    BY <1>23, JobsAreRequests DEF DequeueRecheck, At
  <2>2. pc["flusher"] \in FlushWork => previewQueue' = previewQueue
    BY <1>23 DEF DequeueRecheck, CallsInv, InTransition
  <2>3. UNCHANGED <<failing, pendingJpeg, resultQueue>> /\ \A u \in Threads \ {"capture"} : pc'[u] = pc[u]
    BY <1>23 DEF DequeueRecheck, GotoWith, Goto, queues, still
  <2> QED
    BY <2>2, <2>3
<1>24. CASE CopyPreview
  <2>1. job["capture"] \in Requests
    BY <1>24, JobsAreRequests DEF CopyPreview, At
  <2>2. pc["flusher"] \notin Collecting
    BY <2>1 DEF NothingToCollect, InFlightOK
  <2> QED
    BY <1>24, <2>2, Outside
       DEF CopyPreview, At, Complete, GotoWith, Goto, StartFailing, queues, session, still,
           preview, CallsInv, InTransition
<1>25. CASE BlitPop
  <2>1. Head(videoBlitQueue) \in ToSet(videoBlitQueue) /\ Head(videoBlitQueue) \in Requests
    BY <1>25, Split, QueueHeads DEF BlitPop
  <2>2. pc["flusher"] \notin Collecting
    BY <2>1 DEF NothingToCollect, InFlightOK
  <2> QED
    BY <1>25, <2>2 DEF BlitPop, At, GotoWith, preview, session, still, Goto
<1>26. CASE BlitComplete
  BY <1>26, Outside
     DEF BlitComplete, At, Complete, GotoWith, session, still, StartFailing, Goto
<1>27. CASE BlitRequeue
  BY <1>27, Outside DEF BlitRequeue, At, Goto, preview, queues, session, still
<1>28. CASE ResultPop
  BY <1>28, Outside DEF ResultPop, At, GotoWith, preview, session, still, Goto
<1>29. CASE Deliver
  BY <1>29, Outside DEF Deliver, At, Goto, GotoWith, preview, queues, session, still
<1>30. CASE ScheduleJpeg
  BY <1>30, Outside
     DEF ScheduleJpeg, At, Changed, Goto, GotoWith, StartFailing, preview, queues,
        session, InTransition, CallsInv
<1>31. CASE PostTakePicture
  BY <1>31, Outside
     DEF PostTakePicture, At, GotoWith, preview, queues, session, still, Goto
<1>32. CASE PictureThread
  BY <1>32, Outside DEF PictureThread, At, Goto, preview, queues, session, still
<1>33. CASE PictureTaken
  BY <1>33, Outside DEF PictureTaken, At, Goto, preview, queues, session, still
<1>34. CASE DataCallback
  BY <1>34, Outside DEF DataCallback, At, Goto, preview, queues, session, still
<1>35. CASE HandleJpeg
  BY <1>35, Outside
     DEF HandleJpeg, At, GotoWith, InTransition, preview, queues, session, Goto
<1>36. CASE HandleJpegCheck
  BY <1>36, Outside
     DEF HandleJpegCheck, At, Changed, Goto, StartFailing, preview, queues, session,
        still, InTransition
<1>37. CASE SendJpeg
  BY <1>37, Outside DEF SendJpeg, At, Goto, StartFailing, preview, queues, session, still
<1>38. CASE RestartCheck
  BY <1>38, Outside
     DEF RestartCheck, At, Changed, Goto, preview, queues, session, still, InTransition
<1>39. CASE RestartPreview
  BY <1>39, Outside DEF RestartPreview, At, Goto, preview, queues, session, still
<1>40. CASE FinishCallback
  BY <1>40, Outside
     DEF FinishCallback, At, GotoWith, preview, queues, session, still, Goto
<1>41. CASE Flush
  BY <1>41, Outside DEF Flush, At, BeginFlush, Goto, preview, queues
<1>42. CASE Close
  BY <1>42, Outside DEF Close, At, Goto, preview, queues
<1>43. CASE CloseJoin
  BY <1>43, Outside DEF CloseJoin, At, Goto, preview, queues, session, still
<1>44. CASE CloseFlush
  BY <1>44, Outside DEF CloseFlush, At, BeginFlush, Goto, preview, queues
<1>45. CASE FlushDrainJpeg
  BY <1>45, Outside DEF FlushDrainJpeg, At, GotoWith, queues, session, Goto, LocksInv
<1>46. CASE FlushLock
  BY <1>46, Outside DEF FlushLock, At, Goto, preview, queues, session, still
<1>47. CASE CancelPicture
  BY <1>47, Outside DEF CancelPicture, At, preview, queues, session, still
<1>48. CASE PictureCancelled
  BY <1>48, Outside DEF PictureCancelled, At, Goto, preview, queues, session, still
<1>49. CASE FlushStopPreview
  BY <1>49, Outside
     DEF FlushStopPreview, At, Goto, PreviewStopped, preview, queues, session, still,
        ControlInv, CaptureOK
<1>50. CASE FlushCollect
  BY <1>50, Outside DEF FlushCollect, At, Goto, queues, session, still
<1>51. CASE FlushResults
  BY <1>51, Outside DEF FlushResults, At, Goto, preview, session, still
<1>52. CASE FlushResultIdle
  BY <1>52, Outside
     DEF FlushResultIdle, At, GotoWith, preview, queues, session, still, Goto
<1>53. CASE FlushFail
  BY <1>53, Outside DEF FlushFail, At, StartFailing, preview, queues, session, still
<1>54. CASE FlushEnd
  BY <1>54, Outside DEF FlushEnd, At, Goto, preview, queues
<1>55. CASE CloseEnd
  BY <1>55, Outside DEF CloseEnd, At, preview, queues, session, still
<1>56. ASSUME NEW t \in Threads, FailLook(t) PROVE FlushProgress'
  BY <1>56, Outside DEF FailLook, preview, queues, session, still
<1>57. ASSUME NEW t \in Threads, FailReturn(t) PROVE FlushProgress'
  BY <1>57, Outside DEF FailReturn, preview, queues, session, still
<1>58. ASSUME NEW t \in Threads, FailStill(t) PROVE FlushProgress'
  BY <1>58, Outside DEF FailStill, InTransition, preview, queues, session
<1> QED
  BY <1>1, <1>2, <1>3, <1>4, <1>5, <1>6, <1>7, <1>8, <1>9, <1>10, <1>11, <1>12, <1>13,
     <1>14, <1>15, <1>16, <1>17, <1>18, <1>19, <1>20, <1>21, <1>22, <1>23, <1>24, <1>25,
     <1>26, <1>27, <1>28, <1>29, <1>30, <1>31, <1>32, <1>33, <1>34, <1>35, <1>36, <1>37,
     <1>38, <1>39, <1>40, <1>41, <1>42, <1>43, <1>44, <1>45, <1>46, <1>47, <1>48, <1>49,
     <1>50, <1>51, <1>52, <1>53, <1>54, <1>55, <1>56, <1>57, <1>58
     DEF SessionStep

FlushInv == FramesInv /\ FlushProgress

LEMMA FlushInit == Init => FlushInv
<1> SUFFICES ASSUME Init PROVE FlushInv
  OBVIOUS
<1>1. FramesInv
  BY FramesInit
<1>2. FlushProgress
  BY DEF Init, FlushProgress, FlushWork, Collecting, Threads
<1> QED
  BY <1>1, <1>2 DEF FlushInv

LEMMA FlushNext == FlushInv /\ [Next]_vars => FlushInv'
<1> SUFFICES ASSUME FlushInv, [Next]_vars PROVE FlushInv'
  OBVIOUS
<1>1. FramesInv' /\ SessionStep
  BY FramesNext, Steps DEF FlushInv
<1>2. FlushProgress'
  BY <1>1, FlushProgressKept DEF FlushInv, FramesInv
<1> QED
  BY <1>1, <1>2 DEF FlushInv

LEMMA FlushAlways == Spec => []FlushInv
<1> QED
  BY FlushInit, FlushNext, PTL DEF Spec

(* Only the end of a flush lowers the flag.                                  *)
LEMMA FlushingEnds ==
  ASSUME SessionStep, flushing, ~flushing'
  PROVE  FlushEnd
<1>1. CASE \/ RejectRawRequest \/ AcceptRequest \/ UpdateBackendParameters \/ Reserve
           \/ Enqueue \/ PostRequest \/ PopTask \/ StartPreviewCheck \/ StartPreview
           \/ TakePictureCheck \/ TakePictureFence \/ TakePicture \/ PictureStart
           \/ FinishWorker \/ TakePictureFinished \/ TakePictureClear
           \/ RestartAfterFailure \/ NextNativeFrame \/ DrainPreview \/ DequeuePreview
           \/ SourceFence \/ SourceFenceTimeout \/ DequeueRecheck \/ CopyPreview
           \/ BlitPop \/ BlitComplete \/ BlitRequeue \/ ResultPop \/ Deliver
           \/ ScheduleJpeg \/ PostTakePicture \/ PictureThread \/ PictureTaken
           \/ DataCallback \/ HandleJpeg \/ HandleJpegCheck \/ SendJpeg \/ RestartCheck
           \/ RestartPreview \/ FinishCallback \/ Close \/ CloseJoin \/ FlushDrainJpeg
           \/ FlushLock \/ CancelPicture \/ PictureCancelled \/ FlushStopPreview
           \/ FlushCollect \/ FlushResults \/ FlushResultIdle \/ FlushFail \/ CloseEnd
           \/ Stutter
  <2>1. UNCHANGED <<flushing>>
    BY <1>1
       DEF RejectRawRequest, InTransition, session, AcceptRequest,
          UpdateBackendParameters, Reserve, Enqueue, NeedsOrderedPreviewCapture,
          PostRequest, PopTask, StartPreviewCheck, StartPreview, TakePictureCheck,
          TakePictureFence, TakePicture, PictureStart, FinishWorker,
          TakePictureFinished, TakePictureClear, RestartAfterFailure, NextNativeFrame,
          DrainPreview, DequeuePreview, SourceFence, SourceFenceTimeout, DequeueRecheck,
          CopyPreview, BlitPop, BlitComplete, BlitRequeue, ResultPop, Deliver,
          ScheduleJpeg, PostTakePicture, PictureThread, PictureTaken, DataCallback,
          HandleJpeg, HandleJpegCheck, SendJpeg, RestartCheck, RestartPreview,
          FinishCallback, Close, CloseJoin, FlushDrainJpeg, FlushLock, CancelPicture,
          PictureCancelled, FlushStopPreview, FlushCollect, FlushResults,
          FlushResultIdle, FlushFail, CloseEnd, Stutter, vars
  <2> QED
    BY <2>1
<1>2. CASE Flush
  BY <1>2 DEF Flush, BeginFlush
<1>3. CASE CloseFlush
  BY <1>3 DEF CloseFlush, BeginFlush
<1>4. CASE FlushEnd
  BY <1>4
<1>5. ASSUME NEW t \in Threads, FailLook(t) PROVE FlushEnd
  BY <1>5 DEF FailLook, session
<1>6. ASSUME NEW t \in Threads, FailReturn(t) PROVE FlushEnd
  BY <1>6 DEF FailReturn, session
<1>7. ASSUME NEW t \in Threads, FailStill(t) PROVE FlushEnd
  BY <1>7 DEF FailStill, InTransition, session
<1> QED
  BY <1>1, <1>2, <1>3, <1>4, <1>5, <1>6, <1>7 DEF SessionStep

(* At that moment a frame that is anywhere is in the framework's own hands.   *)
LEMMA FlushedPlaces ==
  ASSUME FlushInv, FlushEnd, NEW r \in Requests, NEW p \in Places, Place(p, r)
  PROVE  p \in {"asked", "framework"}
<1> USE DEF FlushInv, FramesInv, Collecting, FlushWork
<1>1. pc["flusher"] = "fail" /\ failing["flusher"] = None /\ todo = << >>
  BY DEF FlushEnd, At
<1>2. /\ previewQueue = << >> /\ pendingJpeg = None /\ resultQueue = << >>
      /\ pc["picture"] = "off" /\ pc["blit"] = "idle" /\ pc["result"] = "idle"
      /\ failing["capture"] = None /\ failing["blit"] = None /\ failing["result"] = None
  BY <1>1 DEF FlushProgress
<1>3. job["flusher"] = None /\ job["blit"] = None /\ failing["picture"] = None
  BY <1>1, <1>2 DEF ControlInv, FlusherOK, BlitOK, PictureOK, Calling
<1>4. r \notin ToSet(videoBlitQueue) /\ job["capture"] # r
  BY <1>1 DEF NothingToCollect, InFlightOK
<1>5. r \notin ToSet(previewQueue) /\ r \notin ToSet(resultQueue) /\ r \notin ToSet(todo)
  BY <1>1, <1>2, EmptySequence
<1> QED
  BY <1>1, <1>2, <1>3, <1>4, <1>5, Outside DEF Place, Failers, Threads

LEMMA FlushReturns ==
  FlushInv /\ [Next]_vars =>
    (flushing /\ ~flushing' =>
       \A r \in Requests \ abandoned :
         r # job["framework"] /\ (failing["framework"] # None => failing["framework"].frame # r)
         => owned[r] \subseteq {"jpeg"} /\ (OneStillIn(scenario) => owned[r] = {}))
<1> SUFFICES ASSUME FlushInv, [Next]_vars, flushing, ~flushing', NEW r \in Requests \ abandoned,
                    r # job["framework"], failing["framework"] # None => failing["framework"].frame # r
             PROVE  owned[r] \subseteq {"jpeg"} /\ (OneStillIn(scenario) => owned[r] = {})
  OBVIOUS
<1>1. FlushEnd
  BY Steps, FlushingEnds
<1>2. ~Place("asked", r) /\ ~Place("framework", r)
  BY DEF Place, Failers, Threads
<1>3. \A p \in Places : ~Place(p, r)
  BY <1>1, <1>2, FlushedPlaces
<1> QED
  BY <1>3 DEF FlushInv, FramesInv, Held

(* Whatever runs beside it, flush() returns only when no preview or video     *)
(* buffer of a request it found in the device is left there ...             *)
THEOREM FlushReturnsRealtime ==
  Spec => [][flushing /\ ~flushing' =>
               \A r \in Requests \ abandoned :
                 generation[r] < sessionGeneration /\ r # job["framework"]
                 /\ (failing["framework"] # None => failing["framework"].frame # r)
                 => owned[r] \subseteq {"jpeg"}]_vars
<1>1. FlushInv /\ [Next]_vars =>
        [flushing /\ ~flushing' =>
           \A r \in Requests \ abandoned :
             generation[r] < sessionGeneration /\ r # job["framework"]
             /\ (failing["framework"] # None => failing["framework"].frame # r)
             => owned[r] \subseteq {"jpeg"}]_vars
  BY FlushReturns
<1> QED
  BY <1>1, FlushAlways, PTL DEF Spec

(* ... and, in sessions with one still at most, when no buffer at all is      *)
(* (flush, FlushDrainJpeg to FlushEnd).  A second still may be overwritten    *)
(* in pendingJpeg_.                                                         *)
THEOREM FlushReturnsEverything ==
  ASSUME \A s \in Scenarios : OneStillIn(s)
  PROVE  Spec => FlushReturnsAll
<1>1. FlushInv => OneStillIn(scenario)
  BY DEF FlushInv, FramesInv, Types, SessionTypes
<1>2. FlushInv /\ [Next]_vars =>
        [flushing /\ ~flushing' =>
           \A r \in Requests \ abandoned :
             generation[r] < sessionGeneration /\ r # job["framework"]
             /\ (failing["framework"] # None => failing["framework"].frame # r)
             => owned[r] = {}]_vars
  BY <1>1, FlushReturns
<1> QED
  BY <1>2, FlushAlways, PTL DEF Spec, FlushReturnsAll

-----------------------------------------------------------------------------
(* The still.  A session hands its one reservation to the first request that  *)
(* asks for a JPEG, and takes it back when that frame is through.             *)

(* No frame is newer than the session, and a flush makes the one that the     *)
(* framework is asking for older.                                            *)
GenerationsPast ==
  /\ \A r \in Requests : generation[r] <= sessionGeneration
  /\ \A r \in Requests :
       job["framework"] = r /\ flushing => generation[r] < sessionGeneration
(* Whose JPEG buffer a failFrame() or the worker has, asked for one.          *)
FailingAsked ==
  \A t \in Threads : failing[t] # None =>
    /\ failing[t].step = "return" => failing[t].has \subseteq Outputs[failing[t].frame]
    /\ failing[t].step = "still" => "jpeg" \in Outputs[failing[t].frame]
WorkerStill == job["worker"] # None => "jpeg" \in Outputs[job["worker"]]
(* A picture is taken for a still that is late already.                       *)
Early(r) == OnTheWay(r) \/ (job["result"] = r /\ pc["result"] = "schedule")
StillIsLate(r) == r < next /\ "jpeg" \in Outputs[r] /\ ~Early(r)
LateTake ==
  pc["picture"] # "off" \/ job["worker"] # None => \E r \in Requests : StillIsLate(r)

(* A frame that holds the reservation, if it asked for a JPEG.                *)
Queued(r) ==
  \/ r \in ToSet(previewQueue) \/ job["capture"] = r
  \/ r \in ToSet(videoBlitQueue) \/ job["blit"] = r \/ r \in ToSet(resultQueue)
  \/ (job["result"] = r /\ pc["result"] \in {"deliver", "schedule"})
  \/ pendingJpeg = r
Entering(r) == job["framework"] = r /\ pc["framework"] = "enqueue"
Reserved ==
  OneStillIn(scenario) =>
    \A r \in Requests :
      "jpeg" \in owned[r] /\ (Queued(r) \/ (Entering(r) /\ ~Changed(r))) => stillQueued

(* What a step does of it.                                                  *)
ChangedStays == \A r \in Requests : Entering(r) /\ Changed(r) => Changed(r)'
QueuedStep ==
  \A r \in Requests :
    Queued(r)' => Queued(r) \/ (Enqueue /\ Entering(r) /\ ~Changed(r))
EnteringStep ==
  \A r \in Requests :
    Entering(r)' => Entering(r) \/ (Reserve /\ ("jpeg" \in Outputs[r] => stillQueued'))
EarlyStep == \A r \in Requests : r < next /\ Early(r)' => Early(r)
ScheduleStep ==
  \A r \in Requests : job'["result"] = r /\ pc'["result"] = "schedule" => Early(r)
TakeStep ==
  pc["picture"] = "off" /\ job["worker"] = None =>
    \/ pc'["picture"] = "off" /\ job'["worker"] = None
    \/ TakePictureCheck /\ job'["worker"] = pendingJpeg /\ pendingJpeg # None
Releases ==
  \/ Enqueue \/ SourceFenceTimeout \/ TakePictureClear \/ HandleJpeg \/ FlushEnd
  \/ \E t \in Threads : FailStill(t)


LEMMA GenerationsPastKept ==
  ASSUME Types, ControlInv, CallsInv, GenerationsPast, SessionStep
  PROVE  GenerationsPast'
<1> USE DEF Types, SessionTypes, ControlTypes, JobType, PcType, TaskTypes, FrameTypes,
   GenerationType, Threads, GenerationsPast
<1>1. CASE \/ RejectRawRequest \/ UpdateBackendParameters \/ PopTask
           \/ StartPreviewCheck \/ StartPreview \/ TakePictureFence \/ TakePicture
           \/ PictureStart \/ FinishWorker \/ RestartAfterFailure \/ NextNativeFrame
           \/ DrainPreview \/ SourceFence \/ BlitRequeue \/ PictureThread
           \/ PictureTaken \/ DataCallback \/ HandleJpegCheck \/ SendJpeg
           \/ RestartCheck \/ RestartPreview \/ CloseJoin \/ FlushLock \/ CancelPicture
           \/ PictureCancelled \/ FlushStopPreview \/ FlushCollect \/ FlushResults
           \/ FlushFail \/ CloseEnd \/ Stutter
  <2>1. UNCHANGED <<job, sessionGeneration, flushing, generation>>
    BY <1>1
       DEF RejectRawRequest, InTransition, control, session, UpdateBackendParameters,
          PopTask, Current, StartPreviewCheck, StartPreview, TakePictureFence,
          TakePicture, PictureStart, FinishWorker, RestartAfterFailure, NextNativeFrame,
          DrainPreview, SourceFence, BlitRequeue, PictureThread, PictureTaken,
          DataCallback, HandleJpegCheck, SendJpeg, RestartCheck, RestartPreview,
          CloseJoin, FlushLock, CancelPicture, PictureCancelled, FlushStopPreview,
          FlushCollect, FlushResults, FlushFail, CloseEnd, Stutter, vars
  <2> QED
    BY <2>1
<1>2. CASE AcceptRequest
  <2>1. PICK r \in Requests : r = next
    BY <1>2, Asking DEF AcceptRequest
  <2>2. /\ generation' = [generation EXCEPT ![r] = sessionGeneration]
        /\ UNCHANGED <<sessionGeneration, flushing>> /\ ~flushing
    BY <1>2, <2>1 DEF AcceptRequest, session, InTransition
  <2> QED
    BY <2>2
<1>3. CASE Reserve
  BY <1>3, Outside DEF Reserve, GotoWith, session
<1>4. CASE Enqueue
  BY <1>4, Outside DEF Enqueue, GotoWith, NeedsOrderedPreviewCapture, session
<1>5. CASE PostRequest
  BY <1>5, Outside DEF PostRequest, GotoWith, NeedsOrderedPreviewCapture, session
<1>6. CASE TakePictureCheck
  BY <1>6, Outside DEF TakePictureCheck, Current, GotoWith, InTransition, session
<1>7. CASE TakePictureFinished
  BY <1>7, Outside DEF TakePictureFinished, Current, GotoWith, session
<1>8. CASE TakePictureClear
  BY <1>8, Outside DEF TakePictureClear, GotoWith, session
<1>9. CASE DequeuePreview
  BY <1>9, Outside DEF DequeuePreview, GotoWith, InTransition, session
<1>10. CASE SourceFenceTimeout
  BY <1>10, Outside DEF SourceFenceTimeout, GotoWith, session
<1>11. CASE DequeueRecheck
  BY <1>11, Outside DEF DequeueRecheck, Current, GotoWith, InTransition, session
<1>12. CASE CopyPreview
  BY <1>12, Outside DEF CopyPreview, GotoWith, session
<1>13. CASE BlitPop
  BY <1>13, Outside DEF BlitPop, GotoWith, session
<1>14. CASE BlitComplete
  BY <1>14, Outside DEF BlitComplete, GotoWith, session
<1>15. CASE ResultPop
  BY <1>15, Outside DEF ResultPop, GotoWith, session
<1>16. CASE Deliver
  BY <1>16, Outside DEF Deliver, GotoWith, session
<1>17. CASE ScheduleJpeg
  BY <1>17, Outside DEF ScheduleJpeg, GotoWith, session
<1>18. CASE PostTakePicture
  BY <1>18, Outside DEF PostTakePicture, GotoWith, session
<1>19. CASE HandleJpeg
  BY <1>19, Outside DEF HandleJpeg, GotoWith, InTransition, session
<1>20. CASE FinishCallback
  BY <1>20, Outside DEF FinishCallback, GotoWith, session
<1>21. CASE Flush
  <2>1. sessionGeneration' = sessionGeneration + 1 /\ UNCHANGED <<generation, job>>
    BY <1>21 DEF Flush, BeginFlush
  <2> QED
    BY <2>1
<1>22. CASE Close
  <2>1. sessionGeneration' = sessionGeneration + 1 /\ UNCHANGED <<generation, job>>
    BY <1>22 DEF Close
  <2> QED
    BY <2>1
<1>23. CASE CloseFlush
  <2>1. sessionGeneration' = sessionGeneration + 1 /\ UNCHANGED <<generation, job>>
    BY <1>23 DEF CloseFlush, BeginFlush
  <2> QED
    BY <2>1
<1>24. CASE FlushDrainJpeg
  BY <1>24, Outside DEF FlushDrainJpeg, GotoWith, session
<1>25. CASE FlushResultIdle
  BY <1>25, Outside DEF FlushResultIdle, GotoWith, session
<1>26. CASE FlushEnd
  BY <1>26, Outside DEF FlushEnd
<1>27. ASSUME NEW t \in Threads, FailLook(t) PROVE GenerationsPast'
  BY <1>27, Outside DEF FailLook, session
<1>28. ASSUME NEW t \in Threads, FailReturn(t) PROVE GenerationsPast'
  BY <1>28, Outside DEF FailReturn, session
<1>29. ASSUME NEW t \in Threads, FailStill(t) PROVE GenerationsPast'
  BY <1>29, Outside DEF FailStill, InTransition, session
<1> QED
  BY <1>1, <1>2, <1>3, <1>4, <1>5, <1>6, <1>7, <1>8, <1>9, <1>10, <1>11, <1>12, <1>13,
     <1>14, <1>15, <1>16, <1>17, <1>18, <1>19, <1>20, <1>21, <1>22, <1>23, <1>24, <1>25,
     <1>26, <1>27, <1>28, <1>29
     DEF SessionStep

LEMMA FailingAskedKept ==
  ASSUME Types, ControlInv, PlacedAreAccepted, WorkerAccepted, OwnedAsked, FailingAsked, SessionStep
  PROVE  FailingAsked'
<1> USE DEF Types, ControlTypes, FailingType
<1>1. Outputs' = Outputs
  BY ScenarioConstant DEF ScenarioStays, Outputs
<1>2. ASSUME NEW t \in Threads, failing'[t] # None
      PROVE  /\ failing'[t].step = "return" => failing'[t].has \subseteq Outputs[failing'[t].frame]
             /\ failing'[t].step = "still" => "jpeg" \in Outputs[failing'[t].frame]
  <2>1. CASE failing'[t] = failing[t]
    BY <1>2, <2>1 DEF FailingAsked
  <2>2. CASE failing'[t].step = "look"
    BY <2>2
  <2>3. CASE FailLook(t)
    <3>1. failing[t] \in Failures
      BY <2>3 DEF FailLook
    <3>2. failing'[t] = [failing[t] EXCEPT !.step = "return", !.has = owned[failing[t].frame]]
      BY <2>3 DEF FailLook
    <3>3. failing'[t].step = "return" /\ failing'[t].frame = failing[t].frame
          /\ failing'[t].has = owned[failing[t].frame]
      BY <3>1, <3>2 DEF Failures
    <3> QED
      BY <2>3, <3>3, AcceptedPlaces DEF FailLook, OwnedAsked
  <2>4. CASE FailReturn(t)
    <3>1. failing[t] \in Failures /\ failing[t].step = "return"
      BY <2>4 DEF FailReturn
    <3>2. failing'[t] = [failing[t] EXCEPT !.step = "still"] /\ "jpeg" \in failing[t].has
      BY <1>2, <2>4 DEF FailReturn
    <3>3. failing'[t].step = "still" /\ failing'[t].frame = failing[t].frame
      BY <3>1, <3>2 DEF Failures
    <3> QED
      BY <2>4, <3>1, <3>2, <3>3 DEF FailReturn, FailingAsked
  <2>5. CASE FailStill(t)
    BY <1>2, <2>5 DEF FailStill
  <2> QED
    BY <2>1, <2>2, <2>3, <2>4, <2>5, FailuresProgress DEF FailuresGoOn, FailureGoesOn
<1> QED
  BY <1>1, <1>2 DEF FailingAsked

LEMMA WorkerStillKept ==
  ASSUME Types, ControlInv, PlacedAreAccepted, WorkerAccepted, OwnedAsked, WorkerStill,
     SessionStep
  PROVE  WorkerStill'
<1> USE DEF Types, ControlTypes, JobType, Threads, Outputs, WorkerStill
<1>1. CASE \/ RejectRawRequest \/ UpdateBackendParameters \/ PopTask
           \/ StartPreviewCheck \/ StartPreview \/ TakePictureFence \/ TakePicture
           \/ PictureStart \/ FinishWorker \/ RestartAfterFailure \/ NextNativeFrame
           \/ DrainPreview \/ SourceFence \/ BlitRequeue \/ PictureThread
           \/ PictureTaken \/ DataCallback \/ HandleJpegCheck \/ SendJpeg
           \/ RestartCheck \/ RestartPreview \/ Flush \/ Close \/ CloseJoin
           \/ CloseFlush \/ FlushLock \/ CancelPicture \/ PictureCancelled
           \/ FlushStopPreview \/ FlushCollect \/ FlushResults \/ FlushFail \/ FlushEnd
           \/ CloseEnd \/ Stutter
  <2>1. UNCHANGED <<scenario, job>>
    BY <1>1
       DEF RejectRawRequest, control, UpdateBackendParameters, PopTask,
          StartPreviewCheck, HasSource, StartPreview, Faults, TakePictureFence,
          TakePicture, PictureStart, FinishWorker, RestartAfterFailure, NextNativeFrame,
          DrainPreview, SourceFence, BlitRequeue, PictureThread, PictureTaken,
          DataCallback, HandleJpegCheck, SendJpeg, RestartCheck, RestartPreview, Flush,
          BeginFlush, Close, CloseJoin, CloseFlush, FlushLock, CancelPicture,
          PictureCancelled, FlushStopPreview, FlushCollect, FlushResults, FlushFail,
          FlushEnd, CloseEnd, Stutter, vars
  <2> QED
    BY <2>1
<1>2. CASE AcceptRequest
  BY <1>2, Outside DEF AcceptRequest, GotoWith, Settings
<1>3. CASE Reserve
  BY <1>3, Outside DEF Reserve, GotoWith
<1>4. CASE Enqueue
  BY <1>4, Outside DEF Enqueue, GotoWith, NeedsOrderedPreviewCapture, HasSource
<1>5. CASE PostRequest
  BY <1>5, Outside DEF PostRequest, GotoWith, NeedsOrderedPreviewCapture, HasSource
<1>6. CASE TakePictureCheck
  <2>1. job'["worker"] # None => job'["worker"] = pendingJpeg /\ pendingJpeg # None
                                /\ "jpeg" \in owned[pendingJpeg]
    BY <1>6 DEF TakePictureCheck, GotoWith
  <2>2. pendingJpeg # None => pendingJpeg \in Requests /\ pendingJpeg < next
    BY AcceptedPlaces DEF SlotTypes
  <2>3. scenario' = scenario
    BY <1>6 DEF TakePictureCheck
  <2> QED
    BY <2>1, <2>2, <2>3 DEF OwnedAsked
<1>7. CASE TakePictureFinished
  BY <1>7, Outside DEF TakePictureFinished, GotoWith
<1>8. CASE TakePictureClear
  BY <1>8, Outside DEF TakePictureClear, GotoWith
<1>9. CASE DequeuePreview
  BY <1>9, Outside DEF DequeuePreview, GotoWith
<1>10. CASE SourceFenceTimeout
  BY <1>10, Outside DEF SourceFenceTimeout, Faults, GotoWith
<1>11. CASE DequeueRecheck
  BY <1>11, Outside DEF DequeueRecheck, GotoWith
<1>12. CASE CopyPreview
  BY <1>12, Outside DEF CopyPreview, Faults, GotoWith
<1>13. CASE BlitPop
  BY <1>13, Outside DEF BlitPop, GotoWith
<1>14. CASE BlitComplete
  BY <1>14, Outside DEF BlitComplete, GotoWith
<1>15. CASE ResultPop
  BY <1>15, Outside DEF ResultPop, GotoWith
<1>16. CASE Deliver
  BY <1>16, Outside DEF Deliver, GotoWith
<1>17. CASE ScheduleJpeg
  BY <1>17, Outside DEF ScheduleJpeg, GotoWith
<1>18. CASE PostTakePicture
  BY <1>18, Outside DEF PostTakePicture, GotoWith
<1>19. CASE HandleJpeg
  BY <1>19, Outside DEF HandleJpeg, GotoWith
<1>20. CASE FinishCallback
  BY <1>20, Outside DEF FinishCallback, GotoWith
<1>21. CASE FlushDrainJpeg
  BY <1>21, Outside DEF FlushDrainJpeg, GotoWith
<1>22. CASE FlushResultIdle
  BY <1>22, Outside DEF FlushResultIdle, GotoWith
<1>23. ASSUME NEW t \in Threads, FailLook(t) PROVE WorkerStill'
  BY <1>23, Outside DEF FailLook
<1>24. ASSUME NEW t \in Threads, FailReturn(t) PROVE WorkerStill'
  BY <1>24, Outside DEF FailReturn
<1>25. ASSUME NEW t \in Threads, FailStill(t) PROVE WorkerStill'
  BY <1>25, Outside DEF FailStill
<1> QED
  BY <1>1, <1>2, <1>3, <1>4, <1>5, <1>6, <1>7, <1>8, <1>9, <1>10, <1>11, <1>12, <1>13,
     <1>14, <1>15, <1>16, <1>17, <1>18, <1>19, <1>20, <1>21, <1>22, <1>23, <1>24, <1>25
     DEF SessionStep

LEMMA ScheduleSteps ==
  ASSUME Types, ControlInv, SessionStep
  PROVE  ScheduleStep
<1> USE DEF Types, ControlTypes, PcType, JobType, Threads, Early, OnTheWay, ScheduleStep
<1>1. CASE \/ RejectRawRequest \/ FlushFail \/ Stutter
  <2>1. UNCHANGED <<pc, job>>
    BY <1>1 DEF RejectRawRequest, At, control, FlushFail, Stutter, vars
  <2> QED
    BY <2>1
<1>2. CASE AcceptRequest
  BY <1>2, Outside DEF AcceptRequest, At, GotoWith, Goto
<1>3. CASE UpdateBackendParameters
  BY <1>3, Outside DEF UpdateBackendParameters, At, Goto
<1>4. CASE Reserve
  BY <1>4, Outside DEF Reserve, At, Goto, GotoWith
<1>5. CASE Enqueue
  BY <1>5, Outside DEF Enqueue, At, Goto, GotoWith, NeedsOrderedPreviewCapture
<1>6. CASE PostRequest
  BY <1>6, Outside DEF PostRequest, At, GotoWith, NeedsOrderedPreviewCapture, Goto
<1>7. CASE PopTask
  <2>1. pc' \in {[pc EXCEPT !["worker"] = w] : w \in {"exited", "idle", "start", "take"}}
    BY <1>7, TaskHeads DEF PopTask, Goto
  <2> QED
    BY <1>7, <2>1, Outside
       DEF PopTask, At
<1>8. CASE StartPreviewCheck
  BY <1>8, Outside DEF StartPreviewCheck, At, Goto
<1>9. CASE StartPreview
  <2>1. CASE pc' = [pc EXCEPT !["worker"] = "idle"] /\ UNCHANGED <<preview_enabled, node0>>
    BY <1>9, <2>1, Outside
       DEF StartPreview, At
  <2>2. CASE pc' = [pc EXCEPT !["worker"] = "idle", !["capture"] = "loop"]
             /\ preview_enabled' = TRUE /\ node0' = "preview" /\ ~preview_enabled
    BY <1>9, <2>2, Outside
       DEF StartPreview, At
  <2> QED
    BY <1>9, <2>1, <2>2 DEF StartPreview, Goto
<1>10. CASE TakePictureCheck
  BY <1>10, Outside DEF TakePictureCheck, At, GotoWith, Goto
<1>11. CASE TakePictureFence
  BY <1>11, Outside DEF TakePictureFence, At, Goto
<1>12. CASE TakePicture
  BY <1>12, Outside DEF TakePicture, At, Goto
<1>13. CASE PictureStart
  BY <1>13, Outside DEF PictureStart, At, Goto
<1>14. CASE FinishWorker
  BY <1>14, Outside DEF FinishWorker, At, Goto
<1>15. CASE TakePictureFinished
  BY <1>15, Outside DEF TakePictureFinished, At, Goto, GotoWith
<1>16. CASE TakePictureClear
  BY <1>16, Outside DEF TakePictureClear, At, GotoWith, Goto
<1>17. CASE RestartAfterFailure
  BY <1>17, Outside DEF RestartAfterFailure, At, Goto
<1>18. CASE NextNativeFrame
  BY <1>18, Outside DEF NextNativeFrame, At, Goto
<1>19. CASE DrainPreview
  BY <1>19, Outside DEF DrainPreview, At, Goto
<1>20. CASE DequeuePreview
  BY <1>20, Outside DEF DequeuePreview, At, GotoWith, Goto
<1>21. CASE SourceFence
  BY <1>21, Outside DEF SourceFence, At, Goto
<1>22. CASE SourceFenceTimeout
  BY <1>22, Outside DEF SourceFenceTimeout, At, GotoWith, Goto
<1>23. CASE DequeueRecheck
  BY <1>23, Outside DEF DequeueRecheck, At, Goto, GotoWith
<1>24. CASE CopyPreview
  BY <1>24, Outside DEF CopyPreview, At, GotoWith, VideoBlitRoom, Goto
<1>25. CASE BlitPop
  BY <1>25, Outside DEF BlitPop, At, GotoWith, Goto
<1>26. CASE BlitComplete
  BY <1>26, Outside DEF BlitComplete, At, GotoWith, Goto
<1>27. CASE BlitRequeue
  BY <1>27, Outside DEF BlitRequeue, At, Goto
<1>28. CASE ResultPop
  BY <1>28, Outside DEF ResultPop, At, GotoWith, Goto
<1>29. CASE Deliver
  BY <1>29, Outside DEF Deliver, At, Goto, GotoWith
<1>30. CASE ScheduleJpeg
  BY <1>30, Outside DEF ScheduleJpeg, At, Goto, GotoWith
<1>31. CASE PostTakePicture
  BY <1>31, Outside DEF PostTakePicture, At, GotoWith, Goto
<1>32. CASE PictureThread
  BY <1>32, Outside DEF PictureThread, At, Goto
<1>33. CASE PictureTaken
  BY <1>33, Outside DEF PictureTaken, At, Goto
<1>34. CASE DataCallback
  BY <1>34, Outside DEF DataCallback, At, Goto
<1>35. CASE HandleJpeg
  BY <1>35, Outside DEF HandleJpeg, At, GotoWith, Goto
<1>36. CASE HandleJpegCheck
  BY <1>36, Outside DEF HandleJpegCheck, At, Goto
<1>37. CASE SendJpeg
  BY <1>37, Outside DEF SendJpeg, At, Goto
<1>38. CASE RestartCheck
  BY <1>38, Outside DEF RestartCheck, At, Goto
<1>39. CASE RestartPreview
  BY <1>39, Outside DEF RestartPreview, At, Goto
<1>40. CASE FinishCallback
  BY <1>40, Outside DEF FinishCallback, At, GotoWith, Goto
<1>41. CASE Flush
  BY <1>41, Outside DEF Flush, At, BeginFlush, Goto
<1>42. CASE Close
  BY <1>42, Outside DEF Close, At, Goto
<1>43. CASE CloseJoin
  BY <1>43, Outside DEF CloseJoin, At, Goto
<1>44. CASE CloseFlush
  BY <1>44, Outside DEF CloseFlush, At, BeginFlush, Goto
<1>45. CASE FlushDrainJpeg
  BY <1>45, Outside DEF FlushDrainJpeg, At, GotoWith, Goto
<1>46. CASE FlushLock
  BY <1>46, Outside DEF FlushLock, At, Goto
<1>47. CASE CancelPicture
  BY <1>47, Outside DEF CancelPicture, At
<1>48. CASE PictureCancelled
  BY <1>48, Outside DEF PictureCancelled, At, Goto
<1>49. CASE FlushStopPreview
  BY <1>49, Outside DEF FlushStopPreview, At, Goto
<1>50. CASE FlushCollect
  BY <1>50, Outside DEF FlushCollect, At, Goto
<1>51. CASE FlushResults
  BY <1>51, Outside DEF FlushResults, At, Goto
<1>52. CASE FlushResultIdle
  BY <1>52, Outside DEF FlushResultIdle, At, GotoWith, Goto
<1>53. CASE FlushEnd
  BY <1>53, Outside DEF FlushEnd, At, Goto
<1>54. CASE CloseEnd
  BY <1>54, Outside DEF CloseEnd, At
<1>55. ASSUME NEW t \in Threads, FailLook(t) PROVE ScheduleStep
  BY <1>55, Outside DEF FailLook
<1>56. ASSUME NEW t \in Threads, FailReturn(t) PROVE ScheduleStep
  BY <1>56, Outside DEF FailReturn
<1>57. ASSUME NEW t \in Threads, FailStill(t) PROVE ScheduleStep
  BY <1>57, Outside DEF FailStill
<1> QED
  BY <1>1, <1>2, <1>3, <1>4, <1>5, <1>6, <1>7, <1>8, <1>9, <1>10, <1>11, <1>12, <1>13,
     <1>14, <1>15, <1>16, <1>17, <1>18, <1>19, <1>20, <1>21, <1>22, <1>23, <1>24, <1>25,
     <1>26, <1>27, <1>28, <1>29, <1>30, <1>31, <1>32, <1>33, <1>34, <1>35, <1>36, <1>37,
     <1>38, <1>39, <1>40, <1>41, <1>42, <1>43, <1>44, <1>45, <1>46, <1>47, <1>48, <1>49,
     <1>50, <1>51, <1>52, <1>53, <1>54, <1>55, <1>56, <1>57
     DEF SessionStep

LEMMA TakeSteps ==
  ASSUME Types, ControlInv, SessionStep
  PROVE  TakeStep
<1> USE DEF Types, ControlTypes, PcType, JobType, Threads, ControlInv, WorkerOK, Taking,
   TakeStep
<1>1. CASE \/ RejectRawRequest \/ FlushFail \/ Stutter
  <2>1. UNCHANGED <<pc, job>>
    BY <1>1 DEF RejectRawRequest, At, control, FlushFail, Stutter, vars
  <2> QED
    BY <2>1
<1>2. CASE AcceptRequest
  BY <1>2, Outside DEF AcceptRequest, At, GotoWith, Goto
<1>3. CASE UpdateBackendParameters
  BY <1>3, Outside DEF UpdateBackendParameters, At, Goto
<1>4. CASE Reserve
  BY <1>4, Outside DEF Reserve, At, Goto, GotoWith
<1>5. CASE Enqueue
  BY <1>5, Outside DEF Enqueue, At, Goto, GotoWith, NeedsOrderedPreviewCapture
<1>6. CASE PostRequest
  BY <1>6, Outside DEF PostRequest, At, GotoWith, NeedsOrderedPreviewCapture, Goto
<1>7. CASE PopTask
  <2>1. pc' \in {[pc EXCEPT !["worker"] = w] : w \in {"exited", "idle", "start", "take"}}
    BY <1>7, TaskHeads DEF PopTask, Goto
  <2> QED
    BY <1>7, <2>1, Outside
       DEF PopTask, At
<1>8. CASE StartPreviewCheck
  BY <1>8, Outside DEF StartPreviewCheck, At, Goto
<1>9. CASE StartPreview
  <2>1. CASE pc' = [pc EXCEPT !["worker"] = "idle"] /\ UNCHANGED <<preview_enabled, node0>>
    BY <1>9, <2>1, Outside
       DEF StartPreview, At
  <2>2. CASE pc' = [pc EXCEPT !["worker"] = "idle", !["capture"] = "loop"]
             /\ preview_enabled' = TRUE /\ node0' = "preview" /\ ~preview_enabled
    BY <1>9, <2>2, Outside
       DEF StartPreview, At
  <2> QED
    BY <1>9, <2>1, <2>2 DEF StartPreview, Goto
<1>10. CASE TakePictureCheck
  BY <1>10, Outside DEF TakePictureCheck, GotoWith, Goto
<1>11. CASE TakePictureFence
  BY <1>11, Outside DEF TakePictureFence, At, Goto
<1>12. CASE TakePicture
  BY <1>12, Outside DEF TakePicture, At, Goto
<1>13. CASE PictureStart
  BY <1>13, Outside DEF PictureStart, At, Goto
<1>14. CASE FinishWorker
  BY <1>14, Outside DEF FinishWorker, At, Goto
<1>15. CASE TakePictureFinished
  BY <1>15, Outside DEF TakePictureFinished, At, Goto, GotoWith
<1>16. CASE TakePictureClear
  BY <1>16, Outside DEF TakePictureClear, At, GotoWith, Goto
<1>17. CASE RestartAfterFailure
  BY <1>17, Outside DEF RestartAfterFailure, At, Goto
<1>18. CASE NextNativeFrame
  BY <1>18, Outside DEF NextNativeFrame, At, Goto
<1>19. CASE DrainPreview
  BY <1>19, Outside DEF DrainPreview, At, Goto
<1>20. CASE DequeuePreview
  BY <1>20, Outside DEF DequeuePreview, At, GotoWith, Goto
<1>21. CASE SourceFence
  BY <1>21, Outside DEF SourceFence, At, Goto
<1>22. CASE SourceFenceTimeout
  BY <1>22, Outside DEF SourceFenceTimeout, At, GotoWith, Goto
<1>23. CASE DequeueRecheck
  BY <1>23, Outside DEF DequeueRecheck, At, Goto, GotoWith
<1>24. CASE CopyPreview
  BY <1>24, Outside DEF CopyPreview, At, GotoWith, VideoBlitRoom, Goto
<1>25. CASE BlitPop
  BY <1>25, Outside DEF BlitPop, At, GotoWith, Goto
<1>26. CASE BlitComplete
  BY <1>26, Outside DEF BlitComplete, At, GotoWith, Goto
<1>27. CASE BlitRequeue
  BY <1>27, Outside DEF BlitRequeue, At, Goto
<1>28. CASE ResultPop
  BY <1>28, Outside DEF ResultPop, At, GotoWith, Goto
<1>29. CASE Deliver
  BY <1>29, Outside DEF Deliver, At, Goto, GotoWith
<1>30. CASE ScheduleJpeg
  BY <1>30, Outside DEF ScheduleJpeg, At, Goto, GotoWith
<1>31. CASE PostTakePicture
  BY <1>31, Outside DEF PostTakePicture, At, GotoWith, Goto
<1>32. CASE PictureThread
  BY <1>32, Outside DEF PictureThread, At, Goto
<1>33. CASE PictureTaken
  BY <1>33, Outside DEF PictureTaken, At, Goto
<1>34. CASE DataCallback
  BY <1>34, Outside DEF DataCallback, At, Goto
<1>35. CASE HandleJpeg
  BY <1>35, Outside DEF HandleJpeg, At, GotoWith, Goto
<1>36. CASE HandleJpegCheck
  BY <1>36, Outside DEF HandleJpegCheck, At, Goto
<1>37. CASE SendJpeg
  BY <1>37, Outside DEF SendJpeg, At, Goto
<1>38. CASE RestartCheck
  BY <1>38, Outside DEF RestartCheck, At, Goto
<1>39. CASE RestartPreview
  BY <1>39, Outside DEF RestartPreview, At, Goto
<1>40. CASE FinishCallback
  BY <1>40, Outside DEF FinishCallback, At, GotoWith, Goto
<1>41. CASE Flush
  BY <1>41, Outside DEF Flush, At, BeginFlush, Goto
<1>42. CASE Close
  BY <1>42, Outside DEF Close, At, Goto
<1>43. CASE CloseJoin
  BY <1>43, Outside DEF CloseJoin, At, Goto
<1>44. CASE CloseFlush
  BY <1>44, Outside DEF CloseFlush, At, BeginFlush, Goto
<1>45. CASE FlushDrainJpeg
  BY <1>45, Outside DEF FlushDrainJpeg, At, GotoWith, Goto
<1>46. CASE FlushLock
  BY <1>46, Outside DEF FlushLock, At, Goto
<1>47. CASE CancelPicture
  BY <1>47, Outside DEF CancelPicture, At
<1>48. CASE PictureCancelled
  BY <1>48, Outside DEF PictureCancelled, At, Goto
<1>49. CASE FlushStopPreview
  BY <1>49, Outside DEF FlushStopPreview, At, Goto
<1>50. CASE FlushCollect
  BY <1>50, Outside DEF FlushCollect, At, Goto
<1>51. CASE FlushResults
  BY <1>51, Outside DEF FlushResults, At, Goto
<1>52. CASE FlushResultIdle
  BY <1>52, Outside DEF FlushResultIdle, At, GotoWith, Goto
<1>53. CASE FlushEnd
  BY <1>53, Outside DEF FlushEnd, At, Goto
<1>54. CASE CloseEnd
  BY <1>54, Outside DEF CloseEnd, At
<1>55. ASSUME NEW t \in Threads, FailLook(t) PROVE TakeStep
  BY <1>55, Outside DEF FailLook
<1>56. ASSUME NEW t \in Threads, FailReturn(t) PROVE TakeStep
  BY <1>56, Outside DEF FailReturn
<1>57. ASSUME NEW t \in Threads, FailStill(t) PROVE TakeStep
  BY <1>57, Outside DEF FailStill
<1> QED
  BY <1>1, <1>2, <1>3, <1>4, <1>5, <1>6, <1>7, <1>8, <1>9, <1>10, <1>11, <1>12, <1>13,
     <1>14, <1>15, <1>16, <1>17, <1>18, <1>19, <1>20, <1>21, <1>22, <1>23, <1>24, <1>25,
     <1>26, <1>27, <1>28, <1>29, <1>30, <1>31, <1>32, <1>33, <1>34, <1>35, <1>36, <1>37,
     <1>38, <1>39, <1>40, <1>41, <1>42, <1>43, <1>44, <1>45, <1>46, <1>47, <1>48, <1>49,
     <1>50, <1>51, <1>52, <1>53, <1>54, <1>55, <1>56, <1>57
     DEF SessionStep

LEMMA EarlySteps ==
  ASSUME Types, ControlInv, SessionStep
  PROVE  EarlyStep
<1>1. WayShortens /\ ScheduleStep
  BY WayGetsShorter, ScheduleSteps
<1>2. \A r \in Requests : r < next => r # next
  BY Asking, RequestsAreNat DEF Types
<1> QED
  BY <1>1, <1>2 DEF EarlyStep, Early, WayShortens, ScheduleStep

(* A still that is late stays so; the one that waits in pendingJpeg_ is.      *)
LEMMA LateStays ==
  ASSUME Types, ControlInv, SessionTypes', SessionStep
  PROVE  \A r \in Requests : StillIsLate(r) => StillIsLate(r)'
<1>1. EarlyStep /\ scenario' = scenario /\ next <= next'
  BY EarlySteps, ScenarioConstant, OwnedShrinks DEF ScenarioStays, OwnedShrink
<1>2. next \in Nat /\ next' \in Nat /\ \A r \in Requests : r \in Nat
  BY Asking, RequestsAreNat DEF SessionTypes, Types
<1> QED
  BY <1>1, <1>2 DEF StillIsLate, EarlyStep, Outputs

LEMMA PendingIsLate ==
  ASSUME NEW r \in Requests
  PROVE  /\ OnePlace /\ pendingJpeg = r => ~Early(r)
         /\ OnePlace' /\ pendingJpeg' = r => ~Early(r)'
<1>1. {"asked", "queued", "dequeued", "recording", "recorded", "completed", "delivered", "pending"} \subseteq Places
  BY DEF Places, Stages
<1>2. ASSUME OnePlace, pendingJpeg = r PROVE ~Early(r)
  <2>1. \A p \in Places : Place(p, r) => p = "pending"
    BY <1>1, <1>2 DEF OnePlace, Place
  <2> QED
    BY <1>1, <2>1 DEF Early, OnTheWay, Place
<1>3. ASSUME OnePlace', pendingJpeg' = r PROVE ~Early(r)'
  <2>1. \A p \in Places : Place(p, r)' => p = "pending"
    BY <1>1, <1>3 DEF OnePlace, Place
  <2> QED
    BY <1>1, <2>1 DEF Early, OnTheWay, Place
<1> QED
  BY <1>2, <1>3

LEMMA LateTakeKept ==
  ASSUME Types, ControlInv, PlacedAreAccepted, WorkerAccepted, OwnedAsked, OnePlace, LateTake,
         SessionTypes', SessionStep
  PROVE  LateTake'
<1> USE DEF Types, ControlTypes
<1>1. \A r \in Requests : StillIsLate(r) => StillIsLate(r)'
  BY LateStays
<1>2. CASE pc["picture"] # "off" \/ job["worker"] # None
  BY <1>1, <1>2 DEF LateTake
<1>3. CASE TakePictureCheck /\ job'["worker"] = pendingJpeg /\ pendingJpeg # None
  <2>1. PICK r \in Requests : r = pendingJpeg
    BY <1>3 DEF SlotTypes
  <2>2. r < next /\ "jpeg" \in Outputs[r]
    <3>1. "jpeg" \in owned[r]
      BY <1>3, <2>1, Outside DEF TakePictureCheck, GotoWith, JobType, Threads
    <3> QED
      BY <2>1, <3>1, Outside, AcceptedPlaces DEF OwnedAsked
  <2>3. StillIsLate(r)
    BY <2>1, <2>2, PendingIsLate DEF StillIsLate
  <2> QED
    BY <1>1, <2>3 DEF LateTake
<1>4. CASE pc'["picture"] = "off" /\ job'["worker"] = None
  BY <1>4 DEF LateTake
<1> QED
  BY <1>2, <1>3, <1>4, TakeSteps DEF TakeStep

LEMMA ChangedStaying ==
  ASSUME Types, ControlInv, CallsInv, GenerationsPast, SessionStep
  PROVE  ChangedStays
<1> USE DEF Types, ControlTypes, PcType, JobType, Threads, SessionTypes, TaskTypes,
   FrameTypes, GenerationType, GenerationsPast, CallsInv, FlushWork, ControlInv,
   FlusherOK, Entering, Changed, InTransition, Current, ChangedStays
<1>1. CASE \/ RejectRawRequest \/ UpdateBackendParameters \/ Reserve \/ Enqueue
           \/ PostRequest \/ PopTask \/ StartPreviewCheck \/ StartPreview
           \/ TakePictureCheck \/ TakePictureFence \/ TakePicture \/ PictureStart
           \/ FinishWorker \/ TakePictureFinished \/ TakePictureClear
           \/ RestartAfterFailure \/ NextNativeFrame \/ DrainPreview \/ DequeuePreview
           \/ SourceFence \/ SourceFenceTimeout \/ DequeueRecheck \/ CopyPreview
           \/ BlitPop \/ BlitComplete \/ BlitRequeue \/ ResultPop \/ Deliver
           \/ ScheduleJpeg \/ PostTakePicture \/ PictureThread \/ PictureTaken
           \/ DataCallback \/ HandleJpeg \/ HandleJpegCheck \/ SendJpeg \/ RestartCheck
           \/ RestartPreview \/ FinishCallback \/ CloseJoin \/ FlushDrainJpeg
           \/ FlushLock \/ CancelPicture \/ PictureCancelled \/ FlushStopPreview
           \/ FlushCollect \/ FlushResults \/ FlushResultIdle \/ FlushFail \/ CloseEnd
           \/ Stutter
  <2>1. UNCHANGED <<sessionGeneration, closing, flushing, generation>>
    BY <1>1
       DEF RejectRawRequest, session, UpdateBackendParameters, Reserve, Enqueue,
          NeedsOrderedPreviewCapture, PostRequest, PopTask, StartPreviewCheck,
          StartPreview, TakePictureCheck, TakePictureFence, TakePicture, PictureStart,
          FinishWorker, TakePictureFinished, TakePictureClear, RestartAfterFailure,
          NextNativeFrame, DrainPreview, DequeuePreview, SourceFence,
          SourceFenceTimeout, DequeueRecheck, CopyPreview, BlitPop, BlitComplete,
          BlitRequeue, ResultPop, Deliver, ScheduleJpeg, PostTakePicture, PictureThread,
          PictureTaken, DataCallback, HandleJpeg, HandleJpegCheck, SendJpeg,
          RestartCheck, RestartPreview, FinishCallback, CloseJoin, FlushDrainJpeg,
          FlushLock, CancelPicture, PictureCancelled, FlushStopPreview, FlushCollect,
          FlushResults, FlushResultIdle, FlushFail, CloseEnd, Stutter, vars
  <2> QED
    BY <2>1
<1>2. CASE AcceptRequest
  <2>1. pc["framework"] = "idle"
    BY <1>2 DEF AcceptRequest, At
  <2> QED
    BY <2>1
<1>3. CASE Flush
  <2>1. sessionGeneration' = sessionGeneration + 1 /\ UNCHANGED generation
        /\ (flushing' \/ closing')
    BY <1>3 DEF Flush, BeginFlush
  <2> QED
    BY <2>1
<1>4. CASE Close
  <2>1. sessionGeneration' = sessionGeneration + 1 /\ UNCHANGED generation
        /\ (flushing' \/ closing')
    BY <1>4 DEF Close, BeginFlush
  <2> QED
    BY <2>1
<1>5. CASE CloseFlush
  <2>1. sessionGeneration' = sessionGeneration + 1 /\ UNCHANGED generation
        /\ (flushing' \/ closing')
    BY <1>5 DEF CloseFlush, BeginFlush
  <2> QED
    BY <2>1
<1>6. CASE FlushEnd
  <2>1. pc["flusher"] = "fail" /\ UNCHANGED <<sessionGeneration, generation, closing>>
    BY <1>6 DEF FlushEnd, At
  <2> QED
    BY <2>1
<1>7. ASSUME NEW t \in Threads, FailLook(t) PROVE ChangedStays
  BY <1>7, Outside DEF FailLook, session
<1>8. ASSUME NEW t \in Threads, FailReturn(t) PROVE ChangedStays
  BY <1>8, Outside DEF FailReturn, session
<1>9. ASSUME NEW t \in Threads, FailStill(t) PROVE ChangedStays
  BY <1>9, Outside DEF FailStill, session
<1> QED
  BY <1>1, <1>2, <1>3, <1>4, <1>5, <1>6, <1>7, <1>8, <1>9 DEF SessionStep

LEMMA EnteringSteps ==
  ASSUME Types, ControlInv, SessionStep
  PROVE  EnteringStep
<1> USE DEF Types, ControlTypes, PcType, JobType, Threads, Entering, EnteringStep
<1>1. CASE \/ RejectRawRequest \/ FlushFail \/ Stutter
  <2>1. UNCHANGED <<pc, job>>
    BY <1>1 DEF RejectRawRequest, At, control, FlushFail, Stutter, vars
  <2> QED
    BY <2>1
<1>2. CASE AcceptRequest
  BY <1>2, Outside DEF AcceptRequest, At, GotoWith, Goto
<1>3. CASE UpdateBackendParameters
  BY <1>3, Outside DEF UpdateBackendParameters, At, Goto
<1>4. CASE Reserve
  <2>1. "jpeg" \in Outputs[job["framework"]] /\ pc'["framework"] = "enqueue" => stillQueued'
    BY <1>4 DEF Reserve, GotoWith, Goto
  <2>2. job'["framework"] \in {job["framework"], None}
    BY <1>4 DEF Reserve, GotoWith
  <2> QED
    BY <1>4, <2>1, <2>2, Outside
<1>5. CASE Enqueue
  BY <1>5, Outside DEF Enqueue, At, Goto, GotoWith, NeedsOrderedPreviewCapture
<1>6. CASE PostRequest
  BY <1>6, Outside DEF PostRequest, At, GotoWith, NeedsOrderedPreviewCapture, Goto
<1>7. CASE PopTask
  <2>1. pc' \in {[pc EXCEPT !["worker"] = w] : w \in {"exited", "idle", "start", "take"}}
    BY <1>7, TaskHeads DEF PopTask, Goto
  <2> QED
    BY <1>7, <2>1, Outside
       DEF PopTask, At
<1>8. CASE StartPreviewCheck
  BY <1>8, Outside DEF StartPreviewCheck, At, Goto
<1>9. CASE StartPreview
  <2>1. CASE pc' = [pc EXCEPT !["worker"] = "idle"] /\ UNCHANGED <<preview_enabled, node0>>
    BY <1>9, <2>1, Outside
       DEF StartPreview, At
  <2>2. CASE pc' = [pc EXCEPT !["worker"] = "idle", !["capture"] = "loop"]
             /\ preview_enabled' = TRUE /\ node0' = "preview" /\ ~preview_enabled
    BY <1>9, <2>2, Outside
       DEF StartPreview, At
  <2> QED
    BY <1>9, <2>1, <2>2 DEF StartPreview, Goto
<1>10. CASE TakePictureCheck
  BY <1>10, Outside DEF TakePictureCheck, At, GotoWith, Goto
<1>11. CASE TakePictureFence
  BY <1>11, Outside DEF TakePictureFence, At, Goto
<1>12. CASE TakePicture
  BY <1>12, Outside DEF TakePicture, At, Goto
<1>13. CASE PictureStart
  BY <1>13, Outside DEF PictureStart, At, Goto
<1>14. CASE FinishWorker
  BY <1>14, Outside DEF FinishWorker, At, Goto
<1>15. CASE TakePictureFinished
  BY <1>15, Outside DEF TakePictureFinished, At, Goto, GotoWith
<1>16. CASE TakePictureClear
  BY <1>16, Outside DEF TakePictureClear, At, GotoWith, Goto
<1>17. CASE RestartAfterFailure
  BY <1>17, Outside DEF RestartAfterFailure, At, Goto
<1>18. CASE NextNativeFrame
  BY <1>18, Outside DEF NextNativeFrame, At, Goto
<1>19. CASE DrainPreview
  BY <1>19, Outside DEF DrainPreview, At, Goto
<1>20. CASE DequeuePreview
  BY <1>20, Outside DEF DequeuePreview, At, GotoWith, Goto
<1>21. CASE SourceFence
  BY <1>21, Outside DEF SourceFence, At, Goto
<1>22. CASE SourceFenceTimeout
  BY <1>22, Outside DEF SourceFenceTimeout, At, GotoWith, Goto
<1>23. CASE DequeueRecheck
  BY <1>23, Outside DEF DequeueRecheck, At, Goto, GotoWith
<1>24. CASE CopyPreview
  BY <1>24, Outside DEF CopyPreview, At, GotoWith, VideoBlitRoom, Goto
<1>25. CASE BlitPop
  BY <1>25, Outside DEF BlitPop, At, GotoWith, Goto
<1>26. CASE BlitComplete
  BY <1>26, Outside DEF BlitComplete, At, GotoWith, Goto
<1>27. CASE BlitRequeue
  BY <1>27, Outside DEF BlitRequeue, At, Goto
<1>28. CASE ResultPop
  BY <1>28, Outside DEF ResultPop, At, GotoWith, Goto
<1>29. CASE Deliver
  BY <1>29, Outside DEF Deliver, At, Goto, GotoWith
<1>30. CASE ScheduleJpeg
  BY <1>30, Outside DEF ScheduleJpeg, At, Goto, GotoWith
<1>31. CASE PostTakePicture
  BY <1>31, Outside DEF PostTakePicture, At, GotoWith, Goto
<1>32. CASE PictureThread
  BY <1>32, Outside DEF PictureThread, At, Goto
<1>33. CASE PictureTaken
  BY <1>33, Outside DEF PictureTaken, At, Goto
<1>34. CASE DataCallback
  BY <1>34, Outside DEF DataCallback, At, Goto
<1>35. CASE HandleJpeg
  BY <1>35, Outside DEF HandleJpeg, At, GotoWith, Goto
<1>36. CASE HandleJpegCheck
  BY <1>36, Outside DEF HandleJpegCheck, At, Goto
<1>37. CASE SendJpeg
  BY <1>37, Outside DEF SendJpeg, At, Goto
<1>38. CASE RestartCheck
  BY <1>38, Outside DEF RestartCheck, At, Goto
<1>39. CASE RestartPreview
  BY <1>39, Outside DEF RestartPreview, At, Goto
<1>40. CASE FinishCallback
  BY <1>40, Outside DEF FinishCallback, At, GotoWith, Goto
<1>41. CASE Flush
  BY <1>41, Outside DEF Flush, At, BeginFlush, Goto
<1>42. CASE Close
  BY <1>42, Outside DEF Close, At, Goto
<1>43. CASE CloseJoin
  BY <1>43, Outside DEF CloseJoin, At, Goto
<1>44. CASE CloseFlush
  BY <1>44, Outside DEF CloseFlush, At, BeginFlush, Goto
<1>45. CASE FlushDrainJpeg
  BY <1>45, Outside DEF FlushDrainJpeg, At, GotoWith, Goto
<1>46. CASE FlushLock
  BY <1>46, Outside DEF FlushLock, At, Goto
<1>47. CASE CancelPicture
  BY <1>47, Outside DEF CancelPicture, At
<1>48. CASE PictureCancelled
  BY <1>48, Outside DEF PictureCancelled, At, Goto
<1>49. CASE FlushStopPreview
  BY <1>49, Outside DEF FlushStopPreview, At, Goto
<1>50. CASE FlushCollect
  BY <1>50, Outside DEF FlushCollect, At, Goto
<1>51. CASE FlushResults
  BY <1>51, Outside DEF FlushResults, At, Goto
<1>52. CASE FlushResultIdle
  BY <1>52, Outside DEF FlushResultIdle, At, GotoWith, Goto
<1>53. CASE FlushEnd
  BY <1>53, Outside DEF FlushEnd, At, Goto
<1>54. CASE CloseEnd
  BY <1>54, Outside DEF CloseEnd, At
<1>55. ASSUME NEW t \in Threads, FailLook(t) PROVE EnteringStep
  BY <1>55, Outside DEF FailLook
<1>56. ASSUME NEW t \in Threads, FailReturn(t) PROVE EnteringStep
  BY <1>56, Outside DEF FailReturn
<1>57. ASSUME NEW t \in Threads, FailStill(t) PROVE EnteringStep
  BY <1>57, Outside DEF FailStill
<1> QED
  BY <1>1, <1>2, <1>3, <1>4, <1>5, <1>6, <1>7, <1>8, <1>9, <1>10, <1>11, <1>12, <1>13,
     <1>14, <1>15, <1>16, <1>17, <1>18, <1>19, <1>20, <1>21, <1>22, <1>23, <1>24, <1>25,
     <1>26, <1>27, <1>28, <1>29, <1>30, <1>31, <1>32, <1>33, <1>34, <1>35, <1>36, <1>37,
     <1>38, <1>39, <1>40, <1>41, <1>42, <1>43, <1>44, <1>45, <1>46, <1>47, <1>48, <1>49,
     <1>50, <1>51, <1>52, <1>53, <1>54, <1>55, <1>56, <1>57
     DEF SessionStep

LEMMA QueuedSteps ==
  ASSUME Types, ControlInv, SessionStep
  PROVE  QueuedStep
<1> USE DEF Types, ControlTypes, PcType, JobType, Threads, QueueTypes, Queued,
   QueuedStep
<1>1. CASE \/ RejectRawRequest \/ FlushFail \/ Stutter
  <2>1. UNCHANGED <<pc, job, pendingJpeg, previewQueue, resultQueue, videoBlitQueue>>
    BY <1>1
       DEF RejectRawRequest, At, control, preview, queues, still, FlushFail, Stutter,
          vars
  <2> QED
    BY <2>1
<1>2. CASE AcceptRequest
  BY <1>2, Outside DEF AcceptRequest, At, GotoWith, preview, queues, still, Goto
<1>3. CASE UpdateBackendParameters
  BY <1>3, Outside DEF UpdateBackendParameters, At, Goto, preview, queues, still
<1>4. CASE Reserve
  BY <1>4, Outside DEF Reserve, At, Goto, GotoWith, preview, queues
<1>5. CASE Enqueue
  <2>1. /\ pc["framework"] = "enqueue" /\ pc'["result"] = pc["result"]
        /\ \A u \in Threads \ {"framework"} : job'[u] = job[u]
        /\ UNCHANGED <<resultQueue, videoBlitQueue>>
    BY <1>5 DEF Enqueue, At, GotoWith, Goto, queues
  <2>2. PICK r \in Requests : r = job["framework"]
    BY <1>5, JobsAreRequests DEF Enqueue, At
  <2>3. CASE Changed(r)
    BY <1>5, <2>1, <2>2, <2>3 DEF Enqueue
  <2>4. CASE ~Changed(r)
    <3>1. previewQueue' \in {previewQueue, Append(previewQueue, r)} /\ pendingJpeg' \in {pendingJpeg, r}
      BY <1>5, <2>2, <2>4 DEF Enqueue
    <3>2. ToSet(Append(previewQueue, r)) = ToSet(previewQueue) \cup {r}
      BY <2>2, Appended
    <3> QED
      BY <1>5, <2>1, <2>2, <2>4, <3>1, <3>2 DEF Entering
  <2> QED
    BY <2>3, <2>4
<1>6. CASE PostRequest
  BY <1>6, Outside
     DEF PostRequest, At, GotoWith, NeedsOrderedPreviewCapture, preview, queues, still,
        Goto
<1>7. CASE PopTask
  <2>1. pc' \in {[pc EXCEPT !["worker"] = w] : w \in {"exited", "idle", "start", "take"}}
    BY <1>7, TaskHeads DEF PopTask, Goto
  <2> QED
    BY <1>7, <2>1, Outside
       DEF PopTask, At, preview, queues, still
<1>8. CASE StartPreviewCheck
  BY <1>8, Outside DEF StartPreviewCheck, At, Goto, preview, queues
<1>9. CASE StartPreview
  <2>1. CASE pc' = [pc EXCEPT !["worker"] = "idle"] /\ UNCHANGED <<preview_enabled, node0>>
    BY <1>9, <2>1, Outside
       DEF StartPreview, At, preview, queues, still
  <2>2. CASE pc' = [pc EXCEPT !["worker"] = "idle", !["capture"] = "loop"]
             /\ preview_enabled' = TRUE /\ node0' = "preview" /\ ~preview_enabled
    BY <1>9, <2>2, Outside
       DEF StartPreview, At, preview, queues, still
  <2> QED
    BY <1>9, <2>1, <2>2 DEF StartPreview, Goto
<1>10. CASE TakePictureCheck
  BY <1>10, Outside DEF TakePictureCheck, At, GotoWith, preview, queues, Goto
<1>11. CASE TakePictureFence
  BY <1>11, Outside DEF TakePictureFence, At, Goto, preview, queues, still
<1>12. CASE TakePicture
  BY <1>12, Outside DEF TakePicture, At, Goto, preview, queues, still
<1>13. CASE PictureStart
  BY <1>13, Outside DEF PictureStart, At, Goto, preview, queues, still
<1>14. CASE FinishWorker
  BY <1>14, Outside DEF FinishWorker, At, Goto, preview, queues, still
<1>15. CASE TakePictureFinished
  BY <1>15, Outside DEF TakePictureFinished, At, Goto, GotoWith, preview, queues, still
<1>16. CASE TakePictureClear
  BY <1>16, Outside DEF TakePictureClear, At, GotoWith, preview, queues, Goto
<1>17. CASE RestartAfterFailure
  BY <1>17, Outside DEF RestartAfterFailure, At, Goto, preview, queues, still
<1>18. CASE NextNativeFrame
  BY <1>18, Outside DEF NextNativeFrame, At, Goto, preview, queues, still
<1>19. CASE DrainPreview
  BY <1>19, Outside DEF DrainPreview, At, Goto, preview, queues, still
<1>20. CASE DequeuePreview
  <2>1. ToSet(previewQueue) = {Head(previewQueue)} \cup ToSet(Tail(previewQueue))
    BY <1>20, Split DEF DequeuePreview
  <2>2. /\ job' = [job EXCEPT !["capture"] = Head(previewQueue)] /\ previewQueue' = Tail(previewQueue)
        /\ UNCHANGED <<pendingJpeg, resultQueue, videoBlitQueue>> /\ \A u \in Threads \ {"capture"} : pc'[u] = pc[u]
    BY <1>20 DEF DequeuePreview, GotoWith, Goto, preview, queues, still
  <2> QED
    BY <2>1, <2>2
<1>21. CASE SourceFence
  BY <1>21, Outside DEF SourceFence, At, Goto, preview, queues, still
<1>22. CASE SourceFenceTimeout
  BY <1>22, Outside DEF SourceFenceTimeout, At, GotoWith, queues, Goto
<1>23. CASE DequeueRecheck
  <2>1. job["capture"] \in Requests
    BY <1>23, JobsAreRequests DEF DequeueRecheck, At
  <2>2. ToSet(<<job["capture"]>> \o previewQueue) = {job["capture"]} \cup ToSet(previewQueue)
    BY <2>1, PutFirst
  <2>3. /\ previewQueue' \in {previewQueue, <<job["capture"]>> \o previewQueue}
        /\ job' \in {job, [job EXCEPT !["capture"] = None]}
        /\ UNCHANGED <<pendingJpeg, resultQueue, videoBlitQueue>> /\ \A u \in Threads \ {"capture"} : pc'[u] = pc[u]
    BY <1>23 DEF DequeueRecheck, GotoWith, Goto, queues, preview, still
  <2> QED
    BY <2>2, <2>3, Outside
<1>24. CASE CopyPreview
  <2>1. job["capture"] \in Requests
    BY <1>24, JobsAreRequests DEF CopyPreview, At
  <2>2. /\ ToSet(Append(resultQueue, job["capture"])) = {job["capture"]} \cup ToSet(resultQueue)
        /\ ToSet(Append(videoBlitQueue, job["capture"])) = {job["capture"]} \cup ToSet(videoBlitQueue)
    BY <2>1, Appended
  <2>3. /\ resultQueue' \in {resultQueue, Append(resultQueue, job["capture"])}
        /\ videoBlitQueue' \in {videoBlitQueue, Append(videoBlitQueue, job["capture"])}
        /\ job' = [job EXCEPT !["capture"] = None]
        /\ UNCHANGED <<pendingJpeg, previewQueue>> /\ \A u \in Threads \ {"capture"} : pc'[u] = pc[u]
    BY <1>24 DEF CopyPreview, Complete, GotoWith, Goto, still
  <2> QED
    BY <2>2, <2>3, Outside
<1>25. CASE BlitPop
  <2>1. ToSet(videoBlitQueue) = {Head(videoBlitQueue)} \cup ToSet(Tail(videoBlitQueue))
    BY <1>25, Split DEF BlitPop
  <2>2. /\ job' = [job EXCEPT !["blit"] = Head(videoBlitQueue)] /\ videoBlitQueue' = Tail(videoBlitQueue)
        /\ UNCHANGED <<pendingJpeg, resultQueue, previewQueue>> /\ \A u \in Threads \ {"blit"} : pc'[u] = pc[u]
    BY <1>25 DEF BlitPop, GotoWith, Goto, preview, queues, still
  <2> QED
    BY <2>1, <2>2
<1>26. CASE BlitComplete
  <2>1. job["blit"] \in Requests
    BY <1>26, JobsAreRequests DEF BlitComplete, At
  <2>2. ToSet(Append(resultQueue, job["blit"])) = {job["blit"]} \cup ToSet(resultQueue)
    BY <2>1, Appended
  <2>3. /\ resultQueue' \in {resultQueue, Append(resultQueue, job["blit"])}
        /\ job' = [job EXCEPT !["blit"] = None]
        /\ UNCHANGED <<pendingJpeg, previewQueue, videoBlitQueue>> /\ \A u \in Threads \ {"blit"} : pc'[u] = pc[u]
    BY <1>26 DEF BlitComplete, Complete, GotoWith, Goto, still
  <2> QED
    BY <2>2, <2>3, Outside
<1>27. CASE BlitRequeue
  BY <1>27, Outside DEF BlitRequeue, At, Goto, preview, queues, still
<1>28. CASE ResultPop
  <2>1. ToSet(resultQueue) = {Head(resultQueue)} \cup ToSet(Tail(resultQueue))
    BY <1>28, Split DEF ResultPop
  <2>2. /\ job' = [job EXCEPT !["result"] = Head(resultQueue)] /\ resultQueue' = Tail(resultQueue)
        /\ UNCHANGED <<pendingJpeg, previewQueue, videoBlitQueue>> /\ \A u \in Threads \ {"result"} : pc'[u] = pc[u]
    BY <1>28 DEF ResultPop, GotoWith, Goto, preview, queues, still
  <2> QED
    BY <2>1, <2>2
<1>29. CASE Deliver
  BY <1>29, Outside DEF Deliver, At, Goto, GotoWith, preview, queues, still
<1>30. CASE ScheduleJpeg
  BY <1>30, Outside DEF ScheduleJpeg, At, Goto, GotoWith, preview, queues
<1>31. CASE PostTakePicture
  BY <1>31, Outside DEF PostTakePicture, At, GotoWith, preview, queues, still, Goto
<1>32. CASE PictureThread
  BY <1>32, Outside DEF PictureThread, At, Goto, preview, queues, still
<1>33. CASE PictureTaken
  BY <1>33, Outside DEF PictureTaken, At, Goto, preview, queues, still
<1>34. CASE DataCallback
  BY <1>34, Outside DEF DataCallback, At, Goto, preview, queues, still
<1>35. CASE HandleJpeg
  BY <1>35, Outside DEF HandleJpeg, At, GotoWith, preview, queues, Goto
<1>36. CASE HandleJpegCheck
  BY <1>36, Outside DEF HandleJpegCheck, At, Goto, preview, queues, still
<1>37. CASE SendJpeg
  BY <1>37, Outside DEF SendJpeg, At, Goto, preview, queues, still
<1>38. CASE RestartCheck
  BY <1>38, Outside DEF RestartCheck, At, Goto, preview, queues, still
<1>39. CASE RestartPreview
  BY <1>39, Outside DEF RestartPreview, At, Goto, preview, queues, still
<1>40. CASE FinishCallback
  BY <1>40, Outside DEF FinishCallback, At, GotoWith, preview, queues, still, Goto
<1>41. CASE Flush
  BY <1>41, Outside DEF Flush, At, BeginFlush, Goto, preview, queues
<1>42. CASE Close
  BY <1>42, Outside DEF Close, At, Goto, preview, queues
<1>43. CASE CloseJoin
  BY <1>43, Outside DEF CloseJoin, At, Goto, preview, queues, still
<1>44. CASE CloseFlush
  BY <1>44, Outside DEF CloseFlush, At, BeginFlush, Goto, preview, queues
<1>45. CASE FlushDrainJpeg
  <2>1. /\ \A u \in Threads \ {"flusher"} : job'[u] = job[u] /\ pc'[u] = pc[u]
        /\ previewQueue' = << >> /\ pendingJpeg' = None /\ UNCHANGED <<resultQueue, videoBlitQueue>>
    BY <1>45 DEF FlushDrainJpeg, GotoWith, Goto, queues
  <2> QED
    BY <2>1, EmptySequence, Outside
<1>46. CASE FlushLock
  BY <1>46, Outside DEF FlushLock, At, Goto, preview, queues, still
<1>47. CASE CancelPicture
  BY <1>47, Outside DEF CancelPicture, At, preview, queues, still
<1>48. CASE PictureCancelled
  BY <1>48, Outside DEF PictureCancelled, At, Goto, preview, queues, still
<1>49. CASE FlushStopPreview
  BY <1>49, Outside DEF FlushStopPreview, At, Goto, preview, queues, still
<1>50. CASE FlushCollect
  BY <1>50, Outside DEF FlushCollect, At, Goto, queues, still
<1>51. CASE FlushResults
  <2>1. /\ UNCHANGED job /\ pc' = [pc EXCEPT !["flusher"] = "resultIdle"]
        /\ resultQueue' = << >> /\ UNCHANGED <<pendingJpeg, previewQueue, videoBlitQueue>>
    BY <1>51 DEF FlushResults, Goto, preview, still
  <2> QED
    BY <2>1, EmptySequence
<1>52. CASE FlushResultIdle
  BY <1>52, Outside DEF FlushResultIdle, At, GotoWith, preview, queues, still, Goto
<1>53. CASE FlushEnd
  BY <1>53, Outside DEF FlushEnd, At, Goto, preview, queues
<1>54. CASE CloseEnd
  BY <1>54, Outside DEF CloseEnd, At, preview, queues, still
<1>55. ASSUME NEW t \in Threads, FailLook(t) PROVE QueuedStep
  BY <1>55, Outside DEF FailLook, preview, queues, still
<1>56. ASSUME NEW t \in Threads, FailReturn(t) PROVE QueuedStep
  BY <1>56, Outside DEF FailReturn, preview, queues, still
<1>57. ASSUME NEW t \in Threads, FailStill(t) PROVE QueuedStep
  BY <1>57, Outside DEF FailStill, preview, queues
<1> QED
  BY <1>1, <1>2, <1>3, <1>4, <1>5, <1>6, <1>7, <1>8, <1>9, <1>10, <1>11, <1>12, <1>13,
     <1>14, <1>15, <1>16, <1>17, <1>18, <1>19, <1>20, <1>21, <1>22, <1>23, <1>24, <1>25,
     <1>26, <1>27, <1>28, <1>29, <1>30, <1>31, <1>32, <1>33, <1>34, <1>35, <1>36, <1>37,
     <1>38, <1>39, <1>40, <1>41, <1>42, <1>43, <1>44, <1>45, <1>46, <1>47, <1>48, <1>49,
     <1>50, <1>51, <1>52, <1>53, <1>54, <1>55, <1>56, <1>57
     DEF SessionStep

LEMMA ReleaseSteps ==
  ASSUME SessionStep
  PROVE  stillQueued => stillQueued' \/ Releases
<1> USE DEF Releases
<1>1. CASE \/ RejectRawRequest \/ AcceptRequest \/ UpdateBackendParameters
           \/ PostRequest \/ PopTask \/ StartPreviewCheck \/ StartPreview
           \/ TakePictureCheck \/ TakePictureFence \/ TakePicture \/ PictureStart
           \/ FinishWorker \/ TakePictureFinished \/ RestartAfterFailure
           \/ NextNativeFrame \/ DrainPreview \/ DequeuePreview \/ SourceFence
           \/ DequeueRecheck \/ CopyPreview \/ BlitPop \/ BlitComplete \/ BlitRequeue
           \/ ResultPop \/ Deliver \/ ScheduleJpeg \/ PostTakePicture \/ PictureThread
           \/ PictureTaken \/ DataCallback \/ HandleJpegCheck \/ SendJpeg
           \/ RestartCheck \/ RestartPreview \/ FinishCallback \/ Flush \/ Close
           \/ CloseJoin \/ CloseFlush \/ FlushDrainJpeg \/ FlushLock \/ CancelPicture
           \/ PictureCancelled \/ FlushStopPreview \/ FlushCollect \/ FlushResults
           \/ FlushResultIdle \/ FlushFail \/ CloseEnd \/ Stutter
  <2>1. UNCHANGED <<stillQueued>>
    BY <1>1
       DEF RejectRawRequest, still, AcceptRequest, UpdateBackendParameters, PostRequest,
          NeedsOrderedPreviewCapture, PopTask, StartPreviewCheck, StartPreview,
          TakePictureCheck, TakePictureFence, TakePicture, PictureStart, FinishWorker,
          TakePictureFinished, RestartAfterFailure, NextNativeFrame, DrainPreview,
          DequeuePreview, SourceFence, DequeueRecheck, CopyPreview, BlitPop,
          BlitComplete, BlitRequeue, ResultPop, Deliver, ScheduleJpeg, PostTakePicture,
          PictureThread, PictureTaken, DataCallback, HandleJpegCheck, SendJpeg,
          RestartCheck, RestartPreview, FinishCallback, Flush, BeginFlush, Close,
          CloseJoin, CloseFlush, FlushDrainJpeg, FlushLock, CancelPicture,
          PictureCancelled, FlushStopPreview, FlushCollect, FlushResults,
          FlushResultIdle, FlushFail, CloseEnd, Stutter, vars
  <2> QED
    BY <2>1
<1>2. CASE Reserve
  BY <1>2 DEF Reserve
<1>3. CASE Enqueue
  BY <1>3
<1>4. CASE TakePictureClear
  BY <1>4
<1>5. CASE SourceFenceTimeout
  BY <1>5
<1>6. CASE HandleJpeg
  BY <1>6
<1>7. CASE FlushEnd
  BY <1>7
<1>8. ASSUME NEW t \in Threads, FailLook(t)
      PROVE  stillQueued => stillQueued' \/ Releases
  BY <1>8 DEF FailLook, still
<1>9. ASSUME NEW t \in Threads, FailReturn(t)
      PROVE  stillQueued => stillQueued' \/ Releases
  BY <1>9 DEF FailReturn, still
<1>10. ASSUME NEW t \in Threads, FailStill(t)
      PROVE  stillQueued => stillQueued' \/ Releases
  BY <1>10
<1> QED
  BY <1>1, <1>2, <1>3, <1>4, <1>5, <1>6, <1>7, <1>8, <1>9, <1>10 DEF SessionStep

LEMMA TheStill ==
  ASSUME SessionTypes, OneStillIn(scenario), NEW q \in Requests, NEW r \in Requests,
         q < next, r < next, "jpeg" \in Outputs[q], "jpeg" \in Outputs[r]
  PROVE  q = r
  BY AcceptedAsked DEF OneStillIn, Outputs

LEMMA QueuedPlaces ==
  ASSUME NEW r \in Requests
  PROVE  /\ Queued(r) \/ Entering(r) => \E p \in Places \ Failers :
              Place(p, r) /\ (p = "asked" => Entering(r))
         /\ Queued(r)' \/ Entering(r)' => \E p \in Places \ Failers :
              Place(p, r)' /\ (p = "asked" => Entering(r)')
<1>1. {"asked", "queued", "dequeued", "recording", "recorded", "completed", "delivered", "pending"}
      \subseteq Places \ Failers
  BY DEF Places, Stages, Failers, Threads
<1>2. ASSUME Queued(r) \/ Entering(r)
      PROVE  \E p \in {"asked", "queued", "dequeued", "recording", "recorded", "completed",
                       "delivered", "pending"} : Place(p, r) /\ (p = "asked" => Entering(r))
  BY <1>2 DEF Queued, Entering, Place
<1>3. ASSUME Queued(r)' \/ Entering(r)'
      PROVE  \E p \in {"asked", "queued", "dequeued", "recording", "recorded", "completed",
                       "delivered", "pending"} : Place(p, r)' /\ (p = "asked" => Entering(r)')
  BY <1>3 DEF Queued, Entering, Place
<1> QED
  BY <1>1, <1>2, <1>3

LEMMA ReservedKept ==
  ASSUME FlushInv, OnePlace', GenerationsPast, FailingAsked, WorkerStill, LateTake, Reserved, SessionStep
  PROVE  Reserved'
<1> USE DEF FlushInv, FramesInv
<1>1. scenario' = scenario /\ ChangedStays /\ QueuedStep /\ EnteringStep /\ EarlyStep
  BY ScenarioConstant, ChangedStaying, QueuedSteps, EnteringSteps, EarlySteps DEF ScenarioStays
<1> SUFFICES ASSUME OneStillIn(scenario), NEW r \in Requests, "jpeg" \in owned'[r], ~stillQueued',
                    Queued(r)' \/ (Entering(r)' /\ ~Changed(r)')
             PROVE  FALSE
  BY <1>1 DEF Reserved
<1>2. Queued(r) \/ (Entering(r) /\ ~Changed(r)) \/ (Reserve /\ ("jpeg" \in Outputs[r] => stillQueued'))
  BY <1>1 DEF QueuedStep, EnteringStep, ChangedStays
<1>3. ASSUME r < next, "jpeg" \in owned[r] PROVE "jpeg" \in Outputs[r]
  BY <1>3 DEF OwnedAsked
<1>4. CASE Reserve
  <2>1. "jpeg" \in owned[r] /\ r < next /\ ~stillQueued
    BY <1>4 DEF Reserve, frame, OwnedAsked
  <2> QED
    BY <1>2, <1>3, <1>4, <2>1 DEF Reserved
<1>5. CASE Queued(r) \/ (Entering(r) /\ ~Changed(r))
  <2>1. PICK p \in Places \ Failers : Place(p, r) /\ (p = "asked" => Entering(r))
    BY <1>5, QueuedPlaces
  <2>2. r < next
    BY <2>1 DEF PlacedAreAccepted
  <2>3. "jpeg" \in owned[r] /\ "jpeg" \in Outputs[r]
    BY <1>3, <2>2, OwnedShrinks DEF OwnedShrink
  <2>4. Releases
    BY <1>5, <2>3, ReleaseSteps DEF Reserved
  <2>5. PICK q \in Places \ Failers : Place(q, r)' /\ (q = "asked" => Entering(r)')
    BY QueuedPlaces
  <2>6. ASSUME NEW t \in Failers, Place(t, r)' PROVE FALSE
    BY <2>5, <2>6 DEF OnePlace, Places
  <2>7. \A f \in Requests : f < next /\ "jpeg" \in Outputs[f] => f = r
    BY <2>2, <2>3, TheStill DEF Types
  <2>8. ASSUME Enqueue PROVE FALSE
    <3>1. PICK f \in Requests : f = job["framework"] /\ f < next
      BY <2>8, JobsAreRequests, AcceptedPlaces DEF Enqueue, At, Types
    <3>2. Changed(f) /\ "jpeg" \in Outputs[f]
      <4>1. stillQueued
        BY <1>5, <2>3 DEF Reserved
      <4> QED
        BY <2>8, <3>1, <4>1 DEF Enqueue
    <3>3. Place("framework", f)'
      BY <2>8, <3>1, <3>2, EnqueueMoves DEF Moved
    <3> QED
      BY <2>6, <2>7, <3>1, <3>2, <3>3 DEF Failers, Threads
  <2>9. ASSUME SourceFenceTimeout PROVE FALSE
    <3>1. PICK f \in Requests : f = job["capture"]
      BY <2>9, JobsAreRequests DEF SourceFenceTimeout, At, Types
    <3>2. f < next
      BY <3>1 DEF Place, Places, Stages, PlacedAreAccepted
    <3>3. "jpeg" \in owned[f]
      <4>1. stillQueued
        BY <1>5, <2>3 DEF Reserved
      <4> QED
        BY <2>9, <3>1, <4>1 DEF SourceFenceTimeout
    <3>4. Place("capture", f)'
      BY <2>9, <3>1, SourceFenceTimeoutMoves DEF Moved
    <3> QED
      BY <2>6, <2>7, <3>2, <3>3, <3>4 DEF Failers, Threads, OwnedAsked
  <2>10. ASSUME TakePictureClear PROVE FALSE
    <3>1. pc["worker"] = "clearStill" /\ failing["worker"] = None
      BY <2>10 DEF TakePictureClear, At
    <3>2. job["worker"] \in Requests /\ job["worker"] < next /\ owned[job["worker"]] = {}
      BY <3>1, JobsAreRequests, Outside DEF FailedEmpty, WorkerAccepted, Types
    <3> QED
      BY <2>3, <2>7, <3>2, Outside DEF WorkerStill
  <2>11. ASSUME HandleJpeg PROVE FALSE
    <3>1. pc["picture"] # "off" /\ pendingJpeg' = None
      BY <2>11 DEF HandleJpeg, At
    <3>2. PICK f \in Requests : StillIsLate(f)
      BY <3>1 DEF LateTake
    <3>3. ~Early(r)
      BY <2>7, <3>2 DEF StillIsLate
    <3>4. Early(r)'
      BY <3>1, Outside DEF Queued, Entering, Early, OnTheWay
    <3> QED
      BY <1>1, <2>2, <3>3, <3>4 DEF EarlyStep
  <2>12. ASSUME FlushEnd PROVE FALSE
    <3>1. p = "asked"
      BY <2>1, <2>12, FlushedPlaces DEF Failers, Threads
    <3>2. ~Queued(r)
      <4>1. ASSUME Queued(r) PROVE FALSE
        <5>1. PICK x \in {"queued", "dequeued", "recording", "recorded", "completed", "delivered",
                          "pending"} : Place(x, r)
          BY <4>1 DEF Queued, Place
        <5>2. x \in Places /\ x # "asked"
          BY DEF Places, Stages
        <5> QED
          BY <2>1, <3>1, <5>1, <5>2 DEF OnePlace
      <4> QED
        BY <4>1
    <3>3. flushing
      BY <2>12 DEF FlushEnd, At, CallsInv, FlushWork
    <3> QED
      BY <1>5, <3>2, <3>3 DEF Changed, InTransition
  <2>13. ASSUME NEW t \in Threads, FailStill(t) PROVE FALSE
    <3>1. failing[t] # None /\ failing[t].step = "still"
      BY <2>13 DEF FailStill
    <3>2. /\ failing[t].frame \in Requests /\ failing[t].frame < next
          /\ "jpeg" \in Outputs[failing[t].frame] /\ owned[failing[t].frame] = {}
      BY <3>1, AcceptedPlaces DEF FailingAsked, FailedEmpty
    <3> QED
      BY <2>3, <2>7, <3>2
  <2> QED
    BY <2>4, <2>8, <2>9, <2>10, <2>11, <2>12, <2>13 DEF Releases
<1> QED
  BY <1>2, <1>4, <1>5

(* The inductive invariant of the still.                                    *)
StillInv ==
  /\ FlushInv /\ GenerationsPast /\ FailingAsked /\ WorkerStill /\ LateTake /\ Reserved

LEMMA StillInit == Init => StillInv
<1> SUFFICES ASSUME Init PROVE StillInv
  OBVIOUS
<1>1. FlushInv
  BY FlushInit
<1>2. GenerationsPast /\ FailingAsked /\ WorkerStill /\ LateTake /\ Reserved
  BY DEF Init, GenerationsPast, FailingAsked, WorkerStill, LateTake, Reserved, Threads
<1> QED
  BY <1>1, <1>2 DEF StillInv

LEMMA StillNext == StillInv /\ [Next]_vars => StillInv'
<1> SUFFICES ASSUME StillInv, [Next]_vars PROVE StillInv'
  OBVIOUS
<1>1. FlushInv' /\ SessionStep
  BY FlushNext, Steps DEF StillInv
<1> USE DEF StillInv, FlushInv, FramesInv
<1>2. GenerationsPast'
  BY <1>1, GenerationsPastKept
<1>3. FailingAsked'
  BY <1>1, FailingAskedKept
<1>4. WorkerStill'
  BY <1>1, WorkerStillKept
<1>5. LateTake'
  BY <1>1, LateTakeKept DEF Types
<1>6. Reserved'
  BY <1>1, ReservedKept
<1> QED
  BY <1>1, <1>2, <1>3, <1>4, <1>5, <1>6

LEMMA StillAlways == Spec => []StillInv
<1> QED
  BY StillInit, StillNext, PTL DEF Spec

LEMMA StillsAreReserved ==
  ASSUME StillInv, OneStillIn(scenario)
  PROVE  ReservationsAreHeld
<1> USE DEF StillInv, FlushInv, FramesInv
<1>1. ASSUME NEW r \in Requests, "jpeg" \in owned[r],
             r \in inFlightPreview \/ r = pendingJpeg \/ r \in ToSet(resultQueue)
             \/ r \in ToSet(previewQueue)
      PROVE  stillQueued
  <2>1. Queued(r)
    BY <1>1 DEF InFlightOK, Queued
  <2> QED
    BY <1>1, <2>1 DEF Reserved
<1> QED
  BY <1>1 DEF ReservationsAreHeld, StillReserved

(* In sessions with one still at most, the reservation stands as long as the  *)
(* JPEG buffer is on its way, whoever fails, flushes or takes the picture     *)
(* meanwhile, and the scratch buffer is a frame's in flight                   *)
(* (processCaptureRequest, failFrame, handleJpeg).                            *)
THEOREM ReservationsHold ==
  ASSUME \A s \in Scenarios : OneStillIn(s)
  PROVE  Spec => []ReservationsAreHeld
<1>1. StillInv => ReservationsAreHeld
  BY StillsAreReserved DEF StillInv, FlushInv, FramesInv, Types, SessionTypes
<1> QED
  BY <1>1, StillAlways, PTL

-----------------------------------------------------------------------------
(* The one take of the still, from the thread that posts it to the stream on  *)
(* node 0.                                                                  *)

HasTake(tasks) == \E i \in DOMAIN tasks : tasks[i].task = "take"
OneTake(tasks) ==
  \A i, j \in DOMAIN tasks : tasks[i].task = "take" /\ tasks[j].task = "take" => i = j
OldTasks(tasks, g) == \A i \in DOMAIN tasks : tasks[i].gen <= g

LEMMA TakePosted ==
  ASSUME TaskTypes, NEW task \in {"start", "take", "exit"}, NEW g \in Nat, PostTask(task, g)
  PROVE  /\ HasTake(workerTasks') => HasTake(workerTasks) \/ task = "take"
         /\ OneTake(workerTasks) /\ (HasTake(workerTasks) => task # "take") => OneTake(workerTasks')
         /\ \A h \in Nat : g <= h /\ OldTasks(workerTasks, h) => OldTasks(workerTasks', h)
<1> DEFINE x == [task |-> task, gen |-> g]  s == workerTasks  n == Len(s)  a == Append(s, x)
<1>1. x \in Tasks /\ x.task = task /\ x.gen = g
  BY DEF Tasks
<1>2. /\ n \in Nat /\ DOMAIN a = 1..(n + 1) /\ DOMAIN s = 1..n /\ a[n + 1] = x
      /\ \A i \in 1..n : a[i] = s[i]
  BY <1>1, AppendProperties, LenProperties DEF TaskTypes
<1>3. \A i \in 1..(n + 1) : i \in 1..n \/ i = n + 1
  BY <1>2
<1>4. workerTasks' = s \/ workerTasks' = a
  BY DEF PostTask
<1> HIDE DEF x, a, n, s
<1>5. HasTake(a) => HasTake(s) \/ task = "take"
  BY <1>1, <1>2, <1>3 DEF HasTake
<1>6. ASSUME OneTake(s), HasTake(s) => task # "take" PROVE OneTake(a)
  <2> SUFFICES ASSUME NEW i \in 1..(n + 1), NEW j \in 1..(n + 1), a[i].task = "take", a[j].task = "take"
               PROVE  i = j
    BY <1>2 DEF OneTake
  <2>1. CASE task = "take"
    <3>1. \A k \in 1..n : a[k].task # "take"
      BY <1>2, <1>6, <2>1 DEF HasTake
    <3> QED
      BY <1>3, <3>1
  <2>2. CASE task # "take"
    <3>1. i \in 1..n /\ j \in 1..n
      BY <1>1, <1>2, <1>3, <2>2
    <3> QED
      BY <1>2, <1>6, <3>1 DEF OneTake
  <2> QED
    BY <2>1, <2>2
<1>7. \A h \in Nat : g <= h /\ OldTasks(s, h) => OldTasks(a, h)
  BY <1>1, <1>2, <1>3 DEF OldTasks
<1> QED
  BY <1>4, <1>5, <1>6, <1>7 DEF s

LEMMA TakePopped ==
  ASSUME TaskTypes, workerTasks # << >>
  PROVE  /\ HasTake(Tail(workerTasks)) => HasTake(workerTasks)
         /\ Head(workerTasks).task = "take" => HasTake(workerTasks)
         /\ OneTake(workerTasks) =>
              /\ OneTake(Tail(workerTasks))
              /\ Head(workerTasks).task = "take" => ~HasTake(Tail(workerTasks))
         /\ \A h \in Nat : OldTasks(workerTasks, h) =>
              OldTasks(Tail(workerTasks), h) /\ Head(workerTasks).gen <= h
<1> DEFINE s == workerTasks  t == Tail(s)  n == Len(s)
<1>1. n \in Nat /\ n > 0 /\ t \in Seq(Tasks) /\ Len(t) = n - 1 /\ Head(s) = s[1]
  BY HeadTailProperties, LenProperties, EmptySeq DEF TaskTypes
<1>2. DOMAIN s = 1..n /\ DOMAIN t = 1..(n - 1) /\ \A i \in 1..(n - 1) : t[i] = s[i + 1]
  BY <1>1, LenProperties DEF TaskTypes
<1>3. 1 \in 1..n /\ \A i \in 1..(n - 1) : i + 1 \in 1..n /\ i + 1 # 1
  BY <1>1
<1> HIDE DEF s, t, n
<1>4. HasTake(t) => HasTake(s)
  BY <1>2, <1>3 DEF HasTake
<1>5. Head(s).task = "take" => HasTake(s)
  BY <1>1, <1>2, <1>3 DEF HasTake
<1>6. ASSUME OneTake(s) PROVE OneTake(t) /\ (Head(s).task = "take" => ~HasTake(t))
  <2>1. ASSUME NEW i \in 1..(n - 1), NEW j \in 1..(n - 1), t[i].task = "take", t[j].task = "take"
        PROVE  i = j
    <3>1. i + 1 = j + 1
      BY <1>2, <1>3, <1>6, <2>1 DEF OneTake
    <3> QED
      BY <3>1
  <2>2. ASSUME Head(s).task = "take", NEW i \in 1..(n - 1), t[i].task = "take" PROVE FALSE
    BY <1>1, <1>2, <1>3, <1>6, <2>2 DEF OneTake
  <2> QED
    BY <1>2, <2>1, <2>2 DEF OneTake, HasTake
<1>7. \A h \in Nat : OldTasks(s, h) => OldTasks(t, h) /\ Head(s).gen <= h
  BY <1>1, <1>2, <1>3 DEF OldTasks
<1> QED
  BY <1>4, <1>5, <1>6, <1>7 DEF s, t

LEMMA TakeAlone ==
  ASSUME NEW x \in Tasks
  PROVE  /\ HasTake(<<x>>) => x.task = "take"
         /\ OneTake(<<x>>) /\ \A h \in Nat : x.gen <= h => OldTasks(<<x>>, h)
<1>1. DOMAIN <<x>> = {1} /\ <<x>>[1] = x
  OBVIOUS
<1> QED
  BY <1>1 DEF HasTake, OneTake, OldTasks

LEMMA TakesDropped ==
  ASSUME TaskTypes
  PROVE  /\ ~HasTake(Exits(workerTasks)) /\ OneTake(Exits(workerTasks))
         /\ \A h \in Nat : OldTasks(workerTasks, h) => OldTasks(Exits(workerTasks), h)
<1> DEFINE exits == { command \in ToSet(workerTasks) : command.task = "exit" }
<1>1. \A x \in exits : /\ x \in Tasks /\ x.task = "exit"
                       /\ \A h \in Nat : OldTasks(workerTasks, h) => x.gen <= h
  BY LenProperties, ElementOfSeq DEF TaskTypes, ToSet, OldTasks
<1>2. CASE exits = {}
  <2>1. Exits(workerTasks) = << >> /\ DOMAIN << >> = {}
    BY <1>2 DEF Exits
  <2> QED
    BY <2>1 DEF HasTake, OneTake, OldTasks
<1>3. CASE exits # {}
  <2> DEFINE e == CHOOSE command \in exits : TRUE
  <2>1. e \in exits
    BY <1>3
  <2>2. Exits(workerTasks) = <<e>>
    BY <1>3 DEF Exits
  <2> HIDE DEF e, exits
  <2> QED
    BY <1>1, <2>1, <2>2, TakeAlone
<1> QED
  BY <1>2, <1>3

(* Where the take can be: about to be posted by the result thread or by the   *)
(* framework, posted, at the worker, or with the sensor.                     *)
Take(n) ==
  \/ n = 1 /\ pc["result"] = "post"
  \/ n = 2 /\ pc["framework"] = "post" /\ ~HasSource
  \/ n = 3 /\ HasTake(workerTasks)
  \/ n = 4 /\ pc["worker"] \in {"take", "fence", "takePicture", "stopPreview"}
  \/ n = 5 /\ (pc["picture"] # "off" \/ node0 = "picture")
TakesApart == OneTake(workerTasks) /\ \A m, n \in 1..5 : Take(m) /\ Take(n) => m = n
TakeOnce == OneStillIn(scenario) =>
  TakesApart /\ \A n \in 1..5 : Take(n) => \E r \in Requests : StillIsLate(r)

(* What a step does of it.                                                  *)
NoNewTake == \A n \in 1..5 : Take(n)' => Take(n)
TakeGoesOn == \E m, n \in 1..5 :
  Take(m) /\ ~Take(m)' /\ \A k \in 1..5 : Take(k)' => k = n \/ Take(k)
TakeBegins == \E r \in Requests, n \in 1..5 :
  /\ Early(r) /\ r < next /\ "jpeg" \in Outputs[r] /\ pendingJpeg' = r /\ UNCHANGED <<workerTasks, next>>
  /\ \A k \in 1..5 : Take(k)' => k = n \/ Take(k)
TakesStep ==
  \/ OneTake(workerTasks') /\ (NoNewTake \/ TakeGoesOn)
  \/ TakeBegins

LEMMA TakesSteps ==
  ASSUME Types, ControlInv, PlacedAreAccepted, WorkerAccepted, ScheduledStill,
     ScenarioStays, TakesApart, SessionStep
  PROVE  TakesStep
<1> USE DEF Types, ControlTypes, PcType, Threads, ScenarioStays, HasSource, TakesApart,
   TakesStep, NoNewTake, Take
<1>1. CASE \/ RejectRawRequest \/ FlushFail \/ Stutter
  <2>1. UNCHANGED <<pc, workerTasks, node0>>
    BY <1>1 DEF RejectRawRequest, At, backend, control, FlushFail, Stutter, vars
  <2> QED
    BY <2>1
<1>2. CASE AcceptRequest
  BY <1>2, Outside DEF AcceptRequest, At, GotoWith, backend, Goto
<1>3. CASE UpdateBackendParameters
  BY <1>3, Outside DEF UpdateBackendParameters, At, Goto, backend
<1>4. CASE Reserve
  BY <1>4, Outside DEF Reserve, At, Goto, GotoWith, backend
<1>5. CASE Enqueue
  <2>1. PICK r \in Requests : r = job["framework"] /\ r < next
    BY <1>5, JobsAreRequests, AcceptedPlaces DEF Enqueue, At
  <2>2. ~HasSource => ~NeedsOrderedPreviewCapture(r)
    BY <2>1, AcceptedAsked, ScenarioAssumption DEF Outputs, NeedsOrderedPreviewCapture, SessionTypes
  <2>3. ~NeedsOrderedPreviewCapture(r) => "jpeg" \in Outputs[r]
    BY DEF NeedsOrderedPreviewCapture
  <2>4. /\ pc' \in {[pc EXCEPT !["framework"] = "idle"], [pc EXCEPT !["framework"] = "post"]}
        /\ UNCHANGED <<node0, workerTasks, next>>
        /\ pc'["framework"] = "post" => pendingJpeg' = IF NeedsOrderedPreviewCapture(r) THEN pendingJpeg ELSE r
        /\ Early(r)
    BY <1>5, <2>1 DEF Enqueue, At, Goto, GotoWith, backend, Early, OnTheWay
  <2>5. CASE pc'["framework"] = "post" /\ ~HasSource
    <3>1. \A k \in 1..5 : Take(k)' => k = 2 \/ Take(k)
      BY <2>4
    <3> QED
      BY <2>1, <2>2, <2>3, <2>4, <2>5, <3>1 DEF TakeBegins
  <2>6. CASE ~(pc'["framework"] = "post" /\ ~HasSource)
    BY <2>4, <2>6
  <2> QED
    BY <2>5, <2>6
<1>6. CASE PostRequest
  <2>1. PICK r \in Requests : r = job["framework"]
    BY <1>6, JobsAreRequests DEF PostRequest, At
  <2>2. generation[r] \in Nat
    BY <2>1 DEF FrameTypes, GenerationType
  <2>3. PostTask(IF NeedsOrderedPreviewCapture(r) THEN "start" ELSE "take", generation[r])
    BY <1>6, <2>1 DEF PostRequest
  <2>4. pc' = [pc EXCEPT !["framework"] = "idle"] /\ UNCHANGED node0
    BY <1>6 DEF PostRequest, GotoWith, Goto, backend
  <2>5. CASE NeedsOrderedPreviewCapture(r)
    <3>1. (HasTake(workerTasks') => HasTake(workerTasks)) /\ OneTake(workerTasks')
      BY <2>2, <2>3, <2>5, TakePosted
    <3>2. NoNewTake
      BY <2>4, <3>1
    <3> QED
      BY <3>1, <3>2
  <2>6. CASE ~NeedsOrderedPreviewCapture(r)
    <3>1. Take(2) /\ ~Take(3)
      BY <1>6, <2>6 DEF PostRequest, At, NeedsOrderedPreviewCapture
    <3>2. OneTake(workerTasks')
      BY <2>2, <2>3, <2>6, <3>1, TakePosted
    <3>3. ~Take(2)' /\ \A k \in 1..5 : Take(k)' => k = 3 \/ Take(k)
      BY <2>4
    <3> QED
      BY <3>1, <3>2, <3>3 DEF TakeGoesOn
  <2> QED
    BY <2>5, <2>6
<1>7. CASE PopTask
  <2>1. /\ workerTasks # << >> /\ workerTasks' = Tail(workerTasks) /\ UNCHANGED node0
        /\ pc["worker"] = "idle"
        /\ \E w \in {"exited", "idle", "start", "take"} :
             pc' = [pc EXCEPT !["worker"] = w] /\ (w = "take" => Head(workerTasks).task = "take")
    BY <1>7, TaskHeads DEF PopTask, Goto, At, backend
  <2>2. OneTake(workerTasks') /\ (Head(workerTasks).task = "take" => Take(3) /\ ~Take(3)')
    BY <2>1, TakePopped
  <2>3. HasTake(workerTasks') => HasTake(workerTasks)
    BY <2>1, TakePopped
  <2>4. CASE pc'["worker"] = "take"
    <3>1. \A k \in 1..5 : Take(k)' => k = 4 \/ Take(k)
      BY <2>1, <2>3
    <3>2. Take(3) /\ ~Take(3)'
      BY <2>1, <2>2, <2>4
    <3> QED
      BY <2>2, <3>1, <3>2 DEF TakeGoesOn
  <2>5. CASE pc'["worker"] # "take"
    <3>1. NoNewTake
      BY <2>1, <2>3, <2>5
    <3> QED
      BY <2>2, <3>1
  <2> QED
    BY <2>4, <2>5
<1>8. CASE StartPreviewCheck
  BY <1>8, Outside DEF StartPreviewCheck, At, Goto, backend
<1>9. CASE StartPreview
  <2>1. CASE pc' = [pc EXCEPT !["worker"] = "idle"] /\ UNCHANGED <<preview_enabled, node0>>
    BY <1>9, <2>1, Outside
       DEF StartPreview, At
  <2>2. CASE pc' = [pc EXCEPT !["worker"] = "idle", !["capture"] = "loop"]
             /\ preview_enabled' = TRUE /\ node0' = "preview" /\ ~preview_enabled
    BY <1>9, <2>2, Outside
       DEF StartPreview, At
  <2> QED
    BY <1>9, <2>1, <2>2 DEF StartPreview, Goto
<1>10. CASE TakePictureCheck
  BY <1>10, Outside DEF TakePictureCheck, At, GotoWith, backend, Goto
<1>11. CASE TakePictureFence
  BY <1>11, Outside DEF TakePictureFence, At, Goto, backend
<1>12. CASE TakePicture
  BY <1>12, Outside DEF TakePicture, At, Goto
<1>13. CASE PictureStart
  <2>1. /\ Take(4) /\ UNCHANGED workerTasks
        /\ \/ pc' = [pc EXCEPT !["worker"] = "finish", !["picture"] = "started"]
           \/ pc' = [pc EXCEPT !["worker"] = "finish"]
    BY <1>13 DEF PictureStart, At, Goto
  <2>2. ~Take(4)' /\ \A k \in 1..5 : Take(k)' => k = 5 \/ Take(k)
    BY <2>1
  <2> QED
    BY <2>1, <2>2 DEF TakeGoesOn
<1>14. CASE FinishWorker
  BY <1>14, Outside DEF FinishWorker, At, Goto, backend
<1>15. CASE TakePictureFinished
  BY <1>15, Outside DEF TakePictureFinished, At, Goto, GotoWith, backend
<1>16. CASE TakePictureClear
  BY <1>16, Outside DEF TakePictureClear, At, GotoWith, backend, Goto
<1>17. CASE RestartAfterFailure
  <2>1. taskGeneration \in Nat
    BY <1>17, JobsAreRequests DEF RestartAfterFailure, At, TaskTypes
  <2>2. /\ HasTake(workerTasks') => HasTake(workerTasks)
        /\ OneTake(workerTasks')
    BY <1>17, <2>1, TakePosted DEF RestartAfterFailure
  <2>3. pc' = [pc EXCEPT !["worker"] = "idle"] /\ UNCHANGED node0 /\ pc["picture"] # "idle"
    BY <1>17 DEF RestartAfterFailure, Goto, backend, ControlInv, PictureOK, Calling
  <2>4. NoNewTake
    BY <1>17, <2>2, <2>3 DEF RestartAfterFailure, At
  <2> QED
    BY <2>2, <2>4
<1>18. CASE NextNativeFrame
  BY <1>18, Outside DEF NextNativeFrame, At, Goto
<1>19. CASE DrainPreview
  BY <1>19, Outside DEF DrainPreview, At, Goto, backend
<1>20. CASE DequeuePreview
  BY <1>20, Outside DEF DequeuePreview, At, GotoWith, backend, Goto
<1>21. CASE SourceFence
  BY <1>21, Outside DEF SourceFence, At, Goto, backend
<1>22. CASE SourceFenceTimeout
  BY <1>22, Outside DEF SourceFenceTimeout, At, GotoWith, backend, Goto
<1>23. CASE DequeueRecheck
  BY <1>23, Outside DEF DequeueRecheck, At, Goto, GotoWith, backend
<1>24. CASE CopyPreview
  BY <1>24, Outside DEF CopyPreview, At, GotoWith, VideoBlitRoom, backend, Goto
<1>25. CASE BlitPop
  BY <1>25, Outside DEF BlitPop, At, GotoWith, backend, Goto
<1>26. CASE BlitComplete
  BY <1>26, Outside DEF BlitComplete, At, GotoWith, backend, Goto
<1>27. CASE BlitRequeue
  BY <1>27, Outside DEF BlitRequeue, At, Goto, backend
<1>28. CASE ResultPop
  BY <1>28, Outside DEF ResultPop, At, GotoWith, backend, Goto
<1>29. CASE Deliver
  BY <1>29, Outside DEF Deliver, At, Goto, GotoWith, backend
<1>30. CASE ScheduleJpeg
  <2>1. PICK r \in Requests : r = job["result"]
    BY <1>30, JobsAreRequests DEF ScheduleJpeg, At
  <2>2. r < next
    BY <1>30, <2>1, AcceptedPlaces DEF ScheduleJpeg, At, JpegTurn
  <2>3. /\ pc' \in {[pc EXCEPT !["result"] = "idle"], [pc EXCEPT !["result"] = "post"]}
        /\ UNCHANGED <<node0, workerTasks, next>> /\ Early(r) /\ "jpeg" \in Outputs[r]
        /\ pc'["result"] = "post" => pendingJpeg' = r
    BY <1>30, <2>1 DEF ScheduleJpeg, At, Goto, GotoWith, backend, Early, ScheduledStill
  <2>4. CASE pc'["result"] = "post"
    <3>1. \A k \in 1..5 : Take(k)' => k = 1 \/ Take(k)
      BY <2>3
    <3> QED
      BY <2>2, <2>3, <2>4, <3>1 DEF TakeBegins
  <2>5. CASE pc'["result"] # "post"
    BY <2>3, <2>5
  <2> QED
    BY <2>4, <2>5
<1>31. CASE PostTakePicture
  <2>1. generation[job["result"]] \in Nat
    BY <1>31, JobsAreRequests DEF PostTakePicture, At, FrameTypes, GenerationType
  <2>2. Take(1) /\ ~Take(3)
    BY <1>31 DEF PostTakePicture, At
  <2>3. OneTake(workerTasks')
    BY <1>31, <2>1, <2>2, TakePosted DEF PostTakePicture
  <2>4. pc' = [pc EXCEPT !["result"] = "idle"] /\ UNCHANGED node0
    BY <1>31 DEF PostTakePicture, GotoWith, Goto, backend
  <2>5. ~Take(1)' /\ \A k \in 1..5 : Take(k)' => k = 3 \/ Take(k)
    BY <2>4
  <2> QED
    BY <2>2, <2>3, <2>5 DEF TakeGoesOn
<1>32. CASE PictureThread
  BY <1>32, Outside DEF PictureThread, At, Goto, backend
<1>33. CASE PictureTaken
  BY <1>33, Outside DEF PictureTaken, At, Goto
<1>34. CASE DataCallback
  BY <1>34, Outside DEF DataCallback, At, Goto, backend
<1>35. CASE HandleJpeg
  BY <1>35, Outside DEF HandleJpeg, At, GotoWith, backend, Goto
<1>36. CASE HandleJpegCheck
  BY <1>36, Outside DEF HandleJpegCheck, At, Goto, backend
<1>37. CASE SendJpeg
  BY <1>37, Outside DEF SendJpeg, At, Goto, backend
<1>38. CASE RestartCheck
  BY <1>38, Outside DEF RestartCheck, At, Goto, backend
<1>39. CASE RestartPreview
  <2>1. generation[job["picture"]] \in Nat
    BY <1>39, JobsAreRequests DEF RestartPreview, At, FrameTypes, GenerationType
  <2>2. /\ HasTake(workerTasks') => HasTake(workerTasks)
        /\ OneTake(workerTasks')
    BY <1>39, <2>1, TakePosted DEF RestartPreview
  <2>3. pc' = [pc EXCEPT !["picture"] = "finish"] /\ UNCHANGED node0 /\ pc["picture"] # "idle"
    BY <1>39 DEF RestartPreview, Goto, backend, ControlInv, PictureOK, Calling
  <2>4. NoNewTake
    BY <1>39, <2>2, <2>3 DEF RestartPreview, At
  <2> QED
    BY <2>2, <2>4
<1>40. CASE FinishCallback
  BY <1>40, Outside DEF FinishCallback, At, GotoWith, backend, Goto
<1>41. CASE Flush
  BY <1>41, Outside DEF Flush, At, BeginFlush, backend, Goto
<1>42. CASE Close
  <2>1. PICK x \in Tasks : x.task = "exit" /\ workerTasks' = <<x>>
    <3>1. [task |-> "exit", gen |-> sessionGeneration + 1] \in Tasks
      BY DEF TaskTypes, Tasks
    <3> QED
      BY <1>42, <3>1 DEF Close
  <2>2. ~HasTake(workerTasks') /\ OneTake(workerTasks')
    BY <2>1, TakeAlone
  <2>3. pc' = [pc EXCEPT !["flusher"] = "join"] /\ UNCHANGED node0
    BY <1>42 DEF Close, Goto, backend
  <2> QED
    BY <2>2, <2>3
<1>43. CASE CloseJoin
  BY <1>43, Outside DEF CloseJoin, At, Goto
<1>44. CASE CloseFlush
  BY <1>44, Outside DEF CloseFlush, At, BeginFlush, backend, Goto
<1>45. CASE FlushDrainJpeg
  <2>1. ~HasTake(workerTasks') /\ OneTake(workerTasks')
    BY <1>45, TakesDropped DEF FlushDrainJpeg
  <2>2. pc' = [pc EXCEPT !["flusher"] = "lock"] /\ UNCHANGED node0
    BY <1>45 DEF FlushDrainJpeg, GotoWith, Goto, backend
  <2> QED
    BY <2>1, <2>2
<1>46. CASE FlushLock
  BY <1>46, Outside DEF FlushLock, At, Goto, backend
<1>47. CASE CancelPicture
  BY <1>47, Outside DEF CancelPicture, At, backend
<1>48. CASE PictureCancelled
  BY <1>48, Outside DEF PictureCancelled, At, Goto
<1>49. CASE FlushStopPreview
  BY <1>49, Outside DEF FlushStopPreview, At, Goto, Node0AfterStop
<1>50. CASE FlushCollect
  BY <1>50, Outside DEF FlushCollect, At, Goto, backend
<1>51. CASE FlushResults
  BY <1>51, Outside DEF FlushResults, At, Goto, backend
<1>52. CASE FlushResultIdle
  BY <1>52, Outside DEF FlushResultIdle, At, GotoWith, backend, Goto
<1>53. CASE FlushEnd
  BY <1>53, Outside DEF FlushEnd, At, Goto, backend
<1>54. CASE CloseEnd
  BY <1>54, Outside DEF CloseEnd, At
<1>55. ASSUME NEW t \in Threads, FailLook(t) PROVE TakesStep
  BY <1>55, Outside DEF FailLook, backend
<1>56. ASSUME NEW t \in Threads, FailReturn(t) PROVE TakesStep
  BY <1>56, Outside DEF FailReturn, backend
<1>57. ASSUME NEW t \in Threads, FailStill(t) PROVE TakesStep
  BY <1>57, Outside DEF FailStill, backend
<1> QED
  BY <1>1, <1>2, <1>3, <1>4, <1>5, <1>6, <1>7, <1>8, <1>9, <1>10, <1>11, <1>12, <1>13,
     <1>14, <1>15, <1>16, <1>17, <1>18, <1>19, <1>20, <1>21, <1>22, <1>23, <1>24, <1>25,
     <1>26, <1>27, <1>28, <1>29, <1>30, <1>31, <1>32, <1>33, <1>34, <1>35, <1>36, <1>37,
     <1>38, <1>39, <1>40, <1>41, <1>42, <1>43, <1>44, <1>45, <1>46, <1>47, <1>48, <1>49,
     <1>50, <1>51, <1>52, <1>53, <1>54, <1>55, <1>56, <1>57
     DEF SessionStep

LEMMA TakeOnceKept ==
  ASSUME Types, ControlInv, PlacedAreAccepted, WorkerAccepted, ScheduledStill, TakeOnce,
         SessionTypes', OnePlace', SessionStep
  PROVE  TakeOnce'
<1>1. scenario' = scenario /\ ScenarioStays /\ next \in Nat
  BY ScenarioConstant, Asking DEF ScenarioStays, Types
<1> SUFFICES ASSUME OneStillIn(scenario)
             PROVE  TakesApart' /\ \A n \in 1..5 : Take(n)' => \E r \in Requests : StillIsLate(r)'
  BY <1>1 DEF TakeOnce
<1>2. TakesApart /\ \A n \in 1..5 : Take(n) => \E r \in Requests : StillIsLate(r)
  BY DEF TakeOnce
<1>3. \A r \in Requests : StillIsLate(r) => StillIsLate(r)'
  BY LateStays
<1>4. TakesStep
  BY <1>1, <1>2, TakesSteps
<1>5. CASE OneTake(workerTasks') /\ NoNewTake
  BY <1>2, <1>3, <1>5 DEF NoNewTake, TakesApart
<1>6. CASE OneTake(workerTasks') /\ TakeGoesOn
  <2>1. PICK m, n \in 1..5 :
          Take(m) /\ ~Take(m)' /\ \A k \in 1..5 : Take(k)' => k = n \/ Take(k)
    BY <1>6 DEF TakeGoesOn
  <2>2. \A k \in 1..5 : Take(k) => k = m
    BY <1>2, <2>1 DEF TakesApart
  <2>3. \A k \in 1..5 : Take(k)' => k = n
    BY <2>1, <2>2
  <2> QED
    BY <1>2, <1>3, <1>6, <2>1, <2>3 DEF TakesApart
<1>7. CASE TakeBegins
  <2>1. PICK r \in Requests, n \in 1..5 :
          /\ Early(r) /\ r < next /\ "jpeg" \in Outputs[r] /\ pendingJpeg' = r
          /\ UNCHANGED <<workerTasks, next>>
          /\ \A k \in 1..5 : Take(k)' => k = n \/ Take(k)
    BY <1>7 DEF TakeBegins
  <2>2. \A q \in Requests : ~StillIsLate(q)
    <3> SUFFICES ASSUME NEW q \in Requests, StillIsLate(q) PROVE FALSE
      OBVIOUS
    <3>1. q = r
      BY <2>1, TheStill DEF StillIsLate, Types
    <3> QED
      BY <2>1, <3>1 DEF StillIsLate
  <2>3. \A k \in 1..5 : ~Take(k)
    BY <1>2, <2>2
  <2>4. StillIsLate(r)'
    BY <1>1, <2>1, PendingIsLate DEF StillIsLate, Outputs
  <2> QED
    BY <1>2, <2>1, <2>3, <2>4 DEF TakesApart
<1> QED
  BY <1>4, <1>5, <1>6, <1>7 DEF TakesStep

(* The worker's still, as long as no picture thread has been created for it.  *)
Unsent ==
  \/ pc["worker"] \in {"fence", "takePicture", "stopPreview", "clearStill"}
  \/ pc["worker"] \in {"finish", "finished"} /\ rc # "ok"
WithoutPicture == OneStillIn(scenario) => (Unsent => pc["picture"] = "off")
UnsentStep ==
  Unsent' =>
    \/ Unsent /\ job'["worker"] = job["worker"] /\ (pc["picture"] = "off" => pc'["picture"] = "off")
    \/ /\ TakePictureCheck /\ pc["worker"] = "take" /\ pc'["picture"] = pc["picture"]
       /\ job'["worker"] = pendingJpeg /\ pendingJpeg \in Requests

LEMMA UnsentSteps ==
  ASSUME Types, ControlInv, SessionStep
  PROVE  UnsentStep
<1> USE DEF Types, ControlTypes, PcType, JobType, Threads, Unsent, UnsentStep
<1>1. CASE \/ RejectRawRequest \/ FlushFail \/ Stutter
  <2>1. UNCHANGED <<pc, job, rc>>
    BY <1>1 DEF RejectRawRequest, At, control, worker, FlushFail, Stutter, vars
  <2> QED
    BY <2>1
<1>2. CASE AcceptRequest
  BY <1>2, Outside DEF AcceptRequest, At, GotoWith, worker, Goto
<1>3. CASE UpdateBackendParameters
  BY <1>3, Outside DEF UpdateBackendParameters, At, Goto, worker
<1>4. CASE Reserve
  BY <1>4, Outside DEF Reserve, At, Goto, GotoWith, worker
<1>5. CASE Enqueue
  BY <1>5, Outside DEF Enqueue, At, Goto, GotoWith, NeedsOrderedPreviewCapture, worker
<1>6. CASE PostRequest
  BY <1>6, Outside DEF PostRequest, At, GotoWith, NeedsOrderedPreviewCapture, worker, Goto
<1>7. CASE PopTask
  <2>1. pc' \in {[pc EXCEPT !["worker"] = w] : w \in {"exited", "idle", "start", "take"}}
    BY <1>7, TaskHeads DEF PopTask, Goto
  <2> QED
    BY <1>7, <2>1, Outside
       DEF PopTask, At
<1>8. CASE StartPreviewCheck
  BY <1>8, Outside DEF StartPreviewCheck, At, Goto, worker
<1>9. CASE StartPreview
  <2>1. CASE pc' = [pc EXCEPT !["worker"] = "idle"] /\ UNCHANGED <<preview_enabled, node0>>
    BY <1>9, <2>1, Outside
       DEF StartPreview, At
  <2>2. CASE pc' = [pc EXCEPT !["worker"] = "idle", !["capture"] = "loop"]
             /\ preview_enabled' = TRUE /\ node0' = "preview" /\ ~preview_enabled
    BY <1>9, <2>2, Outside
       DEF StartPreview, At
  <2> QED
    BY <1>9, <2>1, <2>2 DEF StartPreview, Goto
<1>10. CASE TakePictureCheck
  <2>1. pc["worker"] = "take" /\ (pc' = [pc EXCEPT !["worker"] = "fence"] \/ pc' = [pc EXCEPT !["worker"] = "idle"])
        /\ (pc'["worker"] = "fence" => job'["worker"] = pendingJpeg /\ pendingJpeg # None)
    BY <1>10 DEF TakePictureCheck, At, GotoWith, Goto
  <2> QED
    BY <1>10, <2>1 DEF SlotTypes
<1>11. CASE TakePictureFence
  BY <1>11, Outside DEF TakePictureFence, At, Goto
<1>12. CASE TakePicture
  BY <1>12, Outside DEF TakePicture, At, Goto
<1>13. CASE PictureStart
  BY <1>13, Outside DEF PictureStart, At, Goto
<1>14. CASE FinishWorker
  BY <1>14, Outside DEF FinishWorker, At, Goto, worker
<1>15. CASE TakePictureFinished
  BY <1>15, Outside DEF TakePictureFinished, At, Goto, GotoWith, worker
<1>16. CASE TakePictureClear
  BY <1>16, Outside DEF TakePictureClear, At, GotoWith, worker, Goto
<1>17. CASE RestartAfterFailure
  BY <1>17, Outside DEF RestartAfterFailure, At, Goto, worker
<1>18. CASE NextNativeFrame
  BY <1>18, Outside DEF NextNativeFrame, At, Goto, worker
<1>19. CASE DrainPreview
  BY <1>19, Outside DEF DrainPreview, At, Goto, worker
<1>20. CASE DequeuePreview
  BY <1>20, Outside DEF DequeuePreview, At, GotoWith, worker, Goto
<1>21. CASE SourceFence
  BY <1>21, Outside DEF SourceFence, At, Goto, worker
<1>22. CASE SourceFenceTimeout
  BY <1>22, Outside DEF SourceFenceTimeout, At, GotoWith, worker, Goto
<1>23. CASE DequeueRecheck
  BY <1>23, Outside DEF DequeueRecheck, At, Goto, GotoWith, worker
<1>24. CASE CopyPreview
  BY <1>24, Outside DEF CopyPreview, At, GotoWith, VideoBlitRoom, worker, Goto
<1>25. CASE BlitPop
  BY <1>25, Outside DEF BlitPop, At, GotoWith, worker, Goto
<1>26. CASE BlitComplete
  BY <1>26, Outside DEF BlitComplete, At, GotoWith, worker, Goto
<1>27. CASE BlitRequeue
  BY <1>27, Outside DEF BlitRequeue, At, Goto, worker
<1>28. CASE ResultPop
  BY <1>28, Outside DEF ResultPop, At, GotoWith, worker, Goto
<1>29. CASE Deliver
  BY <1>29, Outside DEF Deliver, At, Goto, GotoWith, worker
<1>30. CASE ScheduleJpeg
  BY <1>30, Outside DEF ScheduleJpeg, At, Goto, GotoWith, worker
<1>31. CASE PostTakePicture
  BY <1>31, Outside DEF PostTakePicture, At, GotoWith, worker, Goto
<1>32. CASE PictureThread
  BY <1>32, Outside DEF PictureThread, At, Goto, worker
<1>33. CASE PictureTaken
  BY <1>33, Outside DEF PictureTaken, At, Goto, worker
<1>34. CASE DataCallback
  BY <1>34, Outside DEF DataCallback, At, Goto, worker
<1>35. CASE HandleJpeg
  BY <1>35, Outside DEF HandleJpeg, At, GotoWith, worker, Goto
<1>36. CASE HandleJpegCheck
  BY <1>36, Outside DEF HandleJpegCheck, At, Goto, worker
<1>37. CASE SendJpeg
  BY <1>37, Outside DEF SendJpeg, At, Goto, worker
<1>38. CASE RestartCheck
  BY <1>38, Outside DEF RestartCheck, At, Goto, worker
<1>39. CASE RestartPreview
  BY <1>39, Outside DEF RestartPreview, At, Goto, worker
<1>40. CASE FinishCallback
  BY <1>40, Outside DEF FinishCallback, At, GotoWith, worker, Goto
<1>41. CASE Flush
  BY <1>41, Outside DEF Flush, At, BeginFlush, Goto, worker
<1>42. CASE Close
  BY <1>42, Outside DEF Close, At, Goto, worker
<1>43. CASE CloseJoin
  BY <1>43, Outside DEF CloseJoin, At, Goto, worker
<1>44. CASE CloseFlush
  BY <1>44, Outside DEF CloseFlush, At, BeginFlush, Goto, worker
<1>45. CASE FlushDrainJpeg
  BY <1>45, Outside DEF FlushDrainJpeg, At, GotoWith, worker, Goto
<1>46. CASE FlushLock
  BY <1>46, Outside DEF FlushLock, At, Goto, worker
<1>47. CASE CancelPicture
  BY <1>47, Outside DEF CancelPicture, At, worker
<1>48. CASE PictureCancelled
  BY <1>48, Outside DEF PictureCancelled, At, Goto, worker
<1>49. CASE FlushStopPreview
  BY <1>49, Outside DEF FlushStopPreview, At, Goto, worker
<1>50. CASE FlushCollect
  BY <1>50, Outside DEF FlushCollect, At, Goto, worker
<1>51. CASE FlushResults
  BY <1>51, Outside DEF FlushResults, At, Goto, worker
<1>52. CASE FlushResultIdle
  BY <1>52, Outside DEF FlushResultIdle, At, GotoWith, worker, Goto
<1>53. CASE FlushEnd
  BY <1>53, Outside DEF FlushEnd, At, Goto, worker
<1>54. CASE CloseEnd
  BY <1>54, Outside DEF CloseEnd, At, worker
<1>55. ASSUME NEW t \in Threads, FailLook(t) PROVE UnsentStep
  BY <1>55, Outside DEF FailLook, worker
<1>56. ASSUME NEW t \in Threads, FailReturn(t) PROVE UnsentStep
  BY <1>56, Outside DEF FailReturn, worker
<1>57. ASSUME NEW t \in Threads, FailStill(t) PROVE UnsentStep
  BY <1>57, Outside DEF FailStill, worker
<1> QED
  BY <1>1, <1>2, <1>3, <1>4, <1>5, <1>6, <1>7, <1>8, <1>9, <1>10, <1>11, <1>12, <1>13,
     <1>14, <1>15, <1>16, <1>17, <1>18, <1>19, <1>20, <1>21, <1>22, <1>23, <1>24, <1>25,
     <1>26, <1>27, <1>28, <1>29, <1>30, <1>31, <1>32, <1>33, <1>34, <1>35, <1>36, <1>37,
     <1>38, <1>39, <1>40, <1>41, <1>42, <1>43, <1>44, <1>45, <1>46, <1>47, <1>48, <1>49,
     <1>50, <1>51, <1>52, <1>53, <1>54, <1>55, <1>56, <1>57
     DEF SessionStep

LEMMA WithoutPictureKept ==
  ASSUME Types, ControlInv, TakeOnce, WithoutPicture, SessionStep
  PROVE  WithoutPicture'
<1>1. scenario' = scenario /\ UnsentStep
  BY ScenarioConstant, UnsentSteps DEF ScenarioStays
<1> SUFFICES ASSUME OneStillIn(scenario), Unsent' PROVE pc'["picture"] = "off"
  BY <1>1 DEF WithoutPicture
<1>2. CASE Unsent
  BY <1>1, <1>2 DEF UnsentStep, WithoutPicture
<1>3. CASE pc["worker"] = "take" /\ pc'["picture"] = pc["picture"]
  <2>1. Take(4) /\ (pc["picture"] # "off" => Take(5))
    BY <1>3 DEF Take
  <2> QED
    BY <1>3, <2>1 DEF TakeOnce, TakesApart
<1> QED
  BY <1>1, <1>2, <1>3 DEF UnsentStep

(* The tasks are no younger than the session.                                *)
TaskGenerations == OldTasks(workerTasks, sessionGeneration) /\ taskGeneration <= sessionGeneration

LEMMA TaskGenerationsKept ==
  ASSUME Types, ControlInv, GenerationsPast, TaskGenerations, SessionStep
  PROVE  TaskGenerations'
<1> USE DEF Types, ControlTypes, JobType, Threads, TaskTypes, TaskGenerations
<1>1. CASE \/ RejectRawRequest \/ AcceptRequest \/ UpdateBackendParameters \/ Reserve
           \/ Enqueue \/ StartPreviewCheck \/ StartPreview \/ TakePictureCheck
           \/ TakePictureFence \/ TakePicture \/ PictureStart \/ FinishWorker
           \/ TakePictureFinished \/ TakePictureClear \/ NextNativeFrame \/ DrainPreview
           \/ DequeuePreview \/ SourceFence \/ SourceFenceTimeout \/ DequeueRecheck
           \/ CopyPreview \/ BlitPop \/ BlitComplete \/ BlitRequeue \/ ResultPop
           \/ Deliver \/ ScheduleJpeg \/ PictureThread \/ PictureTaken \/ DataCallback
           \/ HandleJpeg \/ HandleJpegCheck \/ SendJpeg \/ RestartCheck
           \/ FinishCallback \/ CloseJoin \/ FlushLock \/ CancelPicture
           \/ PictureCancelled \/ FlushStopPreview \/ FlushCollect \/ FlushResults
           \/ FlushResultIdle \/ FlushFail \/ FlushEnd \/ CloseEnd \/ Stutter
  <2>1. UNCHANGED <<sessionGeneration, workerTasks, taskGeneration>>
    BY <1>1
       DEF RejectRawRequest, session, worker, AcceptRequest, UpdateBackendParameters,
          Reserve, Enqueue, NeedsOrderedPreviewCapture, StartPreviewCheck, StartPreview,
          TakePictureCheck, TakePictureFence, TakePicture, PictureStart, FinishWorker,
          TakePictureFinished, TakePictureClear, NextNativeFrame, DrainPreview,
          DequeuePreview, SourceFence, SourceFenceTimeout, DequeueRecheck, CopyPreview,
          BlitPop, BlitComplete, BlitRequeue, ResultPop, Deliver, ScheduleJpeg,
          PictureThread, PictureTaken, DataCallback, HandleJpeg, HandleJpegCheck,
          SendJpeg, RestartCheck, FinishCallback, CloseJoin, FlushLock, CancelPicture,
          PictureCancelled, FlushStopPreview, FlushCollect, FlushResults,
          FlushResultIdle, FlushFail, FlushEnd, CloseEnd, Stutter, vars
  <2> QED
    BY <2>1
<1>2. CASE PostRequest
  <2>1. generation[job["framework"]] \in Nat /\ generation[job["framework"]] <= sessionGeneration /\ sessionGeneration \in Nat
    BY <1>2, JobsAreRequests DEF PostRequest, At, FrameTypes, GenerationType, GenerationsPast
  <2>2. PostTask(IF NeedsOrderedPreviewCapture(job["framework"]) THEN "start" ELSE "take", generation[job["framework"]]) /\ UNCHANGED <<sessionGeneration, taskGeneration>>
    BY <1>2 DEF PostRequest, session, worker
  <2>3. OldTasks(workerTasks', sessionGeneration)
    BY <2>1, <2>2, TakePosted
  <2> QED
    BY <2>2, <2>3
<1>3. CASE PopTask
  <2>1. OldTasks(Tail(workerTasks), sessionGeneration) /\ Head(workerTasks).gen <= sessionGeneration
    BY <1>3, TakePopped DEF PopTask
  <2> QED
    BY <1>3, <2>1 DEF PopTask, session
<1>4. CASE RestartAfterFailure
  <2>1. taskGeneration \in Nat /\ taskGeneration <= sessionGeneration /\ sessionGeneration \in Nat
    BY <1>4, JobsAreRequests DEF RestartAfterFailure, At
  <2>2. PostTask("start", taskGeneration) /\ UNCHANGED <<sessionGeneration, taskGeneration>>
    BY <1>4 DEF RestartAfterFailure, session, worker
  <2>3. OldTasks(workerTasks', sessionGeneration)
    BY <2>1, <2>2, TakePosted
  <2> QED
    BY <2>2, <2>3
<1>5. CASE PostTakePicture
  <2>1. generation[job["result"]] \in Nat /\ generation[job["result"]] <= sessionGeneration /\ sessionGeneration \in Nat
    BY <1>5, JobsAreRequests DEF PostTakePicture, At, FrameTypes, GenerationType, GenerationsPast
  <2>2. PostTask("take", generation[job["result"]]) /\ UNCHANGED <<sessionGeneration, taskGeneration>>
    BY <1>5 DEF PostTakePicture, session, worker
  <2>3. OldTasks(workerTasks', sessionGeneration)
    BY <2>1, <2>2, TakePosted
  <2> QED
    BY <2>2, <2>3
<1>6. CASE RestartPreview
  <2>1. generation[job["picture"]] \in Nat /\ generation[job["picture"]] <= sessionGeneration /\ sessionGeneration \in Nat
    BY <1>6, JobsAreRequests DEF RestartPreview, At, FrameTypes, GenerationType, GenerationsPast
  <2>2. PostTask("start", generation[job["picture"]]) /\ UNCHANGED <<sessionGeneration, taskGeneration>>
    BY <1>6 DEF RestartPreview, session, worker
  <2>3. OldTasks(workerTasks', sessionGeneration)
    BY <2>1, <2>2, TakePosted
  <2> QED
    BY <2>2, <2>3
<1>7. CASE Flush
  <2>1. sessionGeneration' = sessionGeneration + 1 /\ UNCHANGED <<workerTasks, taskGeneration>>
    BY <1>7 DEF Flush, BeginFlush, worker
  <2>2. \A i \in DOMAIN workerTasks : workerTasks[i].gen \in Nat
    <3>1. \A i \in DOMAIN workerTasks : workerTasks[i] \in Tasks
      BY LenProperties, ElementOfSeq
    <3> QED
      BY <3>1 DEF Tasks
  <2> QED
    BY <2>1, <2>2 DEF OldTasks
<1>8. CASE Close
  <2>1. [task |-> "exit", gen |-> sessionGeneration + 1] \in Tasks
    BY DEF Tasks
  <2>2. OldTasks(<<[task |-> "exit", gen |-> sessionGeneration + 1]>>, sessionGeneration + 1)
    BY <2>1, TakeAlone
  <2>3. /\ sessionGeneration' = sessionGeneration + 1 /\ UNCHANGED taskGeneration
        /\ workerTasks' = <<[task |-> "exit", gen |-> sessionGeneration + 1]>>
    BY <1>8 DEF Close, worker
  <2> QED
    BY <2>2, <2>3
<1>9. CASE CloseFlush
  <2>1. sessionGeneration' = sessionGeneration + 1 /\ UNCHANGED <<workerTasks, taskGeneration>>
    BY <1>9 DEF CloseFlush, BeginFlush, worker
  <2>2. \A i \in DOMAIN workerTasks : workerTasks[i].gen \in Nat
    <3>1. \A i \in DOMAIN workerTasks : workerTasks[i] \in Tasks
      BY LenProperties, ElementOfSeq
    <3> QED
      BY <3>1 DEF Tasks
  <2> QED
    BY <2>1, <2>2 DEF OldTasks
<1>10. CASE FlushDrainJpeg
  <2>1. OldTasks(Exits(workerTasks), sessionGeneration)
    BY TakesDropped
  <2> QED
    BY <1>10, <2>1 DEF FlushDrainJpeg, session, worker
<1>11. ASSUME NEW t \in Threads, FailLook(t) PROVE TaskGenerations'
  BY <1>11 DEF FailLook, session, worker
<1>12. ASSUME NEW t \in Threads, FailReturn(t) PROVE TaskGenerations'
  BY <1>12 DEF FailReturn, session, worker
<1>13. ASSUME NEW t \in Threads, FailStill(t) PROVE TaskGenerations'
  BY <1>13 DEF FailStill, session, worker
<1> QED
  BY <1>1, <1>2, <1>3, <1>4, <1>5, <1>6, <1>7, <1>8, <1>9, <1>10, <1>11, <1>12, <1>13
     DEF SessionStep

LEMMA GenerationsGrow ==
  ASSUME SessionStep
  PROVE  sessionGeneration \in Nat => sessionGeneration <= sessionGeneration'
<1>1. CASE \/ RejectRawRequest \/ AcceptRequest \/ UpdateBackendParameters \/ Reserve
           \/ Enqueue \/ PostRequest \/ PopTask \/ StartPreviewCheck \/ StartPreview
           \/ TakePictureCheck \/ TakePictureFence \/ TakePicture \/ PictureStart
           \/ FinishWorker \/ TakePictureFinished \/ TakePictureClear
           \/ RestartAfterFailure \/ NextNativeFrame \/ DrainPreview \/ DequeuePreview
           \/ SourceFence \/ SourceFenceTimeout \/ DequeueRecheck \/ CopyPreview
           \/ BlitPop \/ BlitComplete \/ BlitRequeue \/ ResultPop \/ Deliver
           \/ ScheduleJpeg \/ PostTakePicture \/ PictureThread \/ PictureTaken
           \/ DataCallback \/ HandleJpeg \/ HandleJpegCheck \/ SendJpeg \/ RestartCheck
           \/ RestartPreview \/ FinishCallback \/ CloseJoin \/ FlushDrainJpeg
           \/ FlushLock \/ CancelPicture \/ PictureCancelled \/ FlushStopPreview
           \/ FlushCollect \/ FlushResults \/ FlushResultIdle \/ FlushFail \/ FlushEnd
           \/ CloseEnd \/ Stutter
  <2>1. UNCHANGED <<sessionGeneration>>
    BY <1>1
       DEF RejectRawRequest, session, AcceptRequest, UpdateBackendParameters, Reserve,
          Enqueue, NeedsOrderedPreviewCapture, PostRequest, PopTask, StartPreviewCheck,
          StartPreview, TakePictureCheck, TakePictureFence, TakePicture, PictureStart,
          FinishWorker, TakePictureFinished, TakePictureClear, RestartAfterFailure,
          NextNativeFrame, DrainPreview, DequeuePreview, SourceFence,
          SourceFenceTimeout, DequeueRecheck, CopyPreview, BlitPop, BlitComplete,
          BlitRequeue, ResultPop, Deliver, ScheduleJpeg, PostTakePicture, PictureThread,
          PictureTaken, DataCallback, HandleJpeg, HandleJpegCheck, SendJpeg,
          RestartCheck, RestartPreview, FinishCallback, CloseJoin, FlushDrainJpeg,
          FlushLock, CancelPicture, PictureCancelled, FlushStopPreview, FlushCollect,
          FlushResults, FlushResultIdle, FlushFail, FlushEnd, CloseEnd, Stutter, vars
  <2> QED
    BY <2>1
<1>2. CASE Flush
  <2>1. sessionGeneration' = sessionGeneration + 1
    BY <1>2 DEF Flush, BeginFlush
  <2> QED
    BY <2>1
<1>3. CASE Close
  <2>1. sessionGeneration' = sessionGeneration + 1
    BY <1>3 DEF Close, BeginFlush
  <2> QED
    BY <2>1
<1>4. CASE CloseFlush
  <2>1. sessionGeneration' = sessionGeneration + 1
    BY <1>4 DEF CloseFlush, BeginFlush
  <2> QED
    BY <2>1
<1>5. ASSUME NEW t \in Threads, FailLook(t)
      PROVE  sessionGeneration \in Nat => sessionGeneration <= sessionGeneration'
  BY <1>5 DEF FailLook, session
<1>6. ASSUME NEW t \in Threads, FailReturn(t)
      PROVE  sessionGeneration \in Nat => sessionGeneration <= sessionGeneration'
  BY <1>6 DEF FailReturn, session
<1>7. ASSUME NEW t \in Threads, FailStill(t)
      PROVE  sessionGeneration \in Nat => sessionGeneration <= sessionGeneration'
  BY <1>7 DEF FailStill, session
<1> QED
  BY <1>1, <1>2, <1>3, <1>4, <1>5, <1>6, <1>7 DEF SessionStep

(* Unless its fence or its take fails the worker never fails its still; at    *)
(* most it finds its session gone.                                          *)
FaultFree == OneStillIn(scenario) /\ Faults \cap {"fence", "take"} = {} =>
  /\ pc["worker"] # "clearStill"
  /\ pc["worker"] \in {"finish", "finished"} =>
       rc = "ok" \/ (rc = "failed" /\ taskGeneration < sessionGeneration)
WorkerGoes ==
  /\ pc'["worker"] \in {"finish", "finished"} =>
       \/ pc["worker"] \in {"finish", "finished"} /\ UNCHANGED <<rc, taskGeneration>>
       \/ TakePictureFence \/ TakePicture \/ PictureStart
  /\ pc'["worker"] = "clearStill" => pc["worker"] = "clearStill" \/ TakePictureFinished

LEMMA WorkerGoing ==
  ASSUME Types, ControlInv, SessionStep
  PROVE  WorkerGoes
<1> USE DEF Types, ControlTypes, PcType, JobType, Threads, WorkerGoes
<1>1. CASE \/ RejectRawRequest \/ FlushFail \/ Stutter
  <2>1. UNCHANGED <<pc, taskGeneration, rc>>
    BY <1>1 DEF RejectRawRequest, At, control, worker, FlushFail, Stutter, vars
  <2> QED
    BY <2>1
<1>2. CASE AcceptRequest
  BY <1>2, Outside DEF AcceptRequest, At, GotoWith, worker, Goto
<1>3. CASE UpdateBackendParameters
  BY <1>3, Outside DEF UpdateBackendParameters, At, Goto, worker
<1>4. CASE Reserve
  BY <1>4, Outside DEF Reserve, At, Goto, GotoWith, worker
<1>5. CASE Enqueue
  BY <1>5, Outside DEF Enqueue, At, Goto, GotoWith, NeedsOrderedPreviewCapture, worker
<1>6. CASE PostRequest
  BY <1>6, Outside DEF PostRequest, At, GotoWith, NeedsOrderedPreviewCapture, worker, Goto
<1>7. CASE PopTask
  <2>1. pc' \in {[pc EXCEPT !["worker"] = w] : w \in {"exited", "idle", "start", "take"}}
    BY <1>7, TaskHeads DEF PopTask, Goto
  <2> QED
    BY <1>7, <2>1, Outside
       DEF PopTask, At, worker
<1>8. CASE StartPreviewCheck
  BY <1>8, Outside DEF StartPreviewCheck, At, Goto, worker
<1>9. CASE StartPreview
  <2>1. CASE pc' = [pc EXCEPT !["worker"] = "idle"] /\ UNCHANGED <<preview_enabled, node0>>
    BY <1>9, <2>1, Outside
       DEF StartPreview, At, worker
  <2>2. CASE pc' = [pc EXCEPT !["worker"] = "idle", !["capture"] = "loop"]
             /\ preview_enabled' = TRUE /\ node0' = "preview" /\ ~preview_enabled
    BY <1>9, <2>2, Outside
       DEF StartPreview, At, worker
  <2> QED
    BY <1>9, <2>1, <2>2 DEF StartPreview, Goto
<1>10. CASE TakePictureCheck
  BY <1>10, Outside DEF TakePictureCheck, At, GotoWith, worker, Goto
<1>11. CASE TakePictureFence
  BY <1>11 DEF TakePictureFence, At, GotoWith, Goto
<1>12. CASE TakePicture
  BY <1>12 DEF TakePicture, At, GotoWith, Goto
<1>13. CASE PictureStart
  <2>1. pc["worker"] = "stopPreview" /\ pc'["worker"] = "finish"
    BY <1>13 DEF PictureStart, At, Goto
  <2> QED
    BY <1>13, <2>1
<1>14. CASE FinishWorker
  BY <1>14, Outside DEF FinishWorker, At, Goto, worker
<1>15. CASE TakePictureFinished
  BY <1>15 DEF TakePictureFinished, At, GotoWith, Goto
<1>16. CASE TakePictureClear
  BY <1>16, Outside DEF TakePictureClear, At, GotoWith, worker, Goto
<1>17. CASE RestartAfterFailure
  BY <1>17, Outside DEF RestartAfterFailure, At, Goto, worker
<1>18. CASE NextNativeFrame
  BY <1>18, Outside DEF NextNativeFrame, At, Goto, worker
<1>19. CASE DrainPreview
  BY <1>19, Outside DEF DrainPreview, At, Goto, worker
<1>20. CASE DequeuePreview
  BY <1>20, Outside DEF DequeuePreview, At, GotoWith, worker, Goto
<1>21. CASE SourceFence
  BY <1>21, Outside DEF SourceFence, At, Goto, worker
<1>22. CASE SourceFenceTimeout
  BY <1>22, Outside DEF SourceFenceTimeout, At, GotoWith, worker, Goto
<1>23. CASE DequeueRecheck
  BY <1>23, Outside DEF DequeueRecheck, At, Goto, GotoWith, worker
<1>24. CASE CopyPreview
  BY <1>24, Outside DEF CopyPreview, At, GotoWith, VideoBlitRoom, worker, Goto
<1>25. CASE BlitPop
  BY <1>25, Outside DEF BlitPop, At, GotoWith, worker, Goto
<1>26. CASE BlitComplete
  BY <1>26, Outside DEF BlitComplete, At, GotoWith, worker, Goto
<1>27. CASE BlitRequeue
  BY <1>27, Outside DEF BlitRequeue, At, Goto, worker
<1>28. CASE ResultPop
  BY <1>28, Outside DEF ResultPop, At, GotoWith, worker, Goto
<1>29. CASE Deliver
  BY <1>29, Outside DEF Deliver, At, Goto, GotoWith, worker
<1>30. CASE ScheduleJpeg
  BY <1>30, Outside DEF ScheduleJpeg, At, Goto, GotoWith, worker
<1>31. CASE PostTakePicture
  BY <1>31, Outside DEF PostTakePicture, At, GotoWith, worker, Goto
<1>32. CASE PictureThread
  BY <1>32, Outside DEF PictureThread, At, Goto, worker
<1>33. CASE PictureTaken
  BY <1>33, Outside DEF PictureTaken, At, Goto, worker
<1>34. CASE DataCallback
  BY <1>34, Outside DEF DataCallback, At, Goto, worker
<1>35. CASE HandleJpeg
  BY <1>35, Outside DEF HandleJpeg, At, GotoWith, worker, Goto
<1>36. CASE HandleJpegCheck
  BY <1>36, Outside DEF HandleJpegCheck, At, Goto, worker
<1>37. CASE SendJpeg
  BY <1>37, Outside DEF SendJpeg, At, Goto, worker
<1>38. CASE RestartCheck
  BY <1>38, Outside DEF RestartCheck, At, Goto, worker
<1>39. CASE RestartPreview
  BY <1>39, Outside DEF RestartPreview, At, Goto, worker
<1>40. CASE FinishCallback
  BY <1>40, Outside DEF FinishCallback, At, GotoWith, worker, Goto
<1>41. CASE Flush
  BY <1>41, Outside DEF Flush, At, BeginFlush, Goto, worker
<1>42. CASE Close
  BY <1>42, Outside DEF Close, At, Goto, worker
<1>43. CASE CloseJoin
  BY <1>43, Outside DEF CloseJoin, At, Goto, worker
<1>44. CASE CloseFlush
  BY <1>44, Outside DEF CloseFlush, At, BeginFlush, Goto, worker
<1>45. CASE FlushDrainJpeg
  BY <1>45, Outside DEF FlushDrainJpeg, At, GotoWith, worker, Goto
<1>46. CASE FlushLock
  BY <1>46, Outside DEF FlushLock, At, Goto, worker
<1>47. CASE CancelPicture
  BY <1>47, Outside DEF CancelPicture, At, worker
<1>48. CASE PictureCancelled
  BY <1>48, Outside DEF PictureCancelled, At, Goto, worker
<1>49. CASE FlushStopPreview
  BY <1>49, Outside DEF FlushStopPreview, At, Goto, worker
<1>50. CASE FlushCollect
  BY <1>50, Outside DEF FlushCollect, At, Goto, worker
<1>51. CASE FlushResults
  BY <1>51, Outside DEF FlushResults, At, Goto, worker
<1>52. CASE FlushResultIdle
  BY <1>52, Outside DEF FlushResultIdle, At, GotoWith, worker, Goto
<1>53. CASE FlushEnd
  BY <1>53, Outside DEF FlushEnd, At, Goto, worker
<1>54. CASE CloseEnd
  BY <1>54, Outside DEF CloseEnd, At, worker
<1>55. ASSUME NEW t \in Threads, FailLook(t) PROVE WorkerGoes
  BY <1>55, Outside DEF FailLook, worker
<1>56. ASSUME NEW t \in Threads, FailReturn(t) PROVE WorkerGoes
  BY <1>56, Outside DEF FailReturn, worker
<1>57. ASSUME NEW t \in Threads, FailStill(t) PROVE WorkerGoes
  BY <1>57, Outside DEF FailStill, worker
<1> QED
  BY <1>1, <1>2, <1>3, <1>4, <1>5, <1>6, <1>7, <1>8, <1>9, <1>10, <1>11, <1>12, <1>13,
     <1>14, <1>15, <1>16, <1>17, <1>18, <1>19, <1>20, <1>21, <1>22, <1>23, <1>24, <1>25,
     <1>26, <1>27, <1>28, <1>29, <1>30, <1>31, <1>32, <1>33, <1>34, <1>35, <1>36, <1>37,
     <1>38, <1>39, <1>40, <1>41, <1>42, <1>43, <1>44, <1>45, <1>46, <1>47, <1>48, <1>49,
     <1>50, <1>51, <1>52, <1>53, <1>54, <1>55, <1>56, <1>57
     DEF SessionStep

LEMMA FaultFreeKept ==
  ASSUME Types, ControlInv, TakeOnce, TaskGenerations, FaultFree, TaskTypes', SessionStep
  PROVE  FaultFree'
<1>1. scenario' = scenario /\ WorkerGoes
  BY ScenarioConstant, WorkerGoing DEF ScenarioStays
<1>2. sessionGeneration <= sessionGeneration' /\ taskGeneration \in Nat /\ sessionGeneration \in Nat
      /\ sessionGeneration' \in Nat
  BY GenerationsGrow DEF Types, TaskTypes
<1> SUFFICES ASSUME OneStillIn(scenario), Faults \cap {"fence", "take"} = {}
             PROVE  /\ pc'["worker"] # "clearStill"
                    /\ pc'["worker"] \in {"finish", "finished"} =>
                         rc' = "ok" \/ (rc' = "failed" /\ taskGeneration' < sessionGeneration')
  BY <1>1 DEF FaultFree, Faults
<1>3. ASSUME TakePictureFinished PROVE pc'["worker"] # "clearStill"
  <2>1. rc # "fence" /\ ~(rc = "failed" /\ Current(taskGeneration))
    BY <1>2, <1>3 DEF TakePictureFinished, At, FaultFree, Current
  <2>2. pc' = [pc EXCEPT !["worker"] = "idle"]
    BY <1>3, <2>1 DEF TakePictureFinished, GotoWith, Goto
  <2> QED
    BY <2>2 DEF Types, ControlTypes, PcType, Threads
<1>4. pc'["worker"] # "clearStill"
  BY <1>1, <1>3 DEF WorkerGoes, FaultFree
<1>5. ASSUME TakePictureFence PROVE pc'["worker"] = "takePicture"
  BY <1>5 DEF TakePictureFence, Goto, Types, ControlTypes, PcType, Threads
<1>6. ASSUME TakePicture, pc'["worker"] = "finish"
      PROVE  rc' = "failed" /\ taskGeneration' < sessionGeneration'
  <2>1. ~Current(taskGeneration) /\ rc' = "failed"
    BY <1>6 DEF TakePicture, Goto, Types, ControlTypes, PcType, Threads
  <2>2. UNCHANGED <<taskGeneration, sessionGeneration>>
    BY <1>6 DEF TakePicture, session
  <2> QED
    BY <1>2, <2>1, <2>2 DEF Current, TaskGenerations
<1>7. ASSUME PictureStart PROVE rc' = "ok"
  <2>1. Take(4) /\ ~Take(5)
    <3>1. Take(4)
      BY <1>7 DEF PictureStart, At, Take
    <3> QED
      BY <3>1 DEF TakeOnce, TakesApart
  <2>2. node0 # "picture" /\ pc["picture"] = "off"
    BY <2>1 DEF Take
  <2>3. Node0AfterStop = "off"
    BY <2>2 DEF Node0AfterStop, Types, FlagTypes
  <2> QED
    BY <1>7, <2>2, <2>3 DEF PictureStart
<1>8. pc'["worker"] \in {"finish", "finished"} =>
        rc' = "ok" \/ (rc' = "failed" /\ taskGeneration' < sessionGeneration')
  <2>1. CASE pc["worker"] \in {"finish", "finished"} /\ UNCHANGED <<rc, taskGeneration>>
    BY <1>2, <2>1 DEF FaultFree
  <2>2. CASE TakePicture
    <3>1. pc'["worker"] \in {"finish", "stopPreview"}
      BY <2>2 DEF TakePicture, Goto, Types, ControlTypes, PcType, Threads
    <3> QED
      BY <1>6, <2>2, <3>1
  <2> QED
    BY <1>1, <1>5, <1>7, <2>1, <2>2 DEF WorkerGoes
<1> QED
  BY <1>4, <1>8

(* Nobody else fails a still that the worker has not sent, unless the session *)
(* is flushed: close() joins the worker first.                              *)
Undisturbed == scenario.flushes = 0 =>
  op # "flush" /\ (pc["worker"] # "exited" => pc["flusher"] \in {"idle", "join"})
FrameThreads == {"framework", "capture", "blit", "result"}
Alone == Unsent =>
  /\ ~Early(job["worker"])
  /\ \A t \in FrameThreads : failing[t] # None => failing[t].frame # job["worker"]
FailsEarly ==
  \A t \in FrameThreads : failing'[t] # None =>
    \/ failing[t] # None /\ failing'[t].frame = failing[t].frame
    \/ Early(failing'[t].frame)

LEMMA UndisturbedKept ==
  ASSUME Types, ControlInv, CallsInv, Undisturbed, SessionStep
  PROVE  Undisturbed'
<1> USE DEF Types, ControlTypes, PcType, JobType, Threads, SessionTypes, ControlInv,
   FlusherOK, WorkerOK, Undisturbed
<1>1. CASE \/ RejectRawRequest \/ FlushFail \/ Stutter
  <2>1. UNCHANGED <<scenario, pc, op>>
    BY <1>1 DEF RejectRawRequest, At, Outputs, control, flusher, FlushFail, Stutter, vars
  <2> QED
    BY <2>1
<1>2. CASE AcceptRequest
  BY <1>2, Outside DEF AcceptRequest, At, GotoWith, Outputs, Settings, flusher, Goto
<1>3. CASE UpdateBackendParameters
  BY <1>3, Outside DEF UpdateBackendParameters, At, Goto, flusher
<1>4. CASE Reserve
  BY <1>4, Outside DEF Reserve, At, Goto, GotoWith, Outputs, flusher
<1>5. CASE Enqueue
  BY <1>5, Outside
     DEF Enqueue, At, Goto, GotoWith, NeedsOrderedPreviewCapture, Outputs, flusher,
        HasSource
<1>6. CASE PostRequest
  BY <1>6, Outside
     DEF PostRequest, At, GotoWith, NeedsOrderedPreviewCapture, flusher, Goto,
        HasSource, Outputs
<1>7. CASE PopTask
  <2>1. pc' \in {[pc EXCEPT !["worker"] = w] : w \in {"exited", "idle", "start", "take"}}
    BY <1>7, TaskHeads DEF PopTask, Goto
  <2> QED
    BY <1>7, <2>1, Outside
       DEF PopTask, At, flusher
<1>8. CASE StartPreviewCheck
  BY <1>8, Outside DEF StartPreviewCheck, At, Goto, HasSource, flusher
<1>9. CASE StartPreview
  <2>1. CASE pc' = [pc EXCEPT !["worker"] = "idle"] /\ UNCHANGED <<preview_enabled, node0>>
    BY <1>9, <2>1, Outside
       DEF StartPreview, At, flusher
  <2>2. CASE pc' = [pc EXCEPT !["worker"] = "idle", !["capture"] = "loop"]
             /\ preview_enabled' = TRUE /\ node0' = "preview" /\ ~preview_enabled
    BY <1>9, <2>2, Outside
       DEF StartPreview, At, flusher
  <2> QED
    BY <1>9, <2>1, <2>2 DEF StartPreview, Goto
<1>10. CASE TakePictureCheck
  BY <1>10, Outside DEF TakePictureCheck, At, GotoWith, flusher, Goto
<1>11. CASE TakePictureFence
  BY <1>11, Outside DEF TakePictureFence, At, Faults, Goto, flusher
<1>12. CASE TakePicture
  BY <1>12, Outside DEF TakePicture, At, Faults, Goto, flusher
<1>13. CASE PictureStart
  BY <1>13, Outside DEF PictureStart, At, Faults, Goto, flusher
<1>14. CASE FinishWorker
  BY <1>14, Outside DEF FinishWorker, At, Goto, flusher
<1>15. CASE TakePictureFinished
  BY <1>15, Outside DEF TakePictureFinished, At, Goto, GotoWith, flusher
<1>16. CASE TakePictureClear
  BY <1>16, Outside DEF TakePictureClear, At, GotoWith, flusher, Goto
<1>17. CASE RestartAfterFailure
  BY <1>17, Outside DEF RestartAfterFailure, At, Goto, flusher
<1>18. CASE NextNativeFrame
  BY <1>18, Outside DEF NextNativeFrame, At, Faults, Goto, flusher
<1>19. CASE DrainPreview
  BY <1>19, Outside DEF DrainPreview, At, Goto, flusher
<1>20. CASE DequeuePreview
  BY <1>20, Outside DEF DequeuePreview, At, GotoWith, flusher, Goto
<1>21. CASE SourceFence
  BY <1>21, Outside DEF SourceFence, At, Goto, flusher
<1>22. CASE SourceFenceTimeout
  BY <1>22, Outside DEF SourceFenceTimeout, At, Faults, GotoWith, flusher, Goto
<1>23. CASE DequeueRecheck
  BY <1>23, Outside DEF DequeueRecheck, At, Goto, GotoWith, flusher
<1>24. CASE CopyPreview
  BY <1>24, Outside DEF CopyPreview, At, Faults, GotoWith, VideoBlitRoom, flusher, Goto
<1>25. CASE BlitPop
  BY <1>25, Outside DEF BlitPop, At, GotoWith, flusher, Goto
<1>26. CASE BlitComplete
  BY <1>26, Outside DEF BlitComplete, At, GotoWith, flusher, Goto
<1>27. CASE BlitRequeue
  BY <1>27, Outside DEF BlitRequeue, At, Goto, flusher
<1>28. CASE ResultPop
  BY <1>28, Outside DEF ResultPop, At, GotoWith, flusher, Goto
<1>29. CASE Deliver
  BY <1>29, Outside DEF Deliver, At, Goto, GotoWith, flusher
<1>30. CASE ScheduleJpeg
  BY <1>30, Outside DEF ScheduleJpeg, At, Goto, GotoWith, flusher
<1>31. CASE PostTakePicture
  BY <1>31, Outside DEF PostTakePicture, At, GotoWith, flusher, Goto
<1>32. CASE PictureThread
  BY <1>32, Outside DEF PictureThread, At, Goto, flusher
<1>33. CASE PictureTaken
  BY <1>33, Outside DEF PictureTaken, At, Faults, Goto, flusher
<1>34. CASE DataCallback
  BY <1>34, Outside DEF DataCallback, At, Goto, flusher
<1>35. CASE HandleJpeg
  BY <1>35, Outside DEF HandleJpeg, At, GotoWith, flusher, Goto
<1>36. CASE HandleJpegCheck
  BY <1>36, Outside DEF HandleJpegCheck, At, Goto, flusher
<1>37. CASE SendJpeg
  BY <1>37, Outside DEF SendJpeg, At, Goto, flusher
<1>38. CASE RestartCheck
  BY <1>38, Outside DEF RestartCheck, At, Goto, flusher
<1>39. CASE RestartPreview
  BY <1>39, Outside DEF RestartPreview, At, Goto, flusher
<1>40. CASE FinishCallback
  BY <1>40, Outside DEF FinishCallback, At, GotoWith, flusher, Goto
<1>41. CASE Flush
  <2>1. scenario.flushes > 0 /\ UNCHANGED scenario
    BY <1>41, Asking DEF Flush, CallsInv
  <2> QED
    BY <2>1
<1>42. CASE Close
  BY <1>42, Outside DEF Close, At, Goto
<1>43. CASE CloseJoin
  BY <1>43, Outside DEF CloseJoin, At, Goto, flusher
<1>44. CASE CloseFlush
  BY <1>44, Outside DEF CloseFlush, At, BeginFlush, Goto
<1>45. CASE FlushDrainJpeg
  BY <1>45, Outside DEF FlushDrainJpeg, At, GotoWith, Goto
<1>46. CASE FlushLock
  BY <1>46, Outside DEF FlushLock, At, Goto, flusher
<1>47. CASE CancelPicture
  BY <1>47, Outside DEF CancelPicture, At, flusher
<1>48. CASE PictureCancelled
  BY <1>48, Outside DEF PictureCancelled, At, Goto, flusher
<1>49. CASE FlushStopPreview
  BY <1>49, Outside DEF FlushStopPreview, At, Goto, flusher
<1>50. CASE FlushCollect
  BY <1>50, Outside DEF FlushCollect, At, Goto
<1>51. CASE FlushResults
  BY <1>51, Outside DEF FlushResults, At, Goto
<1>52. CASE FlushResultIdle
  BY <1>52, Outside DEF FlushResultIdle, At, GotoWith, Goto
<1>53. CASE FlushEnd
  <2>1. op' \in {op, "none"} /\ UNCHANGED scenario /\ pc["flusher"] = "fail"
        /\ pc'["worker"] = pc["worker"]
    BY <1>53 DEF FlushEnd, At, Goto
  <2> QED
    BY <2>1
<1>54. CASE CloseEnd
  BY <1>54, Outside DEF CloseEnd, At, flusher
<1>55. ASSUME NEW t \in Threads, FailLook(t) PROVE Undisturbed'
  BY <1>55, Outside DEF FailLook, flusher
<1>56. ASSUME NEW t \in Threads, FailReturn(t) PROVE Undisturbed'
  BY <1>56, Outside DEF FailReturn, flusher
<1>57. ASSUME NEW t \in Threads, FailStill(t) PROVE Undisturbed'
  BY <1>57, Outside DEF FailStill, flusher
<1> QED
  BY <1>1, <1>2, <1>3, <1>4, <1>5, <1>6, <1>7, <1>8, <1>9, <1>10, <1>11, <1>12, <1>13,
     <1>14, <1>15, <1>16, <1>17, <1>18, <1>19, <1>20, <1>21, <1>22, <1>23, <1>24, <1>25,
     <1>26, <1>27, <1>28, <1>29, <1>30, <1>31, <1>32, <1>33, <1>34, <1>35, <1>36, <1>37,
     <1>38, <1>39, <1>40, <1>41, <1>42, <1>43, <1>44, <1>45, <1>46, <1>47, <1>48, <1>49,
     <1>50, <1>51, <1>52, <1>53, <1>54, <1>55, <1>56, <1>57
     DEF SessionStep

LEMMA FailingEarly ==
  ASSUME Types, ControlInv, SessionStep
  PROVE  FailsEarly
<1> USE DEF Types, ControlTypes, FailingType, Threads, FrameThreads, FailsEarly
<1>1. CASE \/ RejectRawRequest \/ AcceptRequest \/ UpdateBackendParameters
           \/ PostRequest \/ PopTask \/ StartPreviewCheck \/ StartPreview
           \/ TakePictureCheck \/ TakePictureFence \/ TakePicture \/ PictureStart
           \/ FinishWorker \/ TakePictureClear \/ RestartAfterFailure \/ NextNativeFrame
           \/ DrainPreview \/ DequeuePreview \/ SourceFence \/ DequeueRecheck \/ BlitPop
           \/ BlitRequeue \/ ResultPop \/ Deliver \/ PostTakePicture \/ PictureThread
           \/ PictureTaken \/ DataCallback \/ HandleJpeg \/ RestartCheck
           \/ RestartPreview \/ FinishCallback \/ Flush \/ Close \/ CloseJoin
           \/ CloseFlush \/ FlushDrainJpeg \/ FlushLock \/ CancelPicture
           \/ PictureCancelled \/ FlushStopPreview \/ FlushCollect \/ FlushResults
           \/ FlushResultIdle \/ FlushEnd \/ CloseEnd \/ Stutter
  <2>1. UNCHANGED <<failing>>
    BY <1>1
       DEF RejectRawRequest, At, control, AcceptRequest, UpdateBackendParameters,
          PostRequest, NeedsOrderedPreviewCapture, PopTask, StartPreviewCheck,
          StartPreview, TakePictureCheck, TakePictureFence, TakePicture, PictureStart,
          FinishWorker, TakePictureClear, RestartAfterFailure, NextNativeFrame,
          DrainPreview, DequeuePreview, SourceFence, DequeueRecheck, BlitPop,
          BlitRequeue, ResultPop, Deliver, PostTakePicture, PictureThread, PictureTaken,
          DataCallback, HandleJpeg, RestartCheck, RestartPreview, FinishCallback, Flush,
          BeginFlush, Close, CloseJoin, CloseFlush, FlushDrainJpeg, FlushLock,
          CancelPicture, PictureCancelled, FlushStopPreview, FlushCollect, FlushResults,
          FlushResultIdle, FlushEnd, CloseEnd, Stutter, vars
  <2> QED
    BY <2>1
<1>2. CASE Reserve
  <2>1. Early(job["framework"])
    BY <1>2 DEF Reserve, At, Early, OnTheWay
  <2>2. UNCHANGED failing \/ StartFailing("framework", job["framework"])
    BY <1>2 DEF Reserve
  <2> QED
    BY <2>1, <2>2 DEF StartFailing
<1>3. CASE Enqueue
  <2>1. Early(job["framework"])
    BY <1>3 DEF Enqueue, At, Early, OnTheWay
  <2>2. UNCHANGED failing \/ StartFailing("framework", job["framework"])
    BY <1>3 DEF Enqueue
  <2> QED
    BY <2>1, <2>2 DEF StartFailing
<1>4. CASE TakePictureFinished
  <2>1. \A u \in FrameThreads : failing'[u] = failing[u]
    BY <1>4 DEF TakePictureFinished, StartFailing
  <2> QED
    BY <2>1
<1>5. CASE SourceFenceTimeout
  <2>1. Early(job["capture"])
    BY <1>5 DEF SourceFenceTimeout, At, Early, OnTheWay
  <2>2. UNCHANGED failing \/ StartFailing("capture", job["capture"])
    BY <1>5 DEF SourceFenceTimeout
  <2> QED
    BY <2>1, <2>2 DEF StartFailing
<1>6. CASE CopyPreview
  <2>1. Early(job["capture"])
    BY <1>6 DEF CopyPreview, At, Early, OnTheWay
  <2>2. UNCHANGED failing \/ StartFailing("capture", job["capture"])
    BY <1>6 DEF CopyPreview, Complete
  <2> QED
    BY <2>1, <2>2 DEF StartFailing
<1>7. CASE BlitComplete
  <2>1. Early(job["blit"])
    BY <1>7 DEF BlitComplete, At, Early, OnTheWay
  <2>2. UNCHANGED failing \/ StartFailing("blit", job["blit"])
    BY <1>7 DEF BlitComplete, Complete
  <2> QED
    BY <2>1, <2>2 DEF StartFailing
<1>8. CASE ScheduleJpeg
  <2>1. Early(job["result"])
    BY <1>8 DEF ScheduleJpeg, At, Early, OnTheWay
  <2>2. UNCHANGED failing \/ StartFailing("result", job["result"])
    BY <1>8 DEF ScheduleJpeg
  <2> QED
    BY <2>1, <2>2 DEF StartFailing
<1>9. CASE HandleJpegCheck
  <2>1. \A u \in FrameThreads : failing'[u] = failing[u]
    BY <1>9 DEF HandleJpegCheck, StartFailing
  <2> QED
    BY <2>1
<1>10. CASE SendJpeg
  <2>1. \A u \in FrameThreads : failing'[u] = failing[u]
    BY <1>10 DEF SendJpeg, StartFailing
  <2> QED
    BY <2>1
<1>11. CASE FlushFail
  <2>1. \A u \in FrameThreads : failing'[u] = failing[u]
    BY <1>11 DEF FlushFail, StartFailing
  <2> QED
    BY <2>1
<1>12. ASSUME NEW t \in Threads, FailLook(t) PROVE FailsEarly
  <2>1. failing[t] \in Failures /\ \A u \in Threads \ {t} : failing'[u] = failing[u]
    BY <1>12 DEF FailLook
  <2>2. failing'[t] \in {None, [failing[t] EXCEPT !.step = "return", !.has = owned[failing[t].frame]]}
    BY <1>12 DEF FailLook
  <2>3. failing[t] # None /\ (failing'[t] # None => failing'[t].frame = failing[t].frame)
    BY <1>12, <2>1, <2>2 DEF FailLook, Failures
  <2> QED
    BY <2>1, <2>3
<1>13. ASSUME NEW t \in Threads, FailReturn(t) PROVE FailsEarly
  <2>1. failing[t] \in Failures /\ \A u \in Threads \ {t} : failing'[u] = failing[u]
    BY <1>13 DEF FailReturn
  <2>2. failing'[t] \in {None, [failing[t] EXCEPT !.step = "still"]}
    BY <1>13 DEF FailReturn
  <2>3. failing[t] # None /\ (failing'[t] # None => failing'[t].frame = failing[t].frame)
    BY <1>13, <2>1, <2>2 DEF FailReturn, Failures
  <2> QED
    BY <2>1, <2>3
<1>14. ASSUME NEW t \in Threads, FailStill(t) PROVE FailsEarly
  <2>1. failing' = [failing EXCEPT ![t] = None]
    BY <1>14 DEF FailStill
  <2> QED
    BY <2>1
<1> QED
  BY <1>1, <1>2, <1>3, <1>4, <1>5, <1>6, <1>7, <1>8, <1>9, <1>10, <1>11, <1>12, <1>13,
     <1>14
     DEF SessionStep

LEMMA AloneKept ==
  ASSUME Types, ControlInv, WorkerAccepted, OnePlace, Alone, OnePlace', SessionStep
  PROVE  Alone'
<1>1. UnsentStep /\ EarlyStep /\ FailsEarly
  BY UnsentSteps, EarlySteps, FailingEarly
<1> SUFFICES ASSUME Unsent'
             PROVE  /\ ~Early(job["worker"])'
                    /\ \A t \in FrameThreads : failing'[t] # None => failing'[t].frame # job'["worker"]
  BY DEF Alone
<1>2. CASE Unsent /\ job'["worker"] = job["worker"]
  <2>1. PICK q \in Requests : q = job["worker"]
    BY <1>2, JobsAreRequests DEF Unsent, ControlInv, WorkerOK, Taking, Types, ControlTypes, JobType, Threads
  <2>2. q < next /\ q = job'["worker"]
    BY <1>2, <2>1, Outside DEF WorkerAccepted
  <2>3. ~Early(q) /\ \A t \in FrameThreads : failing[t] # None => failing[t].frame # q
    BY <1>2, <2>1 DEF Alone
  <2>4. ~Early(q)'
    BY <1>1, <2>2, <2>3 DEF EarlyStep
  <2>5. \A t \in FrameThreads : failing'[t] # None => failing'[t].frame # q
    BY <1>1, <2>3 DEF FailsEarly
  <2> QED
    BY <2>2, <2>4, <2>5 DEF Early, OnTheWay
<1>3. CASE TakePictureCheck /\ job'["worker"] = pendingJpeg /\ pendingJpeg \in Requests
  <2>1. PICK q \in Requests : q = pendingJpeg
    BY <1>3
  <2>2. pendingJpeg' = q /\ UNCHANGED failing /\ q = job'["worker"]
    BY <1>3, <2>1 DEF TakePictureCheck, still
  <2>3. ~Early(q)'
    BY <2>2, PendingIsLate
  <2>4. ASSUME NEW t \in FrameThreads, failing[t] # None, failing[t].frame = q PROVE FALSE
    <3>1. /\ "pending" \in Places /\ t \in Places /\ t # "pending" /\ t \in Failers
      BY DEF FrameThreads, Places, Stages, Failers, Threads
    <3>2. Place("pending", q) /\ Place(t, q)
      BY <2>1, <2>4, <3>1 DEF Place
    <3> QED
      BY <3>1, <3>2 DEF OnePlace
  <2> QED
    BY <2>2, <2>3, <2>4 DEF Early, OnTheWay
<1> QED
  BY <1>1, <1>2, <1>3 DEF UnsentStep

(* The buffer that the picture thread is about to send is there.              *)
SendOwned == OneStillIn(scenario) =>
  (pc["picture"] = "send" => "jpeg" \in owned[job["picture"]])
SendStep ==
  pc'["picture"] = "send" =>
    /\ job'["picture"] = job["picture"]
    /\ \/ pc["picture"] = "send"
       \/ UNCHANGED owned /\ "jpeg" \in owned[job["picture"]]

LEMMA SendSteps ==
  ASSUME Types, ControlInv, SessionStep
  PROVE  SendStep
<1> USE DEF Types, ControlTypes, PcType, JobType, Threads, SendStep
<1>1. CASE \/ RejectRawRequest \/ FlushFail \/ Stutter
  <2>1. UNCHANGED <<pc, job>>
    BY <1>1 DEF RejectRawRequest, At, control, FlushFail, Stutter, vars
  <2> QED
    BY <2>1
<1>2. CASE AcceptRequest
  BY <1>2, Outside DEF AcceptRequest, At, GotoWith, Goto
<1>3. CASE UpdateBackendParameters
  BY <1>3, Outside DEF UpdateBackendParameters, At, Goto
<1>4. CASE Reserve
  BY <1>4, Outside DEF Reserve, At, Goto, GotoWith
<1>5. CASE Enqueue
  BY <1>5, Outside DEF Enqueue, At, Goto, GotoWith, NeedsOrderedPreviewCapture
<1>6. CASE PostRequest
  BY <1>6, Outside DEF PostRequest, At, GotoWith, NeedsOrderedPreviewCapture, Goto
<1>7. CASE PopTask
  <2>1. pc' \in {[pc EXCEPT !["worker"] = w] : w \in {"exited", "idle", "start", "take"}}
    BY <1>7, TaskHeads DEF PopTask, Goto
  <2> QED
    BY <1>7, <2>1, Outside
       DEF PopTask, At
<1>8. CASE StartPreviewCheck
  BY <1>8, Outside DEF StartPreviewCheck, At, Goto
<1>9. CASE StartPreview
  <2>1. CASE pc' = [pc EXCEPT !["worker"] = "idle"] /\ UNCHANGED <<preview_enabled, node0>>
    BY <1>9, <2>1, Outside
       DEF StartPreview, At
  <2>2. CASE pc' = [pc EXCEPT !["worker"] = "idle", !["capture"] = "loop"]
             /\ preview_enabled' = TRUE /\ node0' = "preview" /\ ~preview_enabled
    BY <1>9, <2>2, Outside
       DEF StartPreview, At
  <2> QED
    BY <1>9, <2>1, <2>2 DEF StartPreview, Goto
<1>10. CASE TakePictureCheck
  BY <1>10, Outside DEF TakePictureCheck, At, GotoWith, Goto
<1>11. CASE TakePictureFence
  BY <1>11, Outside DEF TakePictureFence, At, Goto
<1>12. CASE TakePicture
  BY <1>12, Outside DEF TakePicture, At, Goto
<1>13. CASE PictureStart
  BY <1>13, Outside DEF PictureStart, At, Goto
<1>14. CASE FinishWorker
  BY <1>14, Outside DEF FinishWorker, At, Goto
<1>15. CASE TakePictureFinished
  BY <1>15, Outside DEF TakePictureFinished, At, Goto, GotoWith
<1>16. CASE TakePictureClear
  BY <1>16, Outside DEF TakePictureClear, At, GotoWith, Goto
<1>17. CASE RestartAfterFailure
  BY <1>17, Outside DEF RestartAfterFailure, At, Goto
<1>18. CASE NextNativeFrame
  BY <1>18, Outside DEF NextNativeFrame, At, Goto
<1>19. CASE DrainPreview
  BY <1>19, Outside DEF DrainPreview, At, Goto
<1>20. CASE DequeuePreview
  BY <1>20, Outside DEF DequeuePreview, At, GotoWith, Goto
<1>21. CASE SourceFence
  BY <1>21, Outside DEF SourceFence, At, Goto
<1>22. CASE SourceFenceTimeout
  BY <1>22, Outside DEF SourceFenceTimeout, At, GotoWith, Goto
<1>23. CASE DequeueRecheck
  BY <1>23, Outside DEF DequeueRecheck, At, Goto, GotoWith
<1>24. CASE CopyPreview
  BY <1>24, Outside DEF CopyPreview, At, GotoWith, VideoBlitRoom, Goto
<1>25. CASE BlitPop
  BY <1>25, Outside DEF BlitPop, At, GotoWith, Goto
<1>26. CASE BlitComplete
  BY <1>26, Outside DEF BlitComplete, At, GotoWith, Goto
<1>27. CASE BlitRequeue
  BY <1>27, Outside DEF BlitRequeue, At, Goto
<1>28. CASE ResultPop
  BY <1>28, Outside DEF ResultPop, At, GotoWith, Goto
<1>29. CASE Deliver
  BY <1>29, Outside DEF Deliver, At, Goto, GotoWith
<1>30. CASE ScheduleJpeg
  BY <1>30, Outside DEF ScheduleJpeg, At, Goto, GotoWith
<1>31. CASE PostTakePicture
  BY <1>31, Outside DEF PostTakePicture, At, GotoWith, Goto
<1>32. CASE PictureThread
  BY <1>32, Outside DEF PictureThread, At, Goto
<1>33. CASE PictureTaken
  BY <1>33, Outside DEF PictureTaken, At, Goto
<1>34. CASE DataCallback
  BY <1>34, Outside DEF DataCallback, At, Goto
<1>35. CASE HandleJpeg
  BY <1>35, Outside DEF HandleJpeg, At, GotoWith, Goto
<1>36. CASE HandleJpegCheck
  <2>1. UNCHANGED <<job, owned>>
    BY <1>36 DEF HandleJpegCheck, frame
  <2>2. pc'["picture"] = "send" => "jpeg" \in owned[job["picture"]]
    BY <1>36 DEF HandleJpegCheck, Goto
  <2> QED
    BY <2>1, <2>2
<1>37. CASE SendJpeg
  <2>1. pc' = [pc EXCEPT !["picture"] = "restart"]
    BY <1>37 DEF SendJpeg, Goto
  <2> QED
    BY <2>1
<1>38. CASE RestartCheck
  BY <1>38, Outside DEF RestartCheck, At, Goto
<1>39. CASE RestartPreview
  BY <1>39, Outside DEF RestartPreview, At, Goto
<1>40. CASE FinishCallback
  BY <1>40, Outside DEF FinishCallback, At, GotoWith, Goto
<1>41. CASE Flush
  BY <1>41, Outside DEF Flush, At, BeginFlush, Goto
<1>42. CASE Close
  BY <1>42, Outside DEF Close, At, Goto
<1>43. CASE CloseJoin
  BY <1>43, Outside DEF CloseJoin, At, Goto
<1>44. CASE CloseFlush
  BY <1>44, Outside DEF CloseFlush, At, BeginFlush, Goto
<1>45. CASE FlushDrainJpeg
  BY <1>45, Outside DEF FlushDrainJpeg, At, GotoWith, Goto
<1>46. CASE FlushLock
  BY <1>46, Outside DEF FlushLock, At, Goto
<1>47. CASE CancelPicture
  BY <1>47, Outside DEF CancelPicture, At
<1>48. CASE PictureCancelled
  BY <1>48, Outside DEF PictureCancelled, At, Goto
<1>49. CASE FlushStopPreview
  BY <1>49, Outside DEF FlushStopPreview, At, Goto
<1>50. CASE FlushCollect
  BY <1>50, Outside DEF FlushCollect, At, Goto
<1>51. CASE FlushResults
  BY <1>51, Outside DEF FlushResults, At, Goto
<1>52. CASE FlushResultIdle
  BY <1>52, Outside DEF FlushResultIdle, At, GotoWith, Goto
<1>53. CASE FlushEnd
  BY <1>53, Outside DEF FlushEnd, At, Goto
<1>54. CASE CloseEnd
  BY <1>54, Outside DEF CloseEnd, At
<1>55. ASSUME NEW t \in Threads, FailLook(t) PROVE SendStep
  BY <1>55, Outside DEF FailLook
<1>56. ASSUME NEW t \in Threads, FailReturn(t) PROVE SendStep
  BY <1>56, Outside DEF FailReturn
<1>57. ASSUME NEW t \in Threads, FailStill(t) PROVE SendStep
  BY <1>57, Outside DEF FailStill
<1> QED
  BY <1>1, <1>2, <1>3, <1>4, <1>5, <1>6, <1>7, <1>8, <1>9, <1>10, <1>11, <1>12, <1>13,
     <1>14, <1>15, <1>16, <1>17, <1>18, <1>19, <1>20, <1>21, <1>22, <1>23, <1>24, <1>25,
     <1>26, <1>27, <1>28, <1>29, <1>30, <1>31, <1>32, <1>33, <1>34, <1>35, <1>36, <1>37,
     <1>38, <1>39, <1>40, <1>41, <1>42, <1>43, <1>44, <1>45, <1>46, <1>47, <1>48, <1>49,
     <1>50, <1>51, <1>52, <1>53, <1>54, <1>55, <1>56, <1>57
     DEF SessionStep

LEMMA SendOwnedKept ==
  ASSUME Types, ControlInv, PlacedAreAccepted, WorkerAccepted, OnePlace, WithoutPicture,
         SendOwned, SessionStep
  PROVE  SendOwned'
<1>1. scenario' = scenario /\ SendStep
  BY ScenarioConstant, SendSteps DEF ScenarioStays
<1> SUFFICES ASSUME OneStillIn(scenario), pc'["picture"] = "send"
             PROVE  "jpeg" \in owned'[job'["picture"]]
  BY <1>1 DEF SendOwned
<1>2. CASE UNCHANGED owned /\ "jpeg" \in owned[job["picture"]]
  BY <1>1, <1>2 DEF SendStep
<1>3. CASE pc["picture"] = "send"
  <2>1. PICK r \in Requests : r = job["picture"]
    BY <1>3, JobsAreRequests DEF Types, ControlInv, PictureOK, ControlTypes, JobType, Threads
  <2>2. /\ "jpeg" \in owned[r] /\ job'["picture"] = r /\ Place("pictured", r)
        /\ r < next
    BY <1>1, <1>3, <2>1, AcceptedPlaces DEF SendStep, SendOwned, Place, JpegTurn
  <2> USE DEF Types, FrameTypes, OwnedType
  <2>3. CASE UNCHANGED owned \/ RejectRawRequest
    BY <2>2, <2>3 DEF RejectRawRequest
  <2>4. CASE AcceptRequest
    <3>1. r # next /\ owned' = [owned EXCEPT ![next] = Outputs[next]]
      BY <2>2, <2>4, RequestsAreNat, Asking DEF AcceptRequest
    <3> QED
      BY <2>2, <3>1
  <2>5. CASE Deliver
    BY <2>2, <2>5 DEF Deliver, Reset
  <2>6. ASSUME NEW t \in Threads, FailReturn(t) PROVE "jpeg" \in owned'[r]
    <3>1. failing[t] # None /\ owned' = [owned EXCEPT ![failing[t].frame] = @ \ failing[t].has]
      BY <2>6 DEF FailReturn, Reset
    <3>2. failing[t].frame # r
      <4>1. CASE t = "worker"
        <5>1. pc["worker"] = "clearStill"
          BY <3>1, <4>1 DEF ControlInv, WorkerOK
        <5> QED
          BY <1>3, <5>1 DEF WithoutPicture, Unsent
      <4>2. CASE t # "worker"
        <5>1. t \in Failers /\ t \in Places /\ "pictured" \in Places /\ t # "pictured"
          BY <4>2 DEF Places, Stages, Failers, Threads
        <5>2. failing[t].frame = r => Place(t, r)
          BY <3>1, <5>1 DEF Place
        <5> QED
          BY <2>2, <5>1, <5>2 DEF OnePlace
      <4> QED
        BY <4>1, <4>2
    <3> QED
      BY <2>2, <3>1, <3>2
  <2>7. ASSUME SendJpeg PROVE FALSE
    BY <2>7 DEF SendJpeg, Goto, ControlTypes, PcType, Threads
  <2> QED
    BY <2>2, <2>3, <2>4, <2>5, <2>6, <2>7, BufferSteps DEF BufferStep
<1> QED
  BY <1>1, <1>2, <1>3 DEF SendStep

-----------------------------------------------------------------------------
(* Every buffer of every kind.  Two threads may fail a still both only where   *)
(* its fence or its take can fail and a flush overtakes the worker; several    *)
(* stills share what the one has.                                           *)
ReturnsOnce(s) ==
  \/ \A r \in DOMAIN s.outputs : "jpeg" \notin s.outputs[r]
  \/ OneStillIn(s) /\ (s.faults \cap {"fence", "take"} = {} \/ s.flushes = 0)

LEMMA StillIsSettled ==
  ASSUME Types, ControlInv, LateTake, WithoutPicture, FaultFree, Undisturbed, Alone, SendOwned,
         ReturnsOnce(scenario)
  PROVE  StillSettled(Kinds)
<1>1. CASE \A r \in DOMAIN scenario.outputs : "jpeg" \notin scenario.outputs[r]
  <2>1. \A r \in Requests : ~StillIsLate(r)
    BY <1>1, AcceptedAsked DEF StillIsLate, Outputs, Types
  <2>2. pc["picture"] = "off" /\ job["worker"] = None
    BY <2>1 DEF LateTake
  <2>3. failing["worker"] = None
    BY <2>2 DEF ControlInv, WorkerOK
  <2> QED
    BY <2>2, <2>3 DEF StillSettled
<1>2. CASE OneStillIn(scenario) /\ (Faults \cap {"fence", "take"} = {} \/ scenario.flushes = 0)
  <2>1. ASSUME failing["worker"] # None, NEW p \in Failers \cup {"pictured"}, Place(p, job["worker"])
        PROVE  FALSE
    <3>1. pc["worker"] = "clearStill" /\ Unsent
      BY <2>1 DEF ControlInv, WorkerOK, Unsent
    <3>2. pc["picture"] = "off" /\ failing["picture"] = None
      BY <1>2, <3>1 DEF WithoutPicture, ControlInv, PictureOK
    <3>3. scenario.flushes = 0
      BY <1>2, <3>1 DEF FaultFree
    <3>4. failing["flusher"] = None
      BY <3>1, <3>3 DEF Undisturbed, ControlInv, FlusherOK
    <3>5. \A t \in FrameThreads : failing[t] # None => failing[t].frame # job["worker"]
      BY <3>1 DEF Alone
    <3>6. p \in FrameThreads \cup {"picture", "flusher", "pictured"}
      BY DEF Failers, FrameThreads, Threads
    <3>7. p # "pictured"
      BY <2>1, <3>2 DEF Place, Failers, Threads
    <3>8. p # "picture" /\ p # "flusher"
      BY <2>1, <3>2, <3>4 DEF Place
    <3>9. p \notin FrameThreads
      BY <2>1, <3>5 DEF Place, FrameThreads
    <3> QED
      BY <3>6, <3>7, <3>8, <3>9
  <2> QED
    BY <1>2, <2>1 DEF StillSettled, SendOwned
<1> QED
  BY <1>1, <1>2 DEF ReturnsOnce, Faults

ReturnInv ==
  /\ AnswerInv /\ StillInv
  /\ TakeOnce /\ WithoutPicture /\ TaskGenerations /\ FaultFree /\ Undisturbed /\ Alone /\ SendOwned
  /\ ReturnsOnce(scenario) => Exact(Kinds)

LEMMA ReturnInit == Init => ReturnInv
<1> SUFFICES ASSUME Init PROVE ReturnInv
  OBVIOUS
<1>1. AnswerInv /\ StillInv
  BY AnswerInit, StillInit
<1>2. /\ workerTasks = << >> /\ DOMAIN << >> = {} /\ node0 = "off" /\ op = "none"
      /\ taskGeneration = 0 /\ sessionGeneration = 0
      /\ pc["worker"] = "idle" /\ pc["picture"] = "off" /\ pc["flusher"] = "idle"
      /\ pc["result"] = "idle" /\ pc["framework"] = "idle"
  BY DEF Init, Threads
<1>3. OneTake(workerTasks) /\ \A n \in 1..5 : ~Take(n)
  BY <1>2 DEF OneTake, HasTake, Take
<1>4. TakeOnce /\ TaskGenerations
  BY <1>2, <1>3 DEF TakeOnce, TakesApart, TaskGenerations, OldTasks
<1>5. WithoutPicture /\ FaultFree /\ Undisturbed /\ Alone /\ SendOwned
  BY <1>2 DEF WithoutPicture, FaultFree, Undisturbed, Alone, SendOwned, Unsent
<1>6. next = 1 /\ \A r \in Requests : ~(r < next)
  BY Bounds DEF Init, Requests
<1>7. Exact(Kinds)
  BY <1>6 DEF Init, Exact, Asked
<1> QED
  BY <1>1, <1>4, <1>5, <1>7 DEF ReturnInv

LEMMA ReturnNext == ReturnInv /\ [Next]_vars => ReturnInv'
<1> SUFFICES ASSUME ReturnInv, [Next]_vars PROVE ReturnInv'
  OBVIOUS
<1>1. AnswerInv' /\ StillInv' /\ SessionStep
  BY AnswerNext, StillNext, Steps DEF ReturnInv
<1> USE DEF ReturnInv, AnswerInv, StillInv, FlushInv, FramesInv
<1>2. TakeOnce'
  BY <1>1, TakeOnceKept DEF Types
<1>3. WithoutPicture'
  BY <1>1, WithoutPictureKept
<1>4. TaskGenerations'
  BY <1>1, TaskGenerationsKept
<1>5. FaultFree'
  BY <1>1, FaultFreeKept DEF Types
<1>6. Undisturbed'
  BY <1>1, UndisturbedKept
<1>7. Alone'
  BY <1>1, AloneKept
<1>8. SendOwned'
  BY <1>1, SendOwnedKept
<1>9. ASSUME ReturnsOnce(scenario)' PROVE Exact(Kinds)'
  <2>1. ReturnsOnce(scenario)
    BY <1>1, <1>9, ScenarioConstant DEF ScenarioStays
  <2>2. StillSettled(Kinds)
    BY <2>1, StillIsSettled
  <2> QED
    BY <1>1, <2>1, <2>2, ExactKept
<1> QED
  BY <1>1, <1>2, <1>3, <1>4, <1>5, <1>6, <1>7, <1>8, <1>9

LEMMA ReturnAlways == Spec => []ReturnInv
<1> QED
  BY ReturnInit, ReturnNext, PTL DEF Spec

(* flush(), the worker, the picture thread and the others never give the same *)
(* buffer back twice, in a session without a still, and in one with one still *)
(* whose fence and take do not fail or that is never flushed (failFrame,       *)
(* takePictureWorker, handleJpeg).  Where they do fail, a flush that overtakes *)
(* the worker gives the JPEG buffer back a second time.                       *)
THEOREM BuffersReturnOnce == Spec => [](ReturnsOnce(scenario) => ReturnedOnce)
<1>1. ReturnInv => (ReturnsOnce(scenario) => ReturnedOnce)
  BY DEF ReturnInv, Exact, ReturnedOnce
<1> QED
  BY <1>1, ReturnAlways, PTL

-----------------------------------------------------------------------------
(* The whole contract.                                                      *)

LEMMA ContractMapped ==
  /\ Contract!Requests = Requests /\ Contract!Kinds = Kinds
  /\ Owed(Kinds) = [r \in Requests |-> [k \in Kinds |-> (IF k \in Asked(r) THEN 1 ELSE 0) - returned[r][k]]]
  /\ Owed(Kinds)' = [r \in Requests |-> [k \in Kinds |-> (IF k \in Asked(r) THEN 1 ELSE 0) - returned[r][k]]]'
  BY DEF Contract!Requests, Contract!Kinds, Requests, Kinds, Owed

LEMMA ContractInit == Init => Contract!Init
<1> SUFFICES ASSUME Init PROVE Contract!Init
  OBVIOUS
<1>1. next = 1 /\ \A r \in Requests : ~(r < next)
  BY Bounds DEF Init, Requests
<1>2. Owed(Kinds) = [r \in Requests |-> [k \in Kinds |-> 0]]
  BY <1>1 DEF Init, Owed, Asked
<1>3. Heard = [r \in Requests |-> {}]
  BY DEF Init, Heard
<1> QED
  BY <1>1, <1>2, <1>3, ContractMapped DEF Contract!Init, Heard

LEMMA ContractNext ==
  ReturnInv /\ ReturnsOnce(scenario) /\ [Next]_vars => [Contract!Next]_Contract!vars
<1> SUFFICES ASSUME ReturnInv, ReturnsOnce(scenario), [Next]_vars PROVE [Contract!Next]_Contract!vars
  OBVIOUS
<1>1. ReturnInv' /\ SessionStep /\ ReturnsOnce(scenario)'
  BY ReturnNext, Steps, ScenarioConstant DEF ScenarioStays
<1> USE DEF ReturnInv, AnswerInv, FramesInv
<1>2. Owed(Kinds) = Present(Kinds) /\ Owed(Kinds)' = Present(Kinds)'
  BY <1>1, OwedIsPresent
<1>3. ContractStep(Kinds)
  BY <1>1, ContractSteps, StillIsSettled DEF StillInv
<1>4. next \in Nat /\ MaxRequests \in Nat /\ \A r \in Requests : r \in Nat /\ r <= MaxRequests
  BY Bounds, Asking DEF Types, Requests
<1>5. CASE UNCHANGED <<next, Present(Kinds), Heard>>
  BY <1>2, <1>5, ContractMapped DEF Contract!vars, Heard
<1>6. ASSUME NEW r \in Requests, Submitted(Kinds, r) PROVE Contract!Next
  <2>1. next - 1 < MaxRequests /\ next' - 1 = (next - 1) + 1 /\ (next - 1) + 1 = r
    BY <1>4, <1>6 DEF Submitted
  <2>2. PICK ks \in SUBSET Kinds : ks = Outputs[r] \cap Kinds
    OBVIOUS
  <2>3. Contract!Submit(ks)
    BY <1>2, <1>6, <2>1, <2>2, ContractMapped DEF Submitted, Contract!Submit, Heard
  <2> QED
    BY <2>3, ContractMapped DEF Contract!Next
<1>7. ASSUME NEW r \in Requests, Rejected(Kinds, r) PROVE Contract!Next
  <2>1. next - 1 < MaxRequests /\ next' - 1 = (next - 1) + 1 /\ (next - 1) + 1 = r
    BY <1>4, <1>7 DEF Rejected
  <2>2. Contract!Reject
    BY <1>2, <1>7, <2>1, ContractMapped DEF Rejected, Contract!Reject, Heard
  <2> QED
    BY <2>2 DEF Contract!Next
<1>8. ASSUME NEW r \in Requests, NEW ks \in SUBSET Kinds, Resulted(Kinds, r, ks)
      PROVE  Contract!Next
  <2>1. r <= next - 1 /\ next' - 1 = next - 1
    BY <1>4, <1>8 DEF Resulted
  <2>2. /\ \A k \in ks : Owed(Kinds)[r][k] = 1
        /\ Owed(Kinds)' = [Owed(Kinds) EXCEPT ![r] = [k \in Kinds |-> IF k \in ks THEN 0 ELSE @[k]]]
    BY <1>2, <1>8 DEF Resulted
  <2>3. CASE UNCHANGED Heard
    <3>1. Contract!Result(r, ks)
      BY <2>1, <2>2, <2>3, ContractMapped DEF Contract!Result, Heard
    <3> QED
      BY <3>1, ContractMapped DEF Contract!Next
  <2>4. ASSUME NEW a \in {"metadata", "error"}, Heard[r] = {}, Heard' = [Heard EXCEPT ![r] = {a}]
        PROVE  Contract!Next
    <3>1. Contract!Result(r, ks)
      BY <2>1, <2>2, <2>4, ContractMapped DEF Contract!Result, Heard
    <3> QED
      BY <3>1, ContractMapped DEF Contract!Next
  <2> QED
    BY <1>8, <2>3, <2>4 DEF Resulted, HeardOf
<1> QED
  BY <1>3, <1>5, <1>6, <1>7, <1>8 DEF ContractStep

(* What the framework sees of such sessions is FrameContract: each buffer once,*)
(* each request answered once, by its metadata or by an error                 *)
(* (process_capture_request, process_capture_result, notify).                *)
THEOREM ContractIsKept ==
  ASSUME \A s \in Scenarios : ReturnsOnce(s)
  PROVE  Spec => ContractSpec
<1>1. ReturnInv => ReturnsOnce(scenario)
  BY DEF ReturnInv, AnswerInv, FramesInv, Types, SessionTypes
<1>2. ReturnInv /\ [Next]_vars => [Contract!Next]_Contract!vars
  BY <1>1, ContractNext
<1> QED
  BY <1>2, ContractInit, ReturnAlways, PTL DEF Spec, Contract!Spec, ContractSpec

=============================================================================
