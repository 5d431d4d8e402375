------------------------ MODULE CaptureSessionProofs ------------------------
(***************************************************************************)
(* Proofs about CaptureSession, for any scenarios and any queue depth.      *)
(*                                                                         *)
(* The argument follows a frame.  Place(p, r) says that frame r is at p: in *)
(* a container, in the hands of a thread, or inside a failFrame().  A step  *)
(* of the session moves at most one frame, from one place to another        *)
(* (Moved), drops one (Dropped), lets a flush take a whole container         *)
(* (FlushTakes), or moves none; the lemmas <Action>Moves say which.  From   *)
(* them follow that a frame is at one place (OnePlace), that containers     *)
(* never hold one twice (NoneTwice), and that a frame with a buffer is      *)
(* somewhere (Held).  They rest on where each thread can be (ControlInv),   *)
(* on who may hold backendOpsMutex_ (LocksInv), and on what flush() and     *)
(* close() have done so far (CallsInv).                                    *)
(***************************************************************************)
EXTENDS CaptureSession, FiniteSetTheorems, SequenceTheorems, TLAPS

(* A finite set of numbers that is not empty has a greatest one.            *)
LEMMA MaxExists ==
  ASSUME NEW S \in SUBSET Nat, IsFiniteSet(S), S # {}
  PROVE  Max(S) \in S /\ \A y \in S : Max(S) >= y
<1> DEFINE HasMax(U) == \E x \in U : \A y \in U : x >= y
           Bad == { U \in FiniteSubsetsOf(S) : U # {} /\ ~HasMax(U) }
<1>1. Bad = {}
  <2> SUFFICES ASSUME Bad # {} PROVE FALSE
    OBVIOUS
  <2>1. PICK U \in Bad : \A V \in Bad : ~(<<V, U>> \in StrictSubsetOrdering(S))
    BY FS_StrictSubsetOrderingWellFounded, WFMin
  <2>2. U \in SUBSET S /\ IsFiniteSet(U) /\ U # {} /\ ~HasMax(U)
    BY DEF FiniteSubsetsOf
  <2>3. PICK x \in U : TRUE
    BY <2>2
  <2> DEFINE V == U \ {x}
  <2>4. IsFiniteSet(V) /\ V \in SUBSET S
    BY <2>2, FS_RemoveElement
  <2>5. <<V, U>> \in StrictSubsetOrdering(S)
    BY <2>2, <2>3, <2>4 DEF StrictSubsetOrdering
  <2>6. V \notin Bad
    BY <2>1, <2>5
  <2>7. V = {} \/ HasMax(V)
    BY <2>4, <2>6 DEF FiniteSubsetsOf
  <2>8. CASE V = {}
    <3>1. U = {x}
      BY <2>3, <2>8
    <3> QED
      BY <2>2, <3>1
  <2>9. CASE HasMax(V)
    <3>1. PICK y \in V : \A z \in V : y >= z
      BY <2>9
    <3>2. x \in Nat /\ y \in Nat /\ U = V \cup {x} /\ \A z \in V : z \in Nat
      BY <2>2, <2>3, <2>4
    <3>3. CASE x >= y
      <4>1. \A z \in U : x >= z
        BY <3>1, <3>2, <3>3
      <4> QED
        BY <2>2, <2>3, <4>1
    <3>4. CASE y >= x
      <4>1. \A z \in U : y >= z
        BY <3>1, <3>2, <3>4
      <4> QED
        BY <2>2, <3>1, <4>1
    <3> QED
      BY <3>2, <3>3, <3>4
  <2> QED
    BY <2>7, <2>8, <2>9
<1>2. S \in FiniteSubsetsOf(S)
  BY DEF FiniteSubsetsOf
<1>3. HasMax(S)
  BY <1>1, <1>2
<1> HIDE DEF Bad
<1> QED
  BY <1>3 DEF Max

LEMMA Bounds ==
  /\ MaxRequests \in Nat /\ MaxFlushes \in Nat
  /\ \A s \in Scenarios : Len(s.outputs) <= MaxRequests /\ s.flushes <= MaxFlushes
<1> DEFINE L == { Len(s.outputs) : s \in Scenarios }  F == { s.flushes : s \in Scenarios }
<1>1. L \in SUBSET Nat /\ F \in SUBSET Nat /\ L # {} /\ F # {}
  <2>1. \A s \in Scenarios : Len(s.outputs) \in Nat /\ s.flushes \in Nat
    BY ScenarioAssumption, LenProperties
  <2>2. PICK s \in Scenarios : TRUE
    BY ScenarioAssumption
  <2> QED
    BY <2>1, <2>2
<1>2. [s \in Scenarios |-> Len(s.outputs)] \in Surjection(Scenarios, L)
  BY DEF Surjection
<1>3. [s \in Scenarios |-> s.flushes] \in Surjection(Scenarios, F)
  BY DEF Surjection
<1>4. IsFiniteSet(L) /\ IsFiniteSet(F)
  BY <1>2, <1>3, ScenarioAssumption, FS_Surjection
<1> QED
  BY <1>1, <1>4, MaxExists DEF MaxRequests, MaxFlushes

-----------------------------------------------------------------------------
(* Sequences                                                               *)

NoRepeats(s) == \A i, j \in DOMAIN s : s[i] = s[j] => i = j

LEMMA EmptySequence ==
  ToSet(<< >>) = {} /\ NoRepeats(<< >>) /\ \A S : << >> \in Seq(S)
<1>1. DOMAIN << >> = {}
  OBVIOUS
<1> QED
  BY <1>1 DEF ToSet, NoRepeats

LEMMA Appended ==
  ASSUME NEW S, NEW s \in Seq(S), NEW x \in S
  PROVE  /\ Append(s, x) \in Seq(S)
         /\ Len(Append(s, x)) = Len(s) + 1
         /\ Append(s, x) # << >>
         /\ ToSet(Append(s, x)) = ToSet(s) \cup {x}
         /\ NoRepeats(s) /\ x \notin ToSet(s) => NoRepeats(Append(s, x))
<1> DEFINE a == Append(s, x)  n == Len(s)
<1>1. /\ a \in Seq(S) /\ Len(a) = n + 1 /\ n \in Nat /\ a[n + 1] = x
      /\ \A i \in 1..n : a[i] = s[i]
  BY AppendProperties, LenProperties
<1>2. DOMAIN a = 1..(n + 1) /\ DOMAIN s = 1..n
  BY <1>1, LenProperties
<1>3. \A i \in 1..(n + 1) : i \in 1..n \/ i = n + 1
  BY <1>1
<1>4. 1..n \subseteq 1..(n + 1) /\ n + 1 \in 1..(n + 1)
  BY <1>1
<1> HIDE DEF a, n
<1>5. ToSet(a) = ToSet(s) \cup {x}
  BY <1>1, <1>2, <1>3, <1>4 DEF ToSet
<1>6. ASSUME NoRepeats(s), x \notin ToSet(s) PROVE NoRepeats(a)
  BY <1>1, <1>2, <1>3, <1>6 DEF ToSet, NoRepeats
<1>7. a # << >>
  BY <1>2, <1>4, EmptySequence
<1> QED
  BY <1>1, <1>5, <1>6, <1>7 DEF a, n

LEMMA Split ==
  ASSUME NEW S, NEW s \in Seq(S), s # << >>
  PROVE  /\ Head(s) \in S /\ Tail(s) \in Seq(S)
         /\ Len(Tail(s)) = Len(s) - 1
         /\ ToSet(s) = {Head(s)} \cup ToSet(Tail(s))
         /\ NoRepeats(s) => NoRepeats(Tail(s)) /\ Head(s) \notin ToSet(Tail(s))
<1>1. Head(s) \in S /\ Tail(s) \in Seq(S) /\ Len(Tail(s)) = Len(s) - 1
  BY HeadTailProperties
<1>2. ToSet(s) = {Head(s)} \cup ToSet(Tail(s))
  <2>1. ASSUME NEW x \in ToSet(s) PROVE x = Head(s) \/ x \in ToSet(Tail(s))
    <3>1. PICK i \in 1..Len(s) : x = s[i]
      BY <2>1 DEF ToSet
    <3>2. CASE i = 1
      BY <3>1, <3>2
    <3>3. CASE i # 1
      <4>1. i - 1 \in 1..Len(Tail(s)) /\ Tail(s)[i - 1] = x
        BY <1>1, <3>1, <3>3
      <4>2. DOMAIN Tail(s) = 1..Len(Tail(s))
        BY <1>1, LenProperties
      <4> QED
        BY <4>1, <4>2 DEF ToSet
    <3> QED
      BY <3>2, <3>3
  <2>2. Head(s) \in ToSet(s)
    BY DEF ToSet
  <2>3. ASSUME NEW x \in ToSet(Tail(s)) PROVE x \in ToSet(s)
    BY <1>1, <2>3 DEF ToSet
  <2> QED
    BY <2>1, <2>2, <2>3
<1>3. ASSUME NoRepeats(s) PROVE NoRepeats(Tail(s)) /\ Head(s) \notin ToSet(Tail(s))
  BY <1>1, <1>3 DEF NoRepeats, ToSet
<1> QED
  BY <1>1, <1>2, <1>3

LEMMA Joined ==
  ASSUME NEW S, NEW s \in Seq(S), NEW t \in Seq(S)
  PROVE  /\ s \o t \in Seq(S)
         /\ ToSet(s \o t) = ToSet(s) \cup ToSet(t)
         /\ NoRepeats(s) /\ NoRepeats(t) /\ (\A x \in ToSet(s) : x \notin ToSet(t))
            => NoRepeats(s \o t)
<1>1. s \o t \in Seq(S) /\ Len(s \o t) = Len(s) + Len(t)
      /\ Len(s) \in Nat /\ Len(t) \in Nat
  BY ConcatProperties, LenProperties
<1>2. \A i \in 1..Len(s) : (s \o t)[i] = s[i]
  OBVIOUS
<1>3. \A i \in 1..Len(t) : (s \o t)[Len(s) + i] = t[i]
  OBVIOUS
<1>4. ASSUME NEW i \in 1..Len(s \o t)
      PROVE  i \in 1..Len(s) \/ \E j \in 1..Len(t) : i = Len(s) + j
  <2>1. CASE i <= Len(s)
    BY <1>1, <2>1
  <2>2. CASE i > Len(s)
    <3>1. i - Len(s) \in 1..Len(t) /\ i = Len(s) + (i - Len(s))
      BY <1>1, <2>2
    <3> QED
      BY <3>1
  <2> QED
    BY <1>1, <2>1, <2>2
<1>5. ToSet(s \o t) = ToSet(s) \cup ToSet(t)
  <2>1. ASSUME NEW x \in ToSet(s \o t) PROVE x \in ToSet(s) \/ x \in ToSet(t)
    BY <1>1, <1>2, <1>3, <1>4, <2>1 DEF ToSet
  <2>2. ASSUME NEW x \in ToSet(s) PROVE x \in ToSet(s \o t)
    BY <1>1, <1>2, <2>2 DEF ToSet
  <2>3. ASSUME NEW x \in ToSet(t) PROVE x \in ToSet(s \o t)
    BY <1>1, <1>3, <2>3 DEF ToSet
  <2> QED
    BY <2>1, <2>2, <2>3
<1>6. ASSUME NoRepeats(s), NoRepeats(t), \A x \in ToSet(s) : x \notin ToSet(t)
      PROVE  NoRepeats(s \o t)
  <2> SUFFICES ASSUME NEW i \in 1..Len(s \o t), NEW j \in 1..Len(s \o t),
                      (s \o t)[i] = (s \o t)[j]
               PROVE  i = j
    BY <1>1 DEF NoRepeats
  <2>1. CASE i \in 1..Len(s) /\ j \in 1..Len(s)
    BY <1>2, <1>6, <2>1 DEF NoRepeats
  <2>2. ASSUME NEW m \in 1..Len(t), NEW n \in 1..Len(t), i = Len(s) + m, j = Len(s) + n
        PROVE  i = j
    BY <1>3, <1>6, <2>2 DEF NoRepeats
  <2>3. ASSUME NEW m \in 1..Len(s), NEW n \in 1..Len(t) PROVE s[m] # t[n]
    <3>1. s[m] \in ToSet(s) /\ t[n] \in ToSet(t)
      BY LenProperties DEF ToSet
    <3> QED
      BY <1>6, <3>1
  <2>4. ASSUME NEW m \in 1..Len(s), NEW n \in 1..Len(t),
               (i = m /\ j = Len(s) + n) \/ (j = m /\ i = Len(s) + n)
        PROVE  FALSE
    BY <1>2, <1>3, <2>3, <2>4
  <2> QED
    <3>1. i \in 1..Len(s) \/ \E m \in 1..Len(t) : i = Len(s) + m
      BY <1>4
    <3>2. j \in 1..Len(s) \/ \E n \in 1..Len(t) : j = Len(s) + n
      BY <1>4
    <3> QED
      BY <3>1, <3>2, <2>1, <2>2, <2>4
<1> QED
  BY <1>1, <1>5, <1>6

LEMMA Put == ASSUME NEW S, NEW x \in S
  PROVE  <<x>> \in Seq(S) /\ ToSet(<<x>>) = {x} /\ NoRepeats(<<x>>)
  BY DEF ToSet, NoRepeats

LEMMA NoneToSequence == SetToSeq({}) = << >>
<1> DEFINE F == [1..Cardinality({}) -> {}]
<1>1. Cardinality({}) = 0
  BY FS_EmptySet
<1>2. \A f \in F : f = << >>
  BY <1>1
<1>3. << >> \in F /\ IsInjective(<< >>)
  BY <1>1 DEF IsInjective
<1>4. \E f \in F : IsInjective(f)
  BY <1>3
<1>5. SetToSeq({}) \in F
  BY <1>4 DEF SetToSeq
<1> QED
  BY <1>2, <1>5

LEMMA PutFirst == ASSUME NEW S, NEW s \in Seq(S), NEW x \in S
  PROVE  /\ <<x>> \o s \in Seq(S) /\ ToSet(<<x>> \o s) = {x} \cup ToSet(s)
         /\ NoRepeats(s) /\ x \notin ToSet(s) => NoRepeats(<<x>> \o s)
<1> DEFINE one == <<x>>
<1>1. one \in Seq(S) /\ ToSet(one) = {x} /\ NoRepeats(one)
  BY Put
<1> HIDE DEF one
<1>2. /\ one \o s \in Seq(S) /\ ToSet(one \o s) = {x} \cup ToSet(s)
      /\ NoRepeats(s) /\ x \notin ToSet(s) => NoRepeats(one \o s)
  BY <1>1, Joined
<1> QED
  BY <1>2 DEF one

-----------------------------------------------------------------------------
(* The steps of the device, one by one.                                     *)

Stutter == UNCHANGED vars
SessionStep ==
  \/ RejectRawRequest \/ AcceptRequest \/ UpdateBackendParameters \/ Reserve \/ Enqueue
  \/ PostRequest
  \/ PopTask \/ StartPreviewCheck \/ StartPreview \/ TakePictureCheck \/ TakePictureFence
  \/ TakePicture \/ PictureStart \/ FinishWorker \/ TakePictureFinished \/ TakePictureClear
  \/ RestartAfterFailure
  \/ NextNativeFrame \/ DrainPreview \/ DequeuePreview \/ SourceFence \/ SourceFenceTimeout
  \/ DequeueRecheck \/ CopyPreview
  \/ BlitPop \/ BlitComplete \/ BlitRequeue
  \/ ResultPop \/ Deliver \/ ScheduleJpeg \/ PostTakePicture
  \/ PictureThread \/ PictureTaken \/ DataCallback \/ HandleJpeg \/ HandleJpegCheck
  \/ SendJpeg \/ RestartCheck \/ RestartPreview \/ FinishCallback
  \/ Flush \/ Close
  \/ CloseJoin \/ CloseFlush \/ FlushDrainJpeg \/ FlushLock \/ CancelPicture
  \/ PictureCancelled \/ FlushStopPreview \/ FlushCollect \/ FlushResults
  \/ FlushResultIdle \/ FlushFail \/ FlushEnd \/ CloseEnd
  \/ (\E t \in Threads : FailLook(t) \/ FailReturn(t) \/ FailStill(t))
  \/ Stutter

LEMMA Steps == ASSUME [Next]_vars PROVE SessionStep
<1>1. ASSUME NEW t \in Threads, FailFrame(t)
      PROVE  \E u \in Threads : FailLook(u) \/ FailReturn(u) \/ FailStill(u)
  BY <1>1 DEF FailFrame
<1>2. {"framework", "worker", "capture", "blit", "result", "picture", "flusher"} \subseteq Threads
  BY DEF Threads
<1> QED
  BY <1>1, <1>2 DEF Next, Framework, Worker, Capture, Blit, Result, Picture, Calls, Flusher,
     Rest, Stutter, SessionStep

-----------------------------------------------------------------------------
(* Where each thread is, what it holds and whom it fails there.             *)

FrameworkOK ==
  /\ pc["framework"] \in {"idle", "parameters", "reserve", "enqueue", "post"}
  /\ job["framework"] = None <=> pc["framework"] = "idle"
  /\ failing["framework"] # None => pc["framework"] = "idle"
CaptureOK ==
  /\ pc["capture"] \in {"off", "loop", "dequeue", "fence", "recheck", "copy"}
  /\ job["capture"] # None <=> pc["capture"] \in {"fence", "recheck", "copy"}
  /\ failing["capture"] # None => pc["capture"] \in {"loop", "dequeue"}
BlitOK ==
  /\ pc["blit"] \in {"idle", "blit", "requeue"}
  /\ job["blit"] # None <=> pc["blit"] = "blit"
  /\ failing["blit"] # None => pc["blit"] = "requeue"
ResultOK ==
  /\ pc["result"] \in {"idle", "deliver", "schedule", "post", "exited"}
  /\ job["result"] # None <=> pc["result"] \in {"deliver", "schedule", "post"}
  /\ failing["result"] # None => pc["result"] = "idle"
Calling == {"check", "send", "restart", "post", "finish"}
PictureOK ==
  /\ pc["picture"] \in {"off", "started", "enabled", "expose", "encode", "callback"} \cup Calling
  /\ job["picture"] # None => pc["picture"] \in Calling
  /\ pc["picture"] \in {"send", "restart", "post"} => job["picture"] # None
  /\ failing["picture"] # None => pc["picture"] \in {"restart", "finish"}
FlushWork == {"lock", "cancel", "waitPicture", "stopPreview", "collect", "results",
              "resultIdle", "fail"}
FlusherOK ==
  /\ pc["flusher"] \in {"idle", "join", "flush", "drainJpeg", "stopResult", "closed"} \cup FlushWork
  /\ job["flusher"] # None => pc["flusher"] \in FlushWork \ {"fail"}
  /\ failing["flusher"] # None => pc["flusher"] = "fail"
Taking == {"fence", "takePicture", "stopPreview", "finish"}
WorkerOK ==
  /\ pc["worker"] \in {"idle", "start", "startPreview", "take", "finished", "clearStill",
                       "restart", "exited"} \cup Taking
  /\ job["worker"] # None <=> pc["worker"] \in Taking \cup {"finished", "clearStill"}
  /\ failing["worker"] # None =>
       pc["worker"] = "clearStill" /\ failing["worker"].frame = job["worker"]
ControlInv ==
  FrameworkOK /\ CaptureOK /\ BlitOK /\ ResultOK /\ PictureOK /\ FlusherOK /\ WorkerOK

(* Types, in parts.                                                         *)
SessionTypes ==
  /\ scenario \in Scenarios
  /\ next \in 1..(Len(Outputs) + 1)
PcType == pc \in [Threads -> Points]
JobType == job \in [Threads -> Requests \cup {None}]
FailingType == failing \in [Threads -> Failures \cup {None}]
ControlTypes == PcType /\ JobType /\ FailingType
QueueTypes ==
  /\ previewQueue \in Seq(Requests) /\ resultQueue \in Seq(Requests)
  /\ videoBlitQueue \in Seq(Requests) /\ todo \in Seq(Requests) /\ shutters \in Seq(Requests)
SlotTypes ==
  /\ inFlightPreview \subseteq Requests /\ abandoned \subseteq Requests
  /\ pendingJpeg \in Requests \cup {None} /\ scratchInUse \in Requests \cup {None}
OwnedType == owned \in [Requests -> SUBSET Kinds]
ReturnedType == returned \in [Requests -> [Kinds -> Nat]]
AnswerTypes == metadataReturned \subseteq Requests /\ requestErrorNotified \subseteq Requests
GenerationType == generation \in [Requests -> Nat]
FrameTypes == OwnedType /\ ReturnedType /\ AnswerTypes /\ GenerationType
Tasks == [task : {"start", "take", "exit"}, gen : Nat]
TaskTypes ==
  /\ workerTasks \in Seq(Tasks)
  /\ sessionGeneration \in Nat /\ taskGeneration \in Nat
FlagTypes ==
  /\ closing \in BOOLEAN /\ flushing \in BOOLEAN /\ previewAbort \in BOOLEAN
  /\ stillQueued \in BOOLEAN /\ jpegWorkerActive \in BOOLEAN /\ previewStarted \in BOOLEAN
  /\ preview_enabled \in BOOLEAN /\ callbacksUser \in BOOLEAN
  /\ rc \in {"ok", "failed", "fence", "stale"} /\ node0 \in {"off", "preview", "picture"}
Types ==
  /\ SessionTypes /\ ControlTypes /\ QueueTypes /\ SlotTypes /\ FrameTypes /\ TaskTypes
  /\ FlagTypes

(* Who holds backendOpsMutex_, and who is counted.                           *)
LocksInv ==
  /\ backendOps \in {None, "worker", "flusher"}
  /\ backendOps = "worker" <=> pc["worker"] = "stopPreview"
  /\ backendOps = "flusher" <=> pc["flusher"] \in {"cancel", "waitPicture", "stopPreview"}
  /\ jpegWorkerActive <=> pc["worker"] \in Taking
  /\ jpegCallbacksActive = IF pc["picture"] \in Calling THEN 1 ELSE 0

(* The preview thread runs while it is enabled, or while somebody stops it. *)
CaptureRuns == pc["capture"] # "off" => preview_enabled \/ backendOps # None

(* What flush() and closeInternal have changed of the session so far.        *)
CallsInv ==
  /\ flushing <=> pc["flusher"] \in FlushWork \cup {"drainJpeg"}
  /\ op \in {"none", "flush", "close"} /\ (closing <=> op = "close")
  /\ pc["flusher"] = "idle" <=> op = "none"
  /\ pc["flusher"] \in {"join", "flush", "stopResult", "closed"} => closing
  /\ flushes \in 0..scenario.flushes
  /\ sessionGeneration = flushes + (IF ~closing THEN 0
                                    ELSE IF pc["flusher"] \in {"join", "flush"} THEN 1 ELSE 2)

(* When the preview has been stopped, no frame is in its hands.              *)
Collecting == {"collect", "results", "resultIdle", "fail"}
NothingToCollect == pc["flusher"] \in Collecting => inFlightPreview = {}

(* The recording thread's backlog is bounded.                               *)
BacklogOK ==
  Len(videoBlitQueue) + (IF pc["blit"] = "idle" THEN 0 ELSE 1) <= QueueDepth

LEMMA Outside ==
  /\ None \notin Requests /\ None \notin {"worker", "flusher"}
  /\ \A r \in Requests, ks \in SUBSET Kinds, step \in {"look", "return", "still"} :
       [frame |-> r, step |-> step, has |-> ks] # None
  BY NoneAssumption DEF Threads, Failures

LEMMA Asking ==
  ASSUME SessionTypes
  PROVE  /\ Len(Outputs) \in Nat /\ Len(Outputs) <= MaxRequests /\ MaxRequests \in Nat
         /\ scenario.flushes \in Nat /\ scenario.flushes <= MaxFlushes /\ MaxFlushes \in Nat
         /\ next \in Nat /\ next > 0
         /\ next <= Len(Outputs) => next \in Requests /\ next \in DOMAIN Outputs
         /\ DOMAIN Outputs = 1..Len(Outputs)
         /\ \A r \in DOMAIN Outputs : Outputs[r] \subseteq Kinds /\ Outputs[r] # {}
<1>1. Outputs \in Seq((SUBSET Kinds) \ {{}}) /\ scenario.flushes \in Nat
  BY ScenarioAssumption DEF SessionTypes, Outputs
<1>2. Len(Outputs) <= MaxRequests /\ scenario.flushes <= MaxFlushes
      /\ MaxRequests \in Nat /\ MaxFlushes \in Nat
  BY Bounds DEF SessionTypes, Outputs
<1>3. Len(Outputs) \in Nat /\ DOMAIN Outputs = 1..Len(Outputs)
  BY <1>1, LenProperties
<1>4. \A r \in DOMAIN Outputs : Outputs[r] \subseteq Kinds /\ Outputs[r] # {}
  BY <1>1, <1>3, ElementOfSeq
<1>5. next \in Nat /\ next > 0
  BY <1>3 DEF SessionTypes
<1>6. next <= Len(Outputs) => next \in Requests /\ next \in DOMAIN Outputs
  BY <1>2, <1>3, <1>5 DEF Requests
<1> QED
  BY <1>1, <1>2, <1>3, <1>4, <1>5, <1>6

LEMMA QueueHeads ==
  ASSUME QueueTypes, NEW q \in {previewQueue, resultQueue, videoBlitQueue, todo}, q # << >>
  PROVE  Head(q) \in Requests /\ Tail(q) \in Seq(Requests)
<1>1. q \in Seq(Requests)
  BY DEF QueueTypes
<1> QED
  BY <1>1, HeadTailProperties

LEMMA TaskHeads ==
  ASSUME TaskTypes, workerTasks # << >>
  PROVE  /\ Head(workerTasks).task \in {"start", "take", "exit"}
         /\ Head(workerTasks).gen \in Nat
         /\ Tail(workerTasks) \in Seq(Tasks)
<1>1. Head(workerTasks) \in Tasks /\ Tail(workerTasks) \in Seq(Tasks)
  BY HeadTailProperties DEF TaskTypes
<1> QED
  BY <1>1 DEF Tasks

LEMMA TaskPosted ==
  ASSUME TaskTypes, NEW task \in {"start", "take", "exit"}, NEW g \in Nat, PostTask(task, g)
  PROVE  workerTasks' \in Seq(Tasks)
<1>1. [task |-> task, gen |-> g] \in Tasks
  BY DEF Tasks
<1>2. Append(workerTasks, [task |-> task, gen |-> g]) \in Seq(Tasks)
  BY <1>1, Appended DEF TaskTypes
<1> QED
  BY <1>2 DEF PostTask, TaskTypes

LEMMA ExitsAreTasks == ASSUME TaskTypes PROVE Exits(workerTasks) \in Seq(Tasks)
<1> DEFINE exits == { command \in ToSet(workerTasks) : command.task = "exit" }
<1>1. exits \subseteq Tasks
  BY LenProperties, ElementOfSeq DEF TaskTypes, ToSet
<1>2. CASE exits = {}
  BY <1>2, EmptySequence DEF Exits
<1>3. CASE exits # {}
  <2> DEFINE e == CHOOSE command \in exits : TRUE
  <2>1. e \in Tasks
    BY <1>1, <1>3
  <2>2. Exits(workerTasks) = <<e>>
    BY <1>3 DEF Exits
  <2> HIDE DEF e
  <2> QED
    BY <2>1, <2>2, Put
<1> QED
  BY <1>2, <1>3

LEMMA FailuresStart ==
  \A r \in Requests : [frame |-> r, step |-> "look", has |-> {}] \in Failures
  BY DEF Failures

(* Whoever is about to fail a frame has one.                                *)
LEMMA JobsAreRequests ==
  ASSUME ControlTypes, ControlInv
  PROVE  /\ pc["framework"] # "idle" => job["framework"] \in Requests
         /\ pc["capture"] \in {"fence", "recheck", "copy"} => job["capture"] \in Requests
         /\ pc["blit"] = "blit" => job["blit"] \in Requests
         /\ pc["result"] \in {"deliver", "schedule", "post"} => job["result"] \in Requests
         /\ job["picture"] # None => job["picture"] \in Requests
         /\ pc["picture"] \in {"send", "restart", "post"} => job["picture"] \in Requests
         /\ pc["worker"] \in Taking \cup {"finished", "clearStill"} => job["worker"] \in Requests
         /\ job["flusher"] # None => job["flusher"] \in Requests
  BY DEF ControlTypes, JobType, ControlInv, FrameworkOK, CaptureOK, BlitOK, ResultOK,
         PictureOK, FlusherOK, WorkerOK, Threads

LEMMA GivenBack ==
  ASSUME ReturnedType, NEW r \in Requests, NEW ks, GiveBack(r, ks)
  PROVE  ReturnedType'
<1>1. returned[r] \in [Kinds -> Nat]
  BY DEF ReturnedType
<1>2. [k \in Kinds |-> IF k \in ks THEN returned[r][k] + 1 ELSE returned[r][k]] \in [Kinds -> Nat]
  BY <1>1
<1>3. returned' = [returned EXCEPT ![r] =
        [k \in Kinds |-> IF k \in ks THEN returned[r][k] + 1 ELSE returned[r][k]]]
  BY DEF GiveBack
<1> QED
  BY <1>2, <1>3 DEF ReturnedType

LEMMA FailureStarts ==
  ASSUME FailingType, NEW t \in Threads, NEW r \in Requests, StartFailing(t, r)
  PROVE  /\ failing'[t] # None /\ failing'[t].frame = r
         /\ failing'[t].step = "look" /\ failing'[t].has = {}
         /\ \A u \in Threads \ {t} : failing'[u] = failing[u]
<1>1. failing'[t] = [frame |-> r, step |-> "look", has |-> {}]
  BY DEF FailingType, StartFailing
<1>2. [frame |-> r, step |-> "look", has |-> {}] # None
  BY FailuresStart, NoneAssumption
<1> QED
  BY <1>1, <1>2 DEF FailingType, StartFailing

-----------------------------------------------------------------------------
(* Where a frame is: on its way through the device, or with a thread that    *)
(* fails it.  The worker fails a frame that others still know.              *)

Stages == {"asked", "queued", "dequeued", "recording", "recorded", "completed", "delivered",
           "pending", "pictured", "drained", "todo"}
Failers == Threads \ {"worker"}
Places == Stages \cup Failers

Place(p, r) ==
  \/ p = "asked" /\ job["framework"] = r /\ pc["framework"] \in {"parameters", "reserve", "enqueue"}
  \/ p = "queued" /\ r \in ToSet(previewQueue)
  \/ p = "dequeued" /\ job["capture"] = r
  \/ p = "recording" /\ r \in ToSet(videoBlitQueue)
  \/ p = "recorded" /\ job["blit"] = r
  \/ p = "completed" /\ r \in ToSet(resultQueue)
  \/ p = "delivered" /\ job["result"] = r /\ pc["result"] \in {"deliver", "schedule"}
  \/ p = "pending" /\ pendingJpeg = r
  \/ p = "pictured" /\ job["picture"] = r /\ pc["picture"] \in {"check", "send"}
  \/ p = "drained" /\ job["flusher"] = r
  \/ p = "todo" /\ r \in ToSet(todo)
  \/ p \in Failers /\ failing[p] # None /\ failing[p].frame = r

OnePlace == \A r \in Requests, p, q \in Places : Place(p, r) /\ Place(q, r) => p = q
NoneTwice ==
  NoRepeats(previewQueue) /\ NoRepeats(videoBlitQueue) /\ NoRepeats(resultQueue) /\ NoRepeats(todo)
PlacedAreAccepted == \A r \in Requests, p \in Places : Place(p, r) => r < next
InFlightOK ==
  \A r \in Requests :
    r \in inFlightPreview <=>
      job["capture"] = r \/ r \in ToSet(videoBlitQueue) \/ job["blit"] = r
TodoOK == todo # << >> => pc["flusher"] \in FlushWork

(* A step that moves frame r from s to q, where lost may be forgotten.       *)
Moved(r, s, q, lost) ==
  /\ Place(s, r) /\ ~Place(s, r)' /\ Place(q, r)'
  /\ \A p \in Places : Place(p, r)' => p = q \/ Place(p, r)
  /\ \A p \in Places, x \in Requests \ {r} : Place(p, x)' => Place(p, x)
  /\ \A p \in Places, x \in Requests \ {r, lost} : Place(p, x) => Place(p, x)'
(* A step that moves none, where lost may be forgotten.                      *)
Dropped(lost) ==
  /\ \A p \in Places, x \in Requests : Place(p, x)' => Place(p, x)
  /\ \A p \in Places, x \in Requests \ {lost} : Place(p, x) => Place(p, x)'
(* A step that takes all frames of s to q, and one that leaves those of the  *)
(* other places alone.                                                     *)
Taken(q, s) ==
  /\ \A r \in Requests : ~Place(s, r)'
  /\ \A r \in Requests : Place(q, r)' <=> Place(q, r) \/ Place(s, r)
Left(places) == \A p \in Places \ places, r \in Requests : Place(p, r)' <=> Place(p, r)

(* What is left of a frame's buffers, by where it is and who fails it.        *)
OwnedAsked == \A r \in Requests : IF r < next THEN owned[r] \subseteq Outputs[r] ELSE owned[r] = {}
WorkerAccepted == job["worker"] # None => job["worker"] < next
FailedEmpty ==
  /\ \A t \in Threads : failing[t] # None =>
       /\ failing[t].step = "return" => owned[failing[t].frame] \subseteq failing[t].has
       /\ failing[t].step = "still" => owned[failing[t].frame] = {}
  /\ pc["worker"] = "clearStill" /\ failing["worker"] = None => owned[job["worker"]] = {}
ScheduledStill == pc["result"] = "schedule" => "jpeg" \in Outputs[job["result"]]
JpegTurn(r) ==
  \/ pendingJpeg = r \/ job["flusher"] = r
  \/ job["picture"] = r /\ pc["picture"] \in {"check", "send"}
  \/ job["result"] = r /\ pc["result"] = "schedule"
JpegOnly == \A r \in Requests : JpegTurn(r) => owned[r] \subseteq {"jpeg"}
JpegTurns == \A r \in Requests : JpegTurn(r)' => JpegTurn(r) \/ owned'[r] \subseteq {"jpeg"}

(* A frame with buffers is somewhere; one with nothing but its JPEG buffer   *)
(* may be overwritten in pendingJpeg by another still.                      *)
OneStillIn(s) ==
  \A q, r \in DOMAIN s.outputs : "jpeg" \in s.outputs[q] /\ "jpeg" \in s.outputs[r] => q = r
Held ==
  \A r \in Requests :
    owned[r] # {} /\ r \notin abandoned /\ (OneStillIn(scenario) \/ owned[r] # {"jpeg"})
    => \E p \in Places : Place(p, r)

OwnedShrink ==
  /\ next <= next'
  /\ \A r \in Requests : r < next => owned'[r] \subseteq owned[r]
  /\ \A r \in Requests : owned'[r] \subseteq owned[r] \/ (AcceptRequest /\ r = next)
FailureGoesOn(t) ==
  \/ failing'[t] = failing[t] \/ (failing'[t] # None /\ failing'[t].step = "look")
  \/ FailLook(t) \/ FailReturn(t) \/ FailStill(t)
FailuresGoOn ==
  /\ \A t \in Threads : FailureGoesOn(t)
  /\ pc'["worker"] = "clearStill" =>
       \/ pc["worker"] = "clearStill" /\ job'["worker"] = job["worker"]
       \/ failing'["worker"] # None

(* All a step does to the frames.                                            *)
Movement ==
  \/ Dropped(None)
  \/ \E r \in Requests : Dropped(r) /\ (r \in abandoned' \/ owned'[r] = {})
  \/ \E r \in Requests, s, q \in Places : Moved(r, s, q, None)
  \/ \E r \in Requests, s \in Places : Moved(r, s, "pending", pendingJpeg) /\ "jpeg" \in Outputs[r]
  \/ AcceptRequest \/ FlushDrainJpeg \/ FlushResults \/ FlushResultIdle
AbandonedGrow == abandoned \subseteq abandoned'
ScenarioStays == scenario' = scenario


LEMMA ControlInvKept ==
  ASSUME Types, ControlInv, LocksInv, CaptureRuns, SessionStep
  PROVE  ControlInv'
<1> USE DEF Types, ControlInv, ControlTypes, PcType, JobType, FailingType, FrameworkOK,
   CaptureOK, BlitOK, ResultOK, PictureOK, FlusherOK, WorkerOK, Calling, FlushWork,
   Taking, Threads
<1>1. CASE \/ RejectRawRequest \/ Stutter
  <2>1. UNCHANGED <<pc, job, failing>>
    BY <1>1 DEF RejectRawRequest, At, control, Stutter, vars
  <2> QED
    BY <2>1
<1>2. CASE AcceptRequest
  BY <1>2, Outside, Asking DEF AcceptRequest, At, GotoWith, Goto
<1>3. CASE UpdateBackendParameters
  BY <1>3, Outside DEF UpdateBackendParameters, At, Goto
<1>4. CASE Reserve
  BY <1>4, Outside DEF Reserve, At, Goto, GotoWith, StartFailing
<1>5. CASE Enqueue
  BY <1>5, Outside
     DEF Enqueue, At, Goto, GotoWith, NeedsOrderedPreviewCapture, StartFailing
<1>6. CASE PostRequest
  BY <1>6, Outside DEF PostRequest, At, GotoWith, NeedsOrderedPreviewCapture, Goto
<1>7. CASE PopTask
  <2>1. pc' \in {[pc EXCEPT !["worker"] = w] : w \in {"exited", "idle", "start", "take"}}
    BY <1>7, TaskHeads DEF PopTask, Goto
  <2> QED
    BY <1>7, <2>1, Outside
       DEF PopTask, At, CaptureRuns, LocksInv
<1>8. CASE StartPreviewCheck
  BY <1>8, Outside DEF StartPreviewCheck, At, Goto
<1>9. CASE StartPreview
  <2>1. CASE pc' = [pc EXCEPT !["worker"] = "idle"] /\ UNCHANGED <<preview_enabled, node0>>
    BY <1>9, <2>1, Outside
       DEF StartPreview, At, CaptureRuns, LocksInv
  <2>2. CASE pc' = [pc EXCEPT !["worker"] = "idle", !["capture"] = "loop"]
             /\ preview_enabled' = TRUE /\ node0' = "preview" /\ ~preview_enabled
    BY <1>9, <2>2, Outside
       DEF StartPreview, At, CaptureRuns, LocksInv
  <2> QED
    BY <1>9, <2>1, <2>2 DEF StartPreview, Goto
<1>10. CASE TakePictureCheck
  BY <1>10, Outside DEF TakePictureCheck, At, GotoWith, Goto
<1>11. CASE TakePictureFence
  BY <1>11, Outside DEF TakePictureFence, At, Goto
<1>12. CASE TakePicture
  BY <1>12, Outside DEF TakePicture, At, Goto
<1>13. CASE PictureStart
  BY <1>13, Outside DEF PictureStart, At, Goto, PreviewStopped
<1>14. CASE FinishWorker
  BY <1>14, Outside DEF FinishWorker, At, Goto
<1>15. CASE TakePictureFinished
  BY <1>15, Outside DEF TakePictureFinished, At, Goto, GotoWith, StartFailing
<1>16. CASE TakePictureClear
  BY <1>16, Outside DEF TakePictureClear, At, GotoWith, Goto
<1>17. CASE RestartAfterFailure
  BY <1>17, Outside DEF RestartAfterFailure, At, Goto
<1>18. CASE NextNativeFrame
  BY <1>18, Outside DEF NextNativeFrame, At, Goto
<1>19. CASE DrainPreview
  BY <1>19, Outside DEF DrainPreview, At, Goto
<1>20. CASE DequeuePreview
  BY <1>20, Outside, QueueHeads DEF DequeuePreview, At, GotoWith, Goto
<1>21. CASE SourceFence
  BY <1>21, Outside DEF SourceFence, At, Goto
<1>22. CASE SourceFenceTimeout
  BY <1>22, Outside DEF SourceFenceTimeout, At, GotoWith, StartFailing, Goto
<1>23. CASE DequeueRecheck
  BY <1>23, Outside DEF DequeueRecheck, At, Goto, GotoWith
<1>24. CASE CopyPreview
  BY <1>24, Outside
     DEF CopyPreview, At, Complete, GotoWith, VideoBlitRoom, StartFailing, Goto
<1>25. CASE BlitPop
  BY <1>25, Outside, QueueHeads DEF BlitPop, At, GotoWith, Goto
<1>26. CASE BlitComplete
  BY <1>26, Outside DEF BlitComplete, At, Complete, GotoWith, StartFailing, Goto
<1>27. CASE BlitRequeue
  BY <1>27, Outside DEF BlitRequeue, At, Goto
<1>28. CASE ResultPop
  BY <1>28, Outside, QueueHeads DEF ResultPop, At, GotoWith, Goto
<1>29. CASE Deliver
  BY <1>29, Outside DEF Deliver, At, Goto, GotoWith
<1>30. CASE ScheduleJpeg
  BY <1>30, Outside DEF ScheduleJpeg, At, Goto, GotoWith, StartFailing
<1>31. CASE PostTakePicture
  BY <1>31, Outside DEF PostTakePicture, At, GotoWith, Goto
<1>32. CASE PictureThread
  BY <1>32, Outside DEF PictureThread, At, Goto
<1>33. CASE PictureTaken
  BY <1>33, Outside DEF PictureTaken, At, Goto
<1>34. CASE DataCallback
  BY <1>34, Outside DEF DataCallback, At, Goto
<1>35. CASE HandleJpeg
  BY <1>35, Outside DEF HandleJpeg, At, GotoWith, Goto
<1>36. CASE HandleJpegCheck
  BY <1>36, Outside DEF HandleJpegCheck, At, Goto, StartFailing
<1>37. CASE SendJpeg
  BY <1>37, Outside DEF SendJpeg, At, Goto, StartFailing
<1>38. CASE RestartCheck
  BY <1>38, Outside DEF RestartCheck, At, Goto
<1>39. CASE RestartPreview
  BY <1>39, Outside DEF RestartPreview, At, Goto
<1>40. CASE FinishCallback
  BY <1>40, Outside DEF FinishCallback, At, GotoWith, Goto
<1>41. CASE Flush
  BY <1>41, Outside DEF Flush, At, BeginFlush, Goto
<1>42. CASE Close
  BY <1>42, Outside DEF Close, At, Goto
<1>43. CASE CloseJoin
  BY <1>43, Outside DEF CloseJoin, At, Goto
<1>44. CASE CloseFlush
  BY <1>44, Outside DEF CloseFlush, At, BeginFlush, Goto
<1>45. CASE FlushDrainJpeg
  BY <1>45, Outside DEF FlushDrainJpeg, At, GotoWith, Goto
<1>46. CASE FlushLock
  BY <1>46, Outside DEF FlushLock, At, Goto
<1>47. CASE CancelPicture
  BY <1>47, Outside DEF CancelPicture, At
<1>48. CASE PictureCancelled
  BY <1>48, Outside DEF PictureCancelled, At, Goto
<1>49. CASE FlushStopPreview
  BY <1>49, Outside DEF FlushStopPreview, At, Goto, PreviewStopped
<1>50. CASE FlushCollect
  BY <1>50, Outside DEF FlushCollect, At, Goto
<1>51. CASE FlushResults
  BY <1>51, Outside DEF FlushResults, At, Goto
<1>52. CASE FlushResultIdle
  BY <1>52, Outside DEF FlushResultIdle, At, GotoWith, Goto
<1>53. CASE FlushFail
  BY <1>53, Outside, QueueHeads DEF FlushFail, At, StartFailing
<1>54. CASE FlushEnd
  BY <1>54, Outside DEF FlushEnd, At, Goto
<1>55. CASE CloseEnd
  BY <1>55, Outside DEF CloseEnd, At
<1>56. ASSUME NEW t \in Threads, FailLook(t) PROVE ControlInv'
  BY <1>56, Outside DEF FailLook
<1>57. ASSUME NEW t \in Threads, FailReturn(t) PROVE ControlInv'
  BY <1>57, Outside DEF FailReturn
<1>58. ASSUME NEW t \in Threads, FailStill(t) PROVE ControlInv'
  BY <1>58, Outside DEF FailStill
<1> QED
  BY <1>1, <1>2, <1>3, <1>4, <1>5, <1>6, <1>7, <1>8, <1>9, <1>10, <1>11, <1>12, <1>13,
     <1>14, <1>15, <1>16, <1>17, <1>18, <1>19, <1>20, <1>21, <1>22, <1>23, <1>24, <1>25,
     <1>26, <1>27, <1>28, <1>29, <1>30, <1>31, <1>32, <1>33, <1>34, <1>35, <1>36, <1>37,
     <1>38, <1>39, <1>40, <1>41, <1>42, <1>43, <1>44, <1>45, <1>46, <1>47, <1>48, <1>49,
     <1>50, <1>51, <1>52, <1>53, <1>54, <1>55, <1>56, <1>57, <1>58
     DEF SessionStep

LEMMA LocksInvKept ==
  ASSUME Types, ControlInv, LocksInv, SessionStep
  PROVE  LocksInv'
<1> USE DEF Types, ControlTypes, PcType, JobType, FailingType, ControlInv, FrameworkOK,
   WorkerOK, FlusherOK, PictureOK, CaptureOK, Calling, FlushWork, Taking, Threads,
   LocksInv
<1>1. CASE \/ RejectRawRequest \/ FlushFail \/ Stutter
  <2>1. UNCHANGED <<pc, jpegWorkerActive, jpegCallbacksActive, backendOps>>
    BY <1>1 DEF RejectRawRequest, At, control, jpegSync, FlushFail, Stutter, vars
  <2> QED
    BY <2>1
<1>2. CASE AcceptRequest
  BY <1>2, Outside DEF AcceptRequest, At, GotoWith, jpegSync, Goto
<1>3. CASE UpdateBackendParameters
  BY <1>3, Outside DEF UpdateBackendParameters, At, Goto, jpegSync
<1>4. CASE Reserve
  BY <1>4, Outside DEF Reserve, At, Goto, GotoWith, jpegSync
<1>5. CASE Enqueue
  BY <1>5, Outside DEF Enqueue, At, Goto, GotoWith, NeedsOrderedPreviewCapture, jpegSync
<1>6. CASE PostRequest
  BY <1>6, Outside
     DEF PostRequest, At, GotoWith, NeedsOrderedPreviewCapture, jpegSync, Goto
<1>7. CASE PopTask
  <2>1. pc' \in {[pc EXCEPT !["worker"] = w] : w \in {"exited", "idle", "start", "take"}}
    BY <1>7, TaskHeads DEF PopTask, Goto
  <2> QED
    BY <1>7, <2>1, Outside
       DEF PopTask, At, jpegSync
<1>8. CASE StartPreviewCheck
  BY <1>8, Outside DEF StartPreviewCheck, At, Goto, jpegSync
<1>9. CASE StartPreview
  <2>1. CASE pc' = [pc EXCEPT !["worker"] = "idle"] /\ UNCHANGED <<preview_enabled, node0>>
    BY <1>9, <2>1, Outside
       DEF StartPreview, At, jpegSync
  <2>2. CASE pc' = [pc EXCEPT !["worker"] = "idle", !["capture"] = "loop"]
             /\ preview_enabled' = TRUE /\ node0' = "preview" /\ ~preview_enabled
    BY <1>9, <2>2, Outside
       DEF StartPreview, At, jpegSync
  <2> QED
    BY <1>9, <2>1, <2>2 DEF StartPreview, Goto
<1>10. CASE TakePictureCheck
  BY <1>10, Outside DEF TakePictureCheck, At, GotoWith, Goto
<1>11. CASE TakePictureFence
  BY <1>11, Outside DEF TakePictureFence, At, Goto, jpegSync
<1>12. CASE TakePicture
  BY <1>12, Outside DEF TakePicture, At, Goto, jpegSync
<1>13. CASE PictureStart
  BY <1>13, Outside DEF PictureStart, At, Goto, PreviewStopped, jpegSync
<1>14. CASE FinishWorker
  BY <1>14, Outside DEF FinishWorker, At, Goto
<1>15. CASE TakePictureFinished
  BY <1>15, Outside DEF TakePictureFinished, At, Goto, GotoWith, jpegSync
<1>16. CASE TakePictureClear
  BY <1>16, Outside DEF TakePictureClear, At, GotoWith, jpegSync, Goto
<1>17. CASE RestartAfterFailure
  BY <1>17, Outside DEF RestartAfterFailure, At, Goto, jpegSync
<1>18. CASE NextNativeFrame
  BY <1>18, Outside DEF NextNativeFrame, At, Goto, jpegSync
<1>19. CASE DrainPreview
  BY <1>19, Outside DEF DrainPreview, At, Goto, jpegSync
<1>20. CASE DequeuePreview
  BY <1>20, Outside DEF DequeuePreview, At, GotoWith, jpegSync, Goto
<1>21. CASE SourceFence
  BY <1>21, Outside DEF SourceFence, At, Goto, jpegSync
<1>22. CASE SourceFenceTimeout
  BY <1>22, Outside DEF SourceFenceTimeout, At, GotoWith, jpegSync, Goto
<1>23. CASE DequeueRecheck
  BY <1>23, Outside DEF DequeueRecheck, At, Goto, GotoWith, jpegSync
<1>24. CASE CopyPreview
  BY <1>24, Outside DEF CopyPreview, At, GotoWith, VideoBlitRoom, jpegSync, Goto
<1>25. CASE BlitPop
  BY <1>25, Outside DEF BlitPop, At, GotoWith, jpegSync, Goto
<1>26. CASE BlitComplete
  BY <1>26, Outside DEF BlitComplete, At, GotoWith, jpegSync, Goto
<1>27. CASE BlitRequeue
  BY <1>27, Outside DEF BlitRequeue, At, Goto, jpegSync
<1>28. CASE ResultPop
  BY <1>28, Outside DEF ResultPop, At, GotoWith, jpegSync, Goto
<1>29. CASE Deliver
  BY <1>29, Outside DEF Deliver, At, Goto, GotoWith, jpegSync
<1>30. CASE ScheduleJpeg
  BY <1>30, Outside DEF ScheduleJpeg, At, Goto, GotoWith, jpegSync
<1>31. CASE PostTakePicture
  BY <1>31, Outside DEF PostTakePicture, At, GotoWith, jpegSync, Goto
<1>32. CASE PictureThread
  BY <1>32, Outside DEF PictureThread, At, Goto, jpegSync
<1>33. CASE PictureTaken
  BY <1>33, Outside DEF PictureTaken, At, Goto, jpegSync
<1>34. CASE DataCallback
  BY <1>34, Outside DEF DataCallback, At, Goto, jpegSync
<1>35. CASE HandleJpeg
  BY <1>35, Outside DEF HandleJpeg, At, GotoWith, Goto
<1>36. CASE HandleJpegCheck
  BY <1>36, Outside DEF HandleJpegCheck, At, Goto, jpegSync
<1>37. CASE SendJpeg
  BY <1>37, Outside DEF SendJpeg, At, Goto, jpegSync
<1>38. CASE RestartCheck
  BY <1>38, Outside DEF RestartCheck, At, Goto, jpegSync
<1>39. CASE RestartPreview
  BY <1>39, Outside DEF RestartPreview, At, Goto, jpegSync
<1>40. CASE FinishCallback
  BY <1>40, Outside DEF FinishCallback, At, GotoWith, Goto
<1>41. CASE Flush
  BY <1>41, Outside DEF Flush, At, BeginFlush, Goto, jpegSync
<1>42. CASE Close
  BY <1>42, Outside DEF Close, At, Goto, jpegSync
<1>43. CASE CloseJoin
  BY <1>43, Outside DEF CloseJoin, At, Goto, jpegSync
<1>44. CASE CloseFlush
  BY <1>44, Outside DEF CloseFlush, At, BeginFlush, Goto, jpegSync
<1>45. CASE FlushDrainJpeg
  BY <1>45, Outside DEF FlushDrainJpeg, At, GotoWith, jpegSync, Goto
<1>46. CASE FlushLock
  BY <1>46, Outside DEF FlushLock, At, Goto, jpegSync
<1>47. CASE CancelPicture
  BY <1>47, Outside DEF CancelPicture, At, jpegSync
<1>48. CASE PictureCancelled
  BY <1>48, Outside DEF PictureCancelled, At, Goto, jpegSync
<1>49. CASE FlushStopPreview
  BY <1>49, Outside DEF FlushStopPreview, At, Goto, PreviewStopped, jpegSync
<1>50. CASE FlushCollect
  BY <1>50, Outside DEF FlushCollect, At, Goto, jpegSync
<1>51. CASE FlushResults
  BY <1>51, Outside DEF FlushResults, At, Goto, jpegSync
<1>52. CASE FlushResultIdle
  BY <1>52, Outside DEF FlushResultIdle, At, GotoWith, jpegSync, Goto
<1>53. CASE FlushEnd
  BY <1>53, Outside DEF FlushEnd, At, Goto, jpegSync
<1>54. CASE CloseEnd
  BY <1>54, Outside DEF CloseEnd, At, jpegSync
<1>55. ASSUME NEW t \in Threads, FailLook(t) PROVE LocksInv'
  BY <1>55, Outside DEF FailLook, jpegSync
<1>56. ASSUME NEW t \in Threads, FailReturn(t) PROVE LocksInv'
  BY <1>56, Outside DEF FailReturn, jpegSync
<1>57. ASSUME NEW t \in Threads, FailStill(t) PROVE LocksInv'
  BY <1>57, Outside DEF FailStill, jpegSync
<1> QED
  BY <1>1, <1>2, <1>3, <1>4, <1>5, <1>6, <1>7, <1>8, <1>9, <1>10, <1>11, <1>12, <1>13,
     <1>14, <1>15, <1>16, <1>17, <1>18, <1>19, <1>20, <1>21, <1>22, <1>23, <1>24, <1>25,
     <1>26, <1>27, <1>28, <1>29, <1>30, <1>31, <1>32, <1>33, <1>34, <1>35, <1>36, <1>37,
     <1>38, <1>39, <1>40, <1>41, <1>42, <1>43, <1>44, <1>45, <1>46, <1>47, <1>48, <1>49,
     <1>50, <1>51, <1>52, <1>53, <1>54, <1>55, <1>56, <1>57
     DEF SessionStep

LEMMA CaptureRunsKept ==
  ASSUME Types, LocksInv, CaptureRuns, SessionStep
  PROVE  CaptureRuns'
<1> USE DEF Types, ControlTypes, PcType, JobType, FailingType, Threads, LocksInv,
   CaptureRuns
<1>1. CASE \/ RejectRawRequest \/ FlushFail \/ Stutter
  <2>1. UNCHANGED <<pc, backendOps, preview_enabled>>
    BY <1>1 DEF RejectRawRequest, At, backend, control, FlushFail, Stutter, vars
  <2> QED
    BY <2>1
<1>2. CASE AcceptRequest
  BY <1>2, Outside DEF AcceptRequest, At, GotoWith, backend, Goto
<1>3. CASE UpdateBackendParameters
  BY <1>3, Outside DEF UpdateBackendParameters, At, Goto, backend
<1>4. CASE Reserve
  BY <1>4, Outside DEF Reserve, At, Goto, GotoWith, backend
<1>5. CASE Enqueue
  BY <1>5, Outside DEF Enqueue, At, Goto, GotoWith, NeedsOrderedPreviewCapture, backend
<1>6. CASE PostRequest
  BY <1>6, Outside
     DEF PostRequest, At, GotoWith, NeedsOrderedPreviewCapture, backend, Goto
<1>7. CASE PopTask
  <2>1. pc' \in {[pc EXCEPT !["worker"] = w] : w \in {"exited", "idle", "start", "take"}}
    BY <1>7, TaskHeads DEF PopTask, Goto
  <2> QED
    BY <1>7, <2>1, Outside
       DEF PopTask, At, backend
<1>8. CASE StartPreviewCheck
  BY <1>8, Outside DEF StartPreviewCheck, At, Goto, backend
<1>9. CASE StartPreview
  <2>1. CASE pc' = [pc EXCEPT !["worker"] = "idle"] /\ UNCHANGED <<preview_enabled, node0>>
    BY <1>9, <2>1, Outside
       DEF StartPreview, At, backend
  <2>2. CASE pc' = [pc EXCEPT !["worker"] = "idle", !["capture"] = "loop"]
             /\ preview_enabled' = TRUE /\ node0' = "preview" /\ ~preview_enabled
    BY <1>9, <2>2, Outside
       DEF StartPreview, At, backend
  <2> QED
    BY <1>9, <2>1, <2>2 DEF StartPreview, Goto
<1>10. CASE TakePictureCheck
  BY <1>10, Outside DEF TakePictureCheck, At, GotoWith, backend, Goto
<1>11. CASE TakePictureFence
  BY <1>11, Outside DEF TakePictureFence, At, Goto, backend
<1>12. CASE TakePicture
  BY <1>12, Outside DEF TakePicture, At, Goto
<1>13. CASE PictureStart
  BY <1>13, Outside DEF PictureStart, At, Goto, PreviewStopped
<1>14. CASE FinishWorker
  BY <1>14, Outside DEF FinishWorker, At, Goto, backend
<1>15. CASE TakePictureFinished
  BY <1>15, Outside DEF TakePictureFinished, At, Goto, GotoWith, backend
<1>16. CASE TakePictureClear
  BY <1>16, Outside DEF TakePictureClear, At, GotoWith, backend, Goto
<1>17. CASE RestartAfterFailure
  BY <1>17, Outside DEF RestartAfterFailure, At, Goto, backend
<1>18. CASE NextNativeFrame
  BY <1>18, Outside DEF NextNativeFrame, At, Goto
<1>19. CASE DrainPreview
  BY <1>19, Outside DEF DrainPreview, At, Goto, backend
<1>20. CASE DequeuePreview
  BY <1>20, Outside DEF DequeuePreview, At, GotoWith, backend, Goto
<1>21. CASE SourceFence
  BY <1>21, Outside DEF SourceFence, At, Goto, backend
<1>22. CASE SourceFenceTimeout
  BY <1>22, Outside DEF SourceFenceTimeout, At, GotoWith, backend, Goto
<1>23. CASE DequeueRecheck
  BY <1>23, Outside DEF DequeueRecheck, At, Goto, GotoWith, backend
<1>24. CASE CopyPreview
  BY <1>24, Outside DEF CopyPreview, At, GotoWith, VideoBlitRoom, backend, Goto
<1>25. CASE BlitPop
  BY <1>25, Outside DEF BlitPop, At, GotoWith, backend, Goto
<1>26. CASE BlitComplete
  BY <1>26, Outside DEF BlitComplete, At, GotoWith, backend, Goto
<1>27. CASE BlitRequeue
  BY <1>27, Outside DEF BlitRequeue, At, Goto, backend
<1>28. CASE ResultPop
  BY <1>28, Outside DEF ResultPop, At, GotoWith, backend, Goto
<1>29. CASE Deliver
  BY <1>29, Outside DEF Deliver, At, Goto, GotoWith, backend
<1>30. CASE ScheduleJpeg
  BY <1>30, Outside DEF ScheduleJpeg, At, Goto, GotoWith, backend
<1>31. CASE PostTakePicture
  BY <1>31, Outside DEF PostTakePicture, At, GotoWith, backend, Goto
<1>32. CASE PictureThread
  BY <1>32, Outside DEF PictureThread, At, Goto, backend
<1>33. CASE PictureTaken
  BY <1>33, Outside DEF PictureTaken, At, Goto
<1>34. CASE DataCallback
  BY <1>34, Outside DEF DataCallback, At, Goto, backend
<1>35. CASE HandleJpeg
  BY <1>35, Outside DEF HandleJpeg, At, GotoWith, backend, Goto
<1>36. CASE HandleJpegCheck
  BY <1>36, Outside DEF HandleJpegCheck, At, Goto, backend
<1>37. CASE SendJpeg
  BY <1>37, Outside DEF SendJpeg, At, Goto, backend
<1>38. CASE RestartCheck
  BY <1>38, Outside DEF RestartCheck, At, Goto, backend
<1>39. CASE RestartPreview
  BY <1>39, Outside DEF RestartPreview, At, Goto, backend
<1>40. CASE FinishCallback
  BY <1>40, Outside DEF FinishCallback, At, GotoWith, backend, Goto
<1>41. CASE Flush
  BY <1>41, Outside DEF Flush, At, BeginFlush, backend, Goto
<1>42. CASE Close
  BY <1>42, Outside DEF Close, At, Goto, backend
<1>43. CASE CloseJoin
  BY <1>43, Outside DEF CloseJoin, At, Goto
<1>44. CASE CloseFlush
  BY <1>44, Outside DEF CloseFlush, At, BeginFlush, backend, Goto
<1>45. CASE FlushDrainJpeg
  BY <1>45, Outside DEF FlushDrainJpeg, At, GotoWith, backend, Goto
<1>46. CASE FlushLock
  BY <1>46, Outside DEF FlushLock, At, Goto, backend
<1>47. CASE CancelPicture
  BY <1>47, Outside DEF CancelPicture, At, backend
<1>48. CASE PictureCancelled
  BY <1>48, Outside DEF PictureCancelled, At, Goto
<1>49. CASE FlushStopPreview
  BY <1>49, Outside DEF FlushStopPreview, At, Goto, PreviewStopped
<1>50. CASE FlushCollect
  BY <1>50, Outside DEF FlushCollect, At, Goto, backend
<1>51. CASE FlushResults
  BY <1>51, Outside DEF FlushResults, At, Goto, backend
<1>52. CASE FlushResultIdle
  BY <1>52, Outside DEF FlushResultIdle, At, GotoWith, backend, Goto
<1>53. CASE FlushEnd
  BY <1>53, Outside DEF FlushEnd, At, Goto, backend
<1>54. CASE CloseEnd
  BY <1>54, Outside DEF CloseEnd, At
<1>55. ASSUME NEW t \in Threads, FailLook(t) PROVE CaptureRuns'
  BY <1>55, Outside DEF FailLook, backend
<1>56. ASSUME NEW t \in Threads, FailReturn(t) PROVE CaptureRuns'
  BY <1>56, Outside DEF FailReturn, backend
<1>57. ASSUME NEW t \in Threads, FailStill(t) PROVE CaptureRuns'
  BY <1>57, Outside DEF FailStill, backend
<1> QED
  BY <1>1, <1>2, <1>3, <1>4, <1>5, <1>6, <1>7, <1>8, <1>9, <1>10, <1>11, <1>12, <1>13,
     <1>14, <1>15, <1>16, <1>17, <1>18, <1>19, <1>20, <1>21, <1>22, <1>23, <1>24, <1>25,
     <1>26, <1>27, <1>28, <1>29, <1>30, <1>31, <1>32, <1>33, <1>34, <1>35, <1>36, <1>37,
     <1>38, <1>39, <1>40, <1>41, <1>42, <1>43, <1>44, <1>45, <1>46, <1>47, <1>48, <1>49,
     <1>50, <1>51, <1>52, <1>53, <1>54, <1>55, <1>56, <1>57
     DEF SessionStep

LEMMA CallsInvKept ==
  ASSUME Types, ControlInv, CallsInv, SessionStep
  PROVE  CallsInv'
<1> USE DEF Types, ControlTypes, PcType, JobType, FailingType, TaskTypes, FlagTypes,
   ControlInv, FlusherOK, Threads, FlushWork, CallsInv
<1>1. CASE \/ RejectRawRequest \/ FlushFail \/ Stutter
  <2>1. UNCHANGED <<scenario, pc, sessionGeneration, closing, flushing, op, flushes>>
    BY <1>1
       DEF RejectRawRequest, At, InTransition, Outputs, control, flusher, session,
          FlushFail, Stutter, vars
  <2> QED
    BY <2>1
<1>2. CASE AcceptRequest
  BY <1>2, Outside
     DEF AcceptRequest, At, GotoWith, InTransition, Outputs, Settings, flusher, session,
        Goto
<1>3. CASE UpdateBackendParameters
  BY <1>3, Outside DEF UpdateBackendParameters, At, Goto, flusher, session
<1>4. CASE Reserve
  BY <1>4, Outside
     DEF Reserve, At, Changed, Goto, GotoWith, Outputs, flusher, session, Current,
        InTransition
<1>5. CASE Enqueue
  BY <1>5, Outside
     DEF Enqueue, At, Changed, Goto, GotoWith, NeedsOrderedPreviewCapture, Outputs,
        flusher, session, Current, InTransition, HasSource
<1>6. CASE PostRequest
  BY <1>6, Outside
     DEF PostRequest, At, GotoWith, NeedsOrderedPreviewCapture, flusher, session, Goto,
        HasSource, Outputs
<1>7. CASE PopTask
  <2>1. pc' \in {[pc EXCEPT !["worker"] = w] : w \in {"exited", "idle", "start", "take"}}
    BY <1>7, TaskHeads DEF PopTask, Goto
  <2> QED
    BY <1>7, <2>1, Outside
       DEF PopTask, At, session, flusher
<1>8. CASE StartPreviewCheck
  BY <1>8, Outside
     DEF StartPreviewCheck, At, Current, Goto, HasSource, InTransition, flusher, session
<1>9. CASE StartPreview
  <2>1. CASE pc' = [pc EXCEPT !["worker"] = "idle"] /\ UNCHANGED <<preview_enabled, node0>>
    BY <1>9, <2>1, Outside
       DEF StartPreview, At, session, flusher
  <2>2. CASE pc' = [pc EXCEPT !["worker"] = "idle", !["capture"] = "loop"]
             /\ preview_enabled' = TRUE /\ node0' = "preview" /\ ~preview_enabled
    BY <1>9, <2>2, Outside
       DEF StartPreview, At, session, flusher
  <2> QED
    BY <1>9, <2>1, <2>2 DEF StartPreview, Goto
<1>10. CASE TakePictureCheck
  BY <1>10, Outside
     DEF TakePictureCheck, At, Current, GotoWith, InTransition, flusher, session, Goto
<1>11. CASE TakePictureFence
  BY <1>11, Outside DEF TakePictureFence, At, Current, Faults, Goto, flusher, session
<1>12. CASE TakePicture
  BY <1>12, Outside DEF TakePicture, At, Current, Faults, Goto, flusher, session
<1>13. CASE PictureStart
  BY <1>13, Outside DEF PictureStart, At, Faults, Goto, PreviewStopped, flusher, session
<1>14. CASE FinishWorker
  BY <1>14, Outside DEF FinishWorker, At, Goto, flusher, session
<1>15. CASE TakePictureFinished
  BY <1>15, Outside DEF TakePictureFinished, At, Current, Goto, GotoWith, flusher, session
<1>16. CASE TakePictureClear
  BY <1>16, Outside DEF TakePictureClear, At, GotoWith, flusher, session, Goto
<1>17. CASE RestartAfterFailure
  BY <1>17, Outside DEF RestartAfterFailure, At, Goto, flusher, session
<1>18. CASE NextNativeFrame
  BY <1>18, Outside DEF NextNativeFrame, At, Faults, Goto, flusher, session
<1>19. CASE DrainPreview
  BY <1>19, Outside DEF DrainPreview, At, Goto, InTransition, flusher, session
<1>20. CASE DequeuePreview
  BY <1>20, Outside DEF DequeuePreview, At, GotoWith, InTransition, flusher, session, Goto
<1>21. CASE SourceFence
  BY <1>21, Outside DEF SourceFence, At, Goto, flusher, session
<1>22. CASE SourceFenceTimeout
  BY <1>22, Outside DEF SourceFenceTimeout, At, Faults, GotoWith, flusher, session, Goto
<1>23. CASE DequeueRecheck
  BY <1>23, Outside
     DEF DequeueRecheck, At, Current, Goto, GotoWith, InTransition, flusher, session
<1>24. CASE CopyPreview
  BY <1>24, Outside
     DEF CopyPreview, At, Complete, Faults, GotoWith, VideoBlitRoom, flusher, session,
        Current, Goto
<1>25. CASE BlitPop
  BY <1>25, Outside DEF BlitPop, At, GotoWith, flusher, session, Goto
<1>26. CASE BlitComplete
  BY <1>26, Outside
     DEF BlitComplete, At, Complete, GotoWith, flusher, session, Current, Goto
<1>27. CASE BlitRequeue
  BY <1>27, Outside DEF BlitRequeue, At, Goto, flusher, session
<1>28. CASE ResultPop
  BY <1>28, Outside DEF ResultPop, At, GotoWith, flusher, session, Goto
<1>29. CASE Deliver
  BY <1>29, Outside DEF Deliver, At, Goto, GotoWith, flusher, session
<1>30. CASE ScheduleJpeg
  BY <1>30, Outside
     DEF ScheduleJpeg, At, Changed, Goto, GotoWith, flusher, session, Current,
        InTransition
<1>31. CASE PostTakePicture
  BY <1>31, Outside DEF PostTakePicture, At, GotoWith, flusher, session, Goto
<1>32. CASE PictureThread
  BY <1>32, Outside DEF PictureThread, At, Goto, flusher, session
<1>33. CASE PictureTaken
  BY <1>33, Outside DEF PictureTaken, At, Faults, Goto, flusher, session
<1>34. CASE DataCallback
  BY <1>34, Outside DEF DataCallback, At, Goto, flusher, session
<1>35. CASE HandleJpeg
  BY <1>35, Outside DEF HandleJpeg, At, GotoWith, InTransition, flusher, session, Goto
<1>36. CASE HandleJpegCheck
  BY <1>36, Outside
     DEF HandleJpegCheck, At, Changed, Goto, flusher, session, Current, InTransition
<1>37. CASE SendJpeg
  BY <1>37, Outside DEF SendJpeg, At, Current, Goto, flusher, session
<1>38. CASE RestartCheck
  BY <1>38, Outside
     DEF RestartCheck, At, Changed, Goto, flusher, session, Current, InTransition
<1>39. CASE RestartPreview
  BY <1>39, Outside DEF RestartPreview, At, Goto, flusher, session
<1>40. CASE FinishCallback
  BY <1>40, Outside DEF FinishCallback, At, GotoWith, flusher, session, Goto
<1>41. CASE Flush
  BY <1>41, Outside, Asking DEF Flush, At, BeginFlush, Goto
<1>42. CASE Close
  BY <1>42, Outside DEF Close, At, Goto
<1>43. CASE CloseJoin
  BY <1>43, Outside DEF CloseJoin, At, Goto, flusher, session
<1>44. CASE CloseFlush
  BY <1>44, Outside DEF CloseFlush, At, BeginFlush, Goto
<1>45. CASE FlushDrainJpeg
  BY <1>45, Outside DEF FlushDrainJpeg, At, GotoWith, session, Goto
<1>46. CASE FlushLock
  BY <1>46, Outside DEF FlushLock, At, Goto, flusher, session
<1>47. CASE CancelPicture
  BY <1>47, Outside DEF CancelPicture, At, flusher, session
<1>48. CASE PictureCancelled
  BY <1>48, Outside DEF PictureCancelled, At, Goto, flusher, session
<1>49. CASE FlushStopPreview
  BY <1>49, Outside DEF FlushStopPreview, At, Goto, PreviewStopped, flusher, session
<1>50. CASE FlushCollect
  BY <1>50, Outside DEF FlushCollect, At, Goto, session
<1>51. CASE FlushResults
  BY <1>51, Outside DEF FlushResults, At, Goto, session
<1>52. CASE FlushResultIdle
  BY <1>52, Outside DEF FlushResultIdle, At, GotoWith, session, Goto
<1>53. CASE FlushEnd
  BY <1>53, Outside DEF FlushEnd, At, Goto
<1>54. CASE CloseEnd
  BY <1>54, Outside DEF CloseEnd, At, flusher, session
<1>55. ASSUME NEW t \in Threads, FailLook(t) PROVE CallsInv'
  BY <1>55, Outside DEF FailLook, flusher, session
<1>56. ASSUME NEW t \in Threads, FailReturn(t) PROVE CallsInv'
  BY <1>56, Outside DEF FailReturn, flusher, session
<1>57. ASSUME NEW t \in Threads, FailStill(t) PROVE CallsInv'
  BY <1>57, Outside DEF FailStill, InTransition, flusher, session
<1> QED
  BY <1>1, <1>2, <1>3, <1>4, <1>5, <1>6, <1>7, <1>8, <1>9, <1>10, <1>11, <1>12, <1>13,
     <1>14, <1>15, <1>16, <1>17, <1>18, <1>19, <1>20, <1>21, <1>22, <1>23, <1>24, <1>25,
     <1>26, <1>27, <1>28, <1>29, <1>30, <1>31, <1>32, <1>33, <1>34, <1>35, <1>36, <1>37,
     <1>38, <1>39, <1>40, <1>41, <1>42, <1>43, <1>44, <1>45, <1>46, <1>47, <1>48, <1>49,
     <1>50, <1>51, <1>52, <1>53, <1>54, <1>55, <1>56, <1>57
     DEF SessionStep

LEMMA BacklogOKKept ==
  ASSUME Types, ControlInv, BacklogOK, SessionStep
  PROVE  BacklogOK'
<1> USE DEF Types, ControlTypes, PcType, JobType, FailingType, QueueTypes, ControlInv,
   BlitOK, Threads, BacklogOK
<1>1. CASE \/ RejectRawRequest \/ FlushFail \/ Stutter
  <2>1. UNCHANGED <<pc, videoBlitQueue>>
    BY <1>1 DEF RejectRawRequest, At, control, queues, FlushFail, Stutter, vars
  <2> QED
    BY <2>1
<1>2. CASE AcceptRequest
  BY <1>2, Outside, DepthAssumption, LenProperties
     DEF AcceptRequest, At, GotoWith, queues, Goto
<1>3. CASE UpdateBackendParameters
  BY <1>3, Outside, DepthAssumption, LenProperties
     DEF UpdateBackendParameters, At, Goto, queues
<1>4. CASE Reserve
  BY <1>4, Outside, DepthAssumption, LenProperties DEF Reserve, At, Goto, GotoWith, queues
<1>5. CASE Enqueue
  BY <1>5, Outside, DepthAssumption, LenProperties
     DEF Enqueue, At, Goto, GotoWith, NeedsOrderedPreviewCapture, queues
<1>6. CASE PostRequest
  BY <1>6, Outside, DepthAssumption, LenProperties
     DEF PostRequest, At, GotoWith, NeedsOrderedPreviewCapture, queues, Goto
<1>7. CASE PopTask
  <2>1. pc' \in {[pc EXCEPT !["worker"] = w] : w \in {"exited", "idle", "start", "take"}}
    BY <1>7, TaskHeads DEF PopTask, Goto
  <2> QED
    BY <1>7, <2>1, Outside
       DEF PopTask, At, queues
<1>8. CASE StartPreviewCheck
  BY <1>8, Outside, DepthAssumption, LenProperties DEF StartPreviewCheck, At, Goto, queues
<1>9. CASE StartPreview
  <2>1. CASE pc' = [pc EXCEPT !["worker"] = "idle"] /\ UNCHANGED <<preview_enabled, node0>>
    BY <1>9, <2>1, Outside
       DEF StartPreview, At, queues
  <2>2. CASE pc' = [pc EXCEPT !["worker"] = "idle", !["capture"] = "loop"]
             /\ preview_enabled' = TRUE /\ node0' = "preview" /\ ~preview_enabled
    BY <1>9, <2>2, Outside
       DEF StartPreview, At, queues
  <2> QED
    BY <1>9, <2>1, <2>2 DEF StartPreview, Goto
<1>10. CASE TakePictureCheck
  BY <1>10, Outside, DepthAssumption, LenProperties
     DEF TakePictureCheck, At, GotoWith, queues, Goto
<1>11. CASE TakePictureFence
  BY <1>11, Outside, DepthAssumption, LenProperties DEF TakePictureFence, At, Goto, queues
<1>12. CASE TakePicture
  BY <1>12, Outside, DepthAssumption, LenProperties DEF TakePicture, At, Goto, queues
<1>13. CASE PictureStart
  BY <1>13, Outside, DepthAssumption, LenProperties
     DEF PictureStart, At, Goto, PreviewStopped, queues
<1>14. CASE FinishWorker
  BY <1>14, Outside, DepthAssumption, LenProperties DEF FinishWorker, At, Goto, queues
<1>15. CASE TakePictureFinished
  BY <1>15, Outside, DepthAssumption, LenProperties
     DEF TakePictureFinished, At, Goto, GotoWith, queues
<1>16. CASE TakePictureClear
  BY <1>16, Outside, DepthAssumption, LenProperties
     DEF TakePictureClear, At, GotoWith, queues, Goto
<1>17. CASE RestartAfterFailure
  BY <1>17, Outside, DepthAssumption, LenProperties
     DEF RestartAfterFailure, At, Goto, queues
<1>18. CASE NextNativeFrame
  BY <1>18, Outside, DepthAssumption, LenProperties DEF NextNativeFrame, At, Goto, queues
<1>19. CASE DrainPreview
  BY <1>19, Outside, DepthAssumption, LenProperties DEF DrainPreview, At, Goto, queues
<1>20. CASE DequeuePreview
  BY <1>20, Outside, DepthAssumption, LenProperties
     DEF DequeuePreview, At, GotoWith, queues, Goto
<1>21. CASE SourceFence
  BY <1>21, Outside, DepthAssumption, LenProperties DEF SourceFence, At, Goto, queues
<1>22. CASE SourceFenceTimeout
  BY <1>22, Outside, DepthAssumption, LenProperties
     DEF SourceFenceTimeout, At, GotoWith, queues, Goto
<1>23. CASE DequeueRecheck
  BY <1>23, Outside, DepthAssumption, LenProperties
     DEF DequeueRecheck, At, Goto, GotoWith, queues
<1>24. CASE CopyPreview
  BY <1>24, Outside, DepthAssumption, LenProperties, Appended
     DEF CopyPreview, At, GotoWith, VideoBlitRoom, Goto
<1>25. CASE BlitPop
  BY <1>25, Outside, DepthAssumption, LenProperties, Split DEF BlitPop, At, GotoWith, Goto
<1>26. CASE BlitComplete
  BY <1>26, Outside, DepthAssumption, LenProperties DEF BlitComplete, At, GotoWith, Goto
<1>27. CASE BlitRequeue
  BY <1>27, Outside, DepthAssumption, LenProperties DEF BlitRequeue, At, Goto, queues
<1>28. CASE ResultPop
  BY <1>28, Outside, DepthAssumption, LenProperties DEF ResultPop, At, GotoWith, Goto
<1>29. CASE Deliver
  BY <1>29, Outside, DepthAssumption, LenProperties
     DEF Deliver, At, Goto, GotoWith, queues
<1>30. CASE ScheduleJpeg
  BY <1>30, Outside, DepthAssumption, LenProperties
     DEF ScheduleJpeg, At, Goto, GotoWith, queues
<1>31. CASE PostTakePicture
  BY <1>31, Outside, DepthAssumption, LenProperties
     DEF PostTakePicture, At, GotoWith, queues, Goto
<1>32. CASE PictureThread
  BY <1>32, Outside, DepthAssumption, LenProperties DEF PictureThread, At, Goto, queues
<1>33. CASE PictureTaken
  BY <1>33, Outside, DepthAssumption, LenProperties DEF PictureTaken, At, Goto, queues
<1>34. CASE DataCallback
  BY <1>34, Outside, DepthAssumption, LenProperties DEF DataCallback, At, Goto, queues
<1>35. CASE HandleJpeg
  BY <1>35, Outside, DepthAssumption, LenProperties
     DEF HandleJpeg, At, GotoWith, queues, Goto
<1>36. CASE HandleJpegCheck
  BY <1>36, Outside, DepthAssumption, LenProperties DEF HandleJpegCheck, At, Goto, queues
<1>37. CASE SendJpeg
  BY <1>37, Outside, DepthAssumption, LenProperties DEF SendJpeg, At, Goto, queues
<1>38. CASE RestartCheck
  BY <1>38, Outside, DepthAssumption, LenProperties DEF RestartCheck, At, Goto, queues
<1>39. CASE RestartPreview
  BY <1>39, Outside, DepthAssumption, LenProperties DEF RestartPreview, At, Goto, queues
<1>40. CASE FinishCallback
  BY <1>40, Outside, DepthAssumption, LenProperties
     DEF FinishCallback, At, GotoWith, queues, Goto
<1>41. CASE Flush
  BY <1>41, Outside, DepthAssumption, LenProperties
     DEF Flush, At, BeginFlush, Goto, queues
<1>42. CASE Close
  BY <1>42, Outside, DepthAssumption, LenProperties DEF Close, At, Goto, queues
<1>43. CASE CloseJoin
  BY <1>43, Outside, DepthAssumption, LenProperties DEF CloseJoin, At, Goto, queues
<1>44. CASE CloseFlush
  BY <1>44, Outside, DepthAssumption, LenProperties
     DEF CloseFlush, At, BeginFlush, Goto, queues
<1>45. CASE FlushDrainJpeg
  BY <1>45, Outside, DepthAssumption, LenProperties
     DEF FlushDrainJpeg, At, GotoWith, queues, Goto
<1>46. CASE FlushLock
  BY <1>46, Outside, DepthAssumption, LenProperties DEF FlushLock, At, Goto, queues
<1>47. CASE CancelPicture
  BY <1>47, Outside, DepthAssumption, LenProperties DEF CancelPicture, At, queues
<1>48. CASE PictureCancelled
  BY <1>48, Outside, DepthAssumption, LenProperties DEF PictureCancelled, At, Goto, queues
<1>49. CASE FlushStopPreview
  BY <1>49, Outside, DepthAssumption, LenProperties
     DEF FlushStopPreview, At, Goto, PreviewStopped, queues
<1>50. CASE FlushCollect
  BY <1>50, Outside, DepthAssumption, LenProperties DEF FlushCollect, At, Goto, queues
<1>51. CASE FlushResults
  BY <1>51, Outside, DepthAssumption, LenProperties DEF FlushResults, At, Goto
<1>52. CASE FlushResultIdle
  BY <1>52, Outside, DepthAssumption, LenProperties
     DEF FlushResultIdle, At, GotoWith, queues, Goto
<1>53. CASE FlushEnd
  BY <1>53, Outside, DepthAssumption, LenProperties DEF FlushEnd, At, Goto, queues
<1>54. CASE CloseEnd
  BY <1>54, Outside, DepthAssumption, LenProperties DEF CloseEnd, At, queues
<1>55. ASSUME NEW t \in Threads, FailLook(t) PROVE BacklogOK'
  BY <1>55, Outside, DepthAssumption, LenProperties DEF FailLook, queues
<1>56. ASSUME NEW t \in Threads, FailReturn(t) PROVE BacklogOK'
  BY <1>56, Outside, DepthAssumption, LenProperties DEF FailReturn, queues
<1>57. ASSUME NEW t \in Threads, FailStill(t) PROVE BacklogOK'
  BY <1>57, Outside, DepthAssumption, LenProperties DEF FailStill, queues
<1> QED
  BY <1>1, <1>2, <1>3, <1>4, <1>5, <1>6, <1>7, <1>8, <1>9, <1>10, <1>11, <1>12, <1>13,
     <1>14, <1>15, <1>16, <1>17, <1>18, <1>19, <1>20, <1>21, <1>22, <1>23, <1>24, <1>25,
     <1>26, <1>27, <1>28, <1>29, <1>30, <1>31, <1>32, <1>33, <1>34, <1>35, <1>36, <1>37,
     <1>38, <1>39, <1>40, <1>41, <1>42, <1>43, <1>44, <1>45, <1>46, <1>47, <1>48, <1>49,
     <1>50, <1>51, <1>52, <1>53, <1>54, <1>55, <1>56, <1>57
     DEF SessionStep

LEMMA SessionTypesKept ==
  ASSUME Types, SessionStep
  PROVE  SessionTypes'
<1> USE DEF Types, SessionTypes, Outputs
<1>1. CASE \/ UpdateBackendParameters \/ Reserve \/ Enqueue \/ PostRequest \/ PopTask
           \/ StartPreviewCheck \/ StartPreview \/ TakePictureCheck \/ TakePictureFence
           \/ TakePicture \/ PictureStart \/ FinishWorker \/ TakePictureFinished
           \/ TakePictureClear \/ RestartAfterFailure \/ NextNativeFrame \/ DrainPreview
           \/ DequeuePreview \/ SourceFence \/ SourceFenceTimeout \/ DequeueRecheck
           \/ CopyPreview \/ BlitPop \/ BlitComplete \/ BlitRequeue \/ ResultPop
           \/ Deliver \/ ScheduleJpeg \/ PostTakePicture \/ PictureThread
           \/ PictureTaken \/ DataCallback \/ HandleJpeg \/ HandleJpegCheck \/ SendJpeg
           \/ RestartCheck \/ RestartPreview \/ FinishCallback \/ Flush \/ Close
           \/ CloseJoin \/ CloseFlush \/ FlushDrainJpeg \/ FlushLock \/ CancelPicture
           \/ PictureCancelled \/ FlushStopPreview \/ FlushCollect \/ FlushResults
           \/ FlushResultIdle \/ FlushFail \/ FlushEnd \/ CloseEnd \/ Stutter
  <2>1. UNCHANGED <<scenario, next>>
    BY <1>1
       DEF UpdateBackendParameters, Reserve, Enqueue, NeedsOrderedPreviewCapture,
          HasSource, PostRequest, PopTask, StartPreviewCheck, StartPreview, Faults,
          TakePictureCheck, TakePictureFence, TakePicture, PictureStart, FinishWorker,
          TakePictureFinished, TakePictureClear, RestartAfterFailure, NextNativeFrame,
          DrainPreview, DequeuePreview, SourceFence, SourceFenceTimeout, DequeueRecheck,
          CopyPreview, BlitPop, BlitComplete, BlitRequeue, ResultPop, Deliver,
          ScheduleJpeg, PostTakePicture, PictureThread, PictureTaken, DataCallback,
          HandleJpeg, HandleJpegCheck, SendJpeg, RestartCheck, RestartPreview,
          FinishCallback, Flush, BeginFlush, Close, CloseJoin, CloseFlush,
          FlushDrainJpeg, FlushLock, CancelPicture, PictureCancelled, FlushStopPreview,
          FlushCollect, FlushResults, FlushResultIdle, FlushFail, FlushEnd, CloseEnd,
          Stutter, vars
  <2> QED
    BY <2>1
<1>2. CASE RejectRawRequest
  BY <1>2, Asking DEF RejectRawRequest
<1>3. CASE AcceptRequest
  BY <1>3, Asking DEF AcceptRequest, Settings
<1>4. ASSUME NEW t \in Threads, FailLook(t) PROVE SessionTypes'
  BY <1>4, Asking DEF FailLook
<1>5. ASSUME NEW t \in Threads, FailReturn(t) PROVE SessionTypes'
  BY <1>5, Asking DEF FailReturn
<1>6. ASSUME NEW t \in Threads, FailStill(t) PROVE SessionTypes'
  BY <1>6, Asking DEF FailStill
<1> QED
  BY <1>1, <1>2, <1>3, <1>4, <1>5, <1>6 DEF SessionStep

LEMMA PcTypeKept ==
  ASSUME Types, SessionStep
  PROVE  PcType'
<1> USE DEF Types, ControlTypes, PcType, Points
<1>1. CASE \/ RejectRawRequest \/ FlushFail \/ Stutter
  <2>1. UNCHANGED <<pc>>
    BY <1>1 DEF RejectRawRequest, At, control, FlushFail, Stutter, vars
  <2> QED
    BY <2>1
<1>2. CASE AcceptRequest
  BY <1>2 DEF AcceptRequest, At, GotoWith, Goto
<1>3. CASE UpdateBackendParameters
  BY <1>3 DEF UpdateBackendParameters, At, Goto
<1>4. CASE Reserve
  BY <1>4 DEF Reserve, At, Goto, GotoWith
<1>5. CASE Enqueue
  BY <1>5 DEF Enqueue, At, Goto, GotoWith, NeedsOrderedPreviewCapture
<1>6. CASE PostRequest
  BY <1>6 DEF PostRequest, At, GotoWith, NeedsOrderedPreviewCapture, Goto
<1>7. CASE PopTask
  <2>1. pc' \in {[pc EXCEPT !["worker"] = w] : w \in {"exited", "idle", "start", "take"}}
    BY <1>7, TaskHeads DEF PopTask, Goto
  <2> QED
    BY <1>7, <2>1
       DEF PopTask
<1>8. CASE StartPreviewCheck
  BY <1>8 DEF StartPreviewCheck, At, Goto
<1>9. CASE StartPreview
  BY <1>9 DEF StartPreview, Goto
<1>10. CASE TakePictureCheck
  BY <1>10 DEF TakePictureCheck, At, GotoWith, Goto
<1>11. CASE TakePictureFence
  BY <1>11 DEF TakePictureFence, At, Goto
<1>12. CASE TakePicture
  BY <1>12 DEF TakePicture, At, Goto
<1>13. CASE PictureStart
  BY <1>13 DEF PictureStart, At, Goto, PreviewStopped
<1>14. CASE FinishWorker
  BY <1>14 DEF FinishWorker, At, Goto
<1>15. CASE TakePictureFinished
  BY <1>15 DEF TakePictureFinished, At, Goto, GotoWith
<1>16. CASE TakePictureClear
  BY <1>16 DEF TakePictureClear, At, GotoWith, Goto
<1>17. CASE RestartAfterFailure
  BY <1>17 DEF RestartAfterFailure, At, Goto
<1>18. CASE NextNativeFrame
  BY <1>18 DEF NextNativeFrame, At, Goto
<1>19. CASE DrainPreview
  BY <1>19 DEF DrainPreview, At, Goto
<1>20. CASE DequeuePreview
  BY <1>20 DEF DequeuePreview, At, GotoWith, Goto
<1>21. CASE SourceFence
  BY <1>21 DEF SourceFence, At, Goto
<1>22. CASE SourceFenceTimeout
  BY <1>22 DEF SourceFenceTimeout, At, GotoWith, Goto
<1>23. CASE DequeueRecheck
  BY <1>23 DEF DequeueRecheck, At, Goto, GotoWith
<1>24. CASE CopyPreview
  BY <1>24 DEF CopyPreview, At, GotoWith, VideoBlitRoom, Goto
<1>25. CASE BlitPop
  BY <1>25 DEF BlitPop, At, GotoWith, Goto
<1>26. CASE BlitComplete
  BY <1>26 DEF BlitComplete, At, GotoWith, Goto
<1>27. CASE BlitRequeue
  BY <1>27 DEF BlitRequeue, At, Goto
<1>28. CASE ResultPop
  BY <1>28 DEF ResultPop, At, GotoWith, Goto
<1>29. CASE Deliver
  BY <1>29 DEF Deliver, At, Goto, GotoWith
<1>30. CASE ScheduleJpeg
  BY <1>30 DEF ScheduleJpeg, At, Goto, GotoWith
<1>31. CASE PostTakePicture
  BY <1>31 DEF PostTakePicture, At, GotoWith, Goto
<1>32. CASE PictureThread
  BY <1>32 DEF PictureThread, At, Goto
<1>33. CASE PictureTaken
  BY <1>33 DEF PictureTaken, At, Goto
<1>34. CASE DataCallback
  BY <1>34 DEF DataCallback, At, Goto
<1>35. CASE HandleJpeg
  BY <1>35 DEF HandleJpeg, At, GotoWith, Goto
<1>36. CASE HandleJpegCheck
  BY <1>36 DEF HandleJpegCheck, At, Goto
<1>37. CASE SendJpeg
  BY <1>37 DEF SendJpeg, At, Goto
<1>38. CASE RestartCheck
  BY <1>38 DEF RestartCheck, At, Goto
<1>39. CASE RestartPreview
  BY <1>39 DEF RestartPreview, At, Goto
<1>40. CASE FinishCallback
  BY <1>40 DEF FinishCallback, At, GotoWith, Goto
<1>41. CASE Flush
  BY <1>41 DEF Flush, At, BeginFlush, Goto
<1>42. CASE Close
  BY <1>42 DEF Close, At, Goto
<1>43. CASE CloseJoin
  BY <1>43 DEF CloseJoin, At, Goto
<1>44. CASE CloseFlush
  BY <1>44 DEF CloseFlush, At, BeginFlush, Goto
<1>45. CASE FlushDrainJpeg
  BY <1>45 DEF FlushDrainJpeg, At, GotoWith, Goto
<1>46. CASE FlushLock
  BY <1>46 DEF FlushLock, At, Goto
<1>47. CASE CancelPicture
  BY <1>47 DEF CancelPicture, At
<1>48. CASE PictureCancelled
  BY <1>48 DEF PictureCancelled, At, Goto
<1>49. CASE FlushStopPreview
  BY <1>49 DEF FlushStopPreview, At, Goto, PreviewStopped
<1>50. CASE FlushCollect
  BY <1>50 DEF FlushCollect, At, Goto
<1>51. CASE FlushResults
  BY <1>51 DEF FlushResults, At, Goto
<1>52. CASE FlushResultIdle
  BY <1>52 DEF FlushResultIdle, At, GotoWith, Goto
<1>53. CASE FlushEnd
  BY <1>53 DEF FlushEnd, At, Goto
<1>54. CASE CloseEnd
  BY <1>54 DEF CloseEnd, At
<1>55. ASSUME NEW t \in Threads, FailLook(t) PROVE PcType'
  BY <1>55 DEF FailLook
<1>56. ASSUME NEW t \in Threads, FailReturn(t) PROVE PcType'
  BY <1>56 DEF FailReturn
<1>57. ASSUME NEW t \in Threads, FailStill(t) PROVE PcType'
  BY <1>57 DEF FailStill
<1> QED
  BY <1>1, <1>2, <1>3, <1>4, <1>5, <1>6, <1>7, <1>8, <1>9, <1>10, <1>11, <1>12, <1>13,
     <1>14, <1>15, <1>16, <1>17, <1>18, <1>19, <1>20, <1>21, <1>22, <1>23, <1>24, <1>25,
     <1>26, <1>27, <1>28, <1>29, <1>30, <1>31, <1>32, <1>33, <1>34, <1>35, <1>36, <1>37,
     <1>38, <1>39, <1>40, <1>41, <1>42, <1>43, <1>44, <1>45, <1>46, <1>47, <1>48, <1>49,
     <1>50, <1>51, <1>52, <1>53, <1>54, <1>55, <1>56, <1>57
     DEF SessionStep

LEMMA JobTypeKept ==
  ASSUME Types, SessionStep
  PROVE  JobType'
<1> USE DEF Types, ControlTypes, JobType, SessionTypes, QueueTypes, SlotTypes
<1>1. CASE \/ RejectRawRequest \/ UpdateBackendParameters \/ PopTask
           \/ StartPreviewCheck \/ StartPreview \/ TakePictureFence \/ TakePicture
           \/ PictureStart \/ FinishWorker \/ RestartAfterFailure \/ NextNativeFrame
           \/ DrainPreview \/ SourceFence \/ BlitRequeue \/ PictureThread
           \/ PictureTaken \/ DataCallback \/ HandleJpegCheck \/ SendJpeg
           \/ RestartCheck \/ RestartPreview \/ Flush \/ Close \/ CloseJoin
           \/ CloseFlush \/ FlushLock \/ CancelPicture \/ PictureCancelled
           \/ FlushStopPreview \/ FlushCollect \/ FlushResults \/ FlushFail \/ FlushEnd
           \/ CloseEnd \/ Stutter
  <2>1. UNCHANGED <<job>>
    BY <1>1
       DEF RejectRawRequest, control, UpdateBackendParameters, PopTask,
          StartPreviewCheck, StartPreview, TakePictureFence, TakePicture, PictureStart,
          FinishWorker, RestartAfterFailure, NextNativeFrame, DrainPreview, SourceFence,
          BlitRequeue, PictureThread, PictureTaken, DataCallback, HandleJpegCheck,
          SendJpeg, RestartCheck, RestartPreview, Flush, BeginFlush, Close, CloseJoin,
          CloseFlush, FlushLock, CancelPicture, PictureCancelled, FlushStopPreview,
          FlushCollect, FlushResults, FlushFail, FlushEnd, CloseEnd, Stutter, vars
  <2> QED
    BY <2>1
<1>2. CASE AcceptRequest
  BY <1>2, Asking DEF AcceptRequest, GotoWith
<1>3. CASE Reserve
  BY <1>3 DEF Reserve, GotoWith
<1>4. CASE Enqueue
  BY <1>4 DEF Enqueue, GotoWith, NeedsOrderedPreviewCapture
<1>5. CASE PostRequest
  BY <1>5 DEF PostRequest, GotoWith, NeedsOrderedPreviewCapture
<1>6. CASE TakePictureCheck
  BY <1>6 DEF TakePictureCheck, GotoWith
<1>7. CASE TakePictureFinished
  BY <1>7 DEF TakePictureFinished, GotoWith
<1>8. CASE TakePictureClear
  BY <1>8 DEF TakePictureClear, GotoWith
<1>9. CASE DequeuePreview
  BY <1>9, QueueHeads DEF DequeuePreview, GotoWith
<1>10. CASE SourceFenceTimeout
  BY <1>10 DEF SourceFenceTimeout, GotoWith
<1>11. CASE DequeueRecheck
  BY <1>11 DEF DequeueRecheck, GotoWith
<1>12. CASE CopyPreview
  BY <1>12 DEF CopyPreview, GotoWith
<1>13. CASE BlitPop
  BY <1>13, QueueHeads DEF BlitPop, GotoWith
<1>14. CASE BlitComplete
  BY <1>14 DEF BlitComplete, GotoWith
<1>15. CASE ResultPop
  BY <1>15, QueueHeads DEF ResultPop, GotoWith
<1>16. CASE Deliver
  BY <1>16 DEF Deliver, GotoWith
<1>17. CASE ScheduleJpeg
  BY <1>17 DEF ScheduleJpeg, GotoWith
<1>18. CASE PostTakePicture
  BY <1>18 DEF PostTakePicture, GotoWith
<1>19. CASE HandleJpeg
  BY <1>19 DEF HandleJpeg, GotoWith
<1>20. CASE FinishCallback
  BY <1>20 DEF FinishCallback, GotoWith
<1>21. CASE FlushDrainJpeg
  BY <1>21 DEF FlushDrainJpeg, GotoWith
<1>22. CASE FlushResultIdle
  BY <1>22 DEF FlushResultIdle, GotoWith
<1>23. ASSUME NEW t \in Threads, FailLook(t) PROVE JobType'
  BY <1>23 DEF FailLook
<1>24. ASSUME NEW t \in Threads, FailReturn(t) PROVE JobType'
  BY <1>24 DEF FailReturn
<1>25. ASSUME NEW t \in Threads, FailStill(t) PROVE JobType'
  BY <1>25 DEF FailStill
<1> QED
  BY <1>1, <1>2, <1>3, <1>4, <1>5, <1>6, <1>7, <1>8, <1>9, <1>10, <1>11, <1>12, <1>13,
     <1>14, <1>15, <1>16, <1>17, <1>18, <1>19, <1>20, <1>21, <1>22, <1>23, <1>24, <1>25
     DEF SessionStep

LEMMA FailingTypeKept ==
  ASSUME Types, ControlInv, SessionStep
  PROVE  FailingType'
<1> USE DEF Types, ControlTypes, JobType, FailingType
<1>1. CASE \/ UpdateBackendParameters \/ PostRequest \/ PopTask \/ StartPreviewCheck
           \/ StartPreview \/ TakePictureCheck \/ TakePictureFence \/ TakePicture
           \/ PictureStart \/ FinishWorker \/ TakePictureClear \/ RestartAfterFailure
           \/ NextNativeFrame \/ DrainPreview \/ DequeuePreview \/ SourceFence
           \/ DequeueRecheck \/ BlitPop \/ BlitRequeue \/ ResultPop \/ PostTakePicture
           \/ PictureThread \/ PictureTaken \/ DataCallback \/ HandleJpeg
           \/ RestartCheck \/ RestartPreview \/ FinishCallback \/ Flush \/ Close
           \/ CloseJoin \/ CloseFlush \/ FlushDrainJpeg \/ FlushLock \/ CancelPicture
           \/ PictureCancelled \/ FlushStopPreview \/ FlushCollect \/ FlushResults
           \/ FlushResultIdle \/ FlushEnd \/ CloseEnd \/ Stutter
  <2>1. UNCHANGED <<failing, metadataReturned, requestErrorNotified, owned>>
    BY <1>1
       DEF UpdateBackendParameters, At, frame, PostRequest, NeedsOrderedPreviewCapture,
          PopTask, StartPreviewCheck, StartPreview, TakePictureCheck, TakePictureFence,
          TakePicture, PictureStart, PreviewStopped, FinishWorker, TakePictureClear,
          RestartAfterFailure, NextNativeFrame, DrainPreview, DequeuePreview,
          SourceFence, DequeueRecheck, BlitPop, BlitRequeue, ResultPop, PostTakePicture,
          PictureThread, PictureTaken, DataCallback, HandleJpeg, RestartCheck,
          RestartPreview, FinishCallback, Flush, BeginFlush, Close, CloseJoin,
          CloseFlush, FlushDrainJpeg, FlushLock, CancelPicture, PictureCancelled,
          FlushStopPreview, FlushCollect, FlushResults, FlushResultIdle, FlushEnd,
          CloseEnd, Stutter, vars, control
  <2> QED
    BY <2>1
<1>2. CASE RejectRawRequest
  BY <1>2 DEF RejectRawRequest, At, control
<1>3. CASE AcceptRequest
  BY <1>3 DEF AcceptRequest, At
<1>4. CASE Reserve
  BY <1>4, JobsAreRequests, FailuresStart DEF Reserve, At, StartFailing, frame
<1>5. CASE Enqueue
  BY <1>5, JobsAreRequests, FailuresStart
     DEF Enqueue, At, NeedsOrderedPreviewCapture, StartFailing
<1>6. CASE TakePictureFinished
  BY <1>6, JobsAreRequests, FailuresStart DEF TakePictureFinished, At, StartFailing, frame
<1>7. CASE SourceFenceTimeout
  BY <1>7, JobsAreRequests, FailuresStart DEF SourceFenceTimeout, At, StartFailing, frame
<1>8. CASE CopyPreview
  <2>1. CASE UNCHANGED failing
    BY <2>1
  <2>2. CASE \E error \in BOOLEAN : Complete("capture", job["capture"], error)
    BY <1>8, <2>2, JobsAreRequests, FailuresStart DEF CopyPreview, At, Complete, StartFailing
  <2> QED
    BY <1>8, <2>1, <2>2 DEF CopyPreview
<1>9. CASE BlitComplete
  BY <1>9, JobsAreRequests, FailuresStart
     DEF BlitComplete, At, Complete, frame, StartFailing
<1>10. CASE Deliver
  BY <1>10 DEF Deliver, At, Reset
<1>11. CASE ScheduleJpeg
  BY <1>11, JobsAreRequests, FailuresStart DEF ScheduleJpeg, At, StartFailing, frame
<1>12. CASE HandleJpegCheck
  BY <1>12, JobsAreRequests, FailuresStart DEF HandleJpegCheck, At, StartFailing, frame
<1>13. CASE SendJpeg
  BY <1>13, JobsAreRequests, FailuresStart DEF SendJpeg, At, Reset, StartFailing
<1>14. CASE FlushFail
  BY <1>14, QueueHeads, FailuresStart DEF FlushFail, At, StartFailing, frame, QueueTypes
<1>15. ASSUME NEW t \in Threads, FailLook(t) PROVE FailingType'
  BY <1>15 DEF FailLook, Failures, FrameTypes, OwnedType
<1>16. ASSUME NEW t \in Threads, FailReturn(t) PROVE FailingType'
  BY <1>16 DEF FailReturn, Reset, Failures
<1>17. ASSUME NEW t \in Threads, FailStill(t) PROVE FailingType'
  BY <1>17 DEF FailStill, frame
<1> QED
  BY <1>1, <1>2, <1>3, <1>4, <1>5, <1>6, <1>7, <1>8, <1>9, <1>10, <1>11, <1>12, <1>13,
     <1>14, <1>15, <1>16, <1>17
     DEF SessionStep

LEMMA QueueTypesKept ==
  ASSUME Types, ControlInv, NothingToCollect, SessionStep
  PROVE  QueueTypes'
<1> USE DEF Types, QueueTypes, ControlTypes
<1>1. CASE \/ RejectRawRequest \/ AcceptRequest \/ UpdateBackendParameters \/ Reserve
           \/ PostRequest \/ PopTask \/ StartPreviewCheck \/ StartPreview
           \/ TakePictureCheck \/ TakePictureFence \/ TakePicture \/ PictureStart
           \/ FinishWorker \/ TakePictureFinished \/ TakePictureClear
           \/ RestartAfterFailure \/ NextNativeFrame \/ DrainPreview \/ SourceFence
           \/ SourceFenceTimeout \/ BlitRequeue \/ ScheduleJpeg \/ PostTakePicture
           \/ PictureThread \/ PictureTaken \/ DataCallback \/ HandleJpeg
           \/ HandleJpegCheck \/ SendJpeg \/ RestartCheck \/ RestartPreview
           \/ FinishCallback \/ Flush \/ Close \/ CloseJoin \/ CloseFlush \/ FlushLock
           \/ CancelPicture \/ PictureCancelled \/ FlushStopPreview \/ FlushEnd
           \/ CloseEnd \/ Stutter
  <2>1. UNCHANGED <<previewQueue, resultQueue, videoBlitQueue, shutters, todo>>
    BY <1>1
       DEF RejectRawRequest, flusher, preview, queues, AcceptRequest, seen,
          UpdateBackendParameters, Reserve, PostRequest, NeedsOrderedPreviewCapture,
          PopTask, StartPreviewCheck, StartPreview, TakePictureCheck, TakePictureFence,
          TakePicture, PictureStart, PreviewStopped, FinishWorker, TakePictureFinished,
          TakePictureClear, RestartAfterFailure, NextNativeFrame, DrainPreview,
          SourceFence, SourceFenceTimeout, BlitRequeue, ScheduleJpeg, PostTakePicture,
          PictureThread, PictureTaken, DataCallback, HandleJpeg, HandleJpegCheck,
          SendJpeg, RestartCheck, RestartPreview, FinishCallback, Flush, BeginFlush,
          Close, CloseJoin, CloseFlush, FlushLock, CancelPicture, PictureCancelled,
          FlushStopPreview, FlushEnd, CloseEnd, Stutter, vars
  <2> QED
    BY <2>1
<1>2. CASE Enqueue
  <2>1. job["framework"] \in Requests
    BY <1>2, JobsAreRequests DEF Enqueue, At, ControlTypes
  <2>2. Append(shutters, job["framework"]) \in Seq(Requests)
        /\ Append(previewQueue, job["framework"]) \in Seq(Requests)
    BY <2>1, Appended
  <2>3. /\ shutters' \in {shutters, Append(shutters, job["framework"])}
        /\ previewQueue' \in {previewQueue, Append(previewQueue, job["framework"])}
        /\ UNCHANGED <<resultQueue, videoBlitQueue, todo>>
    BY <1>2 DEF Enqueue, queues, flusher
  <2> QED
    BY <2>2, <2>3
<1>3. CASE DequeuePreview
  BY <1>3, QueueHeads DEF DequeuePreview, flusher, queues, seen, At
<1>4. CASE DequeueRecheck
  <2>1. job["capture"] \in Requests
    BY <1>4, JobsAreRequests DEF DequeueRecheck, At
  <2>2. <<job["capture"]>> \o previewQueue \in Seq(Requests)
    BY <2>1, Put, Joined
  <2>3. /\ previewQueue' \in {previewQueue, <<job["capture"]>> \o previewQueue}
        /\ UNCHANGED <<shutters, resultQueue, videoBlitQueue, todo>>
    BY <1>4 DEF DequeueRecheck, preview, queues, seen, flusher
  <2> QED
    BY <2>2, <2>3
<1>5. CASE CopyPreview
  <2>1. job["capture"] \in Requests
    BY <1>5, JobsAreRequests DEF CopyPreview, At
  <2>2. Append(videoBlitQueue, job["capture"]) \in Seq(Requests)
        /\ Append(resultQueue, job["capture"]) \in Seq(Requests)
    BY <2>1, Appended
  <2>3. /\ videoBlitQueue' \in {videoBlitQueue, Append(videoBlitQueue, job["capture"])}
        /\ resultQueue' \in {resultQueue, Append(resultQueue, job["capture"])}
        /\ UNCHANGED <<shutters, previewQueue, todo>>
    BY <1>5 DEF CopyPreview, Complete, seen, flusher
  <2> QED
    BY <2>2, <2>3
<1>6. CASE BlitPop
  BY <1>6, QueueHeads DEF BlitPop, flusher, preview, seen, At
<1>7. CASE BlitComplete
  BY <1>7, Appended, JobsAreRequests DEF BlitComplete, Complete, flusher, seen, At
<1>8. CASE ResultPop
  BY <1>8, QueueHeads DEF ResultPop, flusher, preview, seen, At
<1>9. CASE Deliver
  BY <1>9, Appended, JobsAreRequests DEF Deliver, flusher, preview, queues, At
<1>10. CASE FlushDrainJpeg
  BY <1>10, EmptySequence DEF FlushDrainJpeg, queues, seen, At
<1>11. CASE FlushCollect
  <2>1. todo' = todo \o << >>
    BY <1>11, NoneToSequence DEF FlushCollect, At, NothingToCollect, Collecting
  <2>2. todo' \in Seq(Requests)
    BY <2>1, EmptySequence, Joined
  <2> QED
    BY <1>11, <2>2 DEF FlushCollect, queues, seen
<1>12. CASE FlushResults
  BY <1>12, Joined, EmptySequence DEF FlushResults, preview, seen, At
<1>13. CASE FlushResultIdle
  BY <1>13, Appended, JobsAreRequests DEF FlushResultIdle, preview, queues, seen, At
<1>14. CASE FlushFail
  BY <1>14, QueueHeads DEF FlushFail, preview, queues, seen, At
<1>15. ASSUME NEW t \in Threads, FailLook(t) PROVE QueueTypes'
  BY <1>15 DEF FailLook, flusher, preview, queues, seen
<1>16. ASSUME NEW t \in Threads, FailReturn(t) PROVE QueueTypes'
  BY <1>16 DEF FailReturn, flusher, preview, queues
<1>17. ASSUME NEW t \in Threads, FailStill(t) PROVE QueueTypes'
  BY <1>17 DEF FailStill, flusher, preview, queues, seen
<1> QED
  BY <1>1, <1>2, <1>3, <1>4, <1>5, <1>6, <1>7, <1>8, <1>9, <1>10, <1>11, <1>12, <1>13,
     <1>14, <1>15, <1>16, <1>17
     DEF SessionStep

LEMMA SlotTypesKept ==
  ASSUME Types, ControlInv, SessionStep
  PROVE  SlotTypes'
<1> USE DEF Types, SlotTypes, QueueTypes, ControlTypes, JobType
<1>1. CASE \/ RejectRawRequest \/ AcceptRequest \/ UpdateBackendParameters \/ Reserve
           \/ PostRequest \/ PopTask \/ StartPreviewCheck \/ StartPreview
           \/ TakePictureCheck \/ TakePictureFence \/ TakePicture \/ PictureStart
           \/ FinishWorker \/ TakePictureFinished \/ RestartAfterFailure
           \/ NextNativeFrame \/ DrainPreview \/ SourceFence \/ BlitPop \/ BlitRequeue
           \/ ResultPop \/ Deliver \/ PostTakePicture \/ PictureThread \/ PictureTaken
           \/ DataCallback \/ HandleJpegCheck \/ SendJpeg \/ RestartCheck
           \/ RestartPreview \/ FinishCallback \/ Flush \/ Close \/ CloseJoin
           \/ CloseFlush \/ FlushLock \/ CancelPicture \/ PictureCancelled
           \/ FlushStopPreview \/ FlushResults \/ FlushResultIdle \/ FlushFail
           \/ FlushEnd \/ CloseEnd \/ Stutter
  <2>1. UNCHANGED <<pendingJpeg, inFlightPreview, scratchInUse, abandoned>>
    BY <1>1
       DEF RejectRawRequest, preview, still, AcceptRequest, UpdateBackendParameters,
          Reserve, PostRequest, NeedsOrderedPreviewCapture, PopTask, StartPreviewCheck,
          StartPreview, TakePictureCheck, TakePictureFence, TakePicture, PictureStart,
          FinishWorker, TakePictureFinished, RestartAfterFailure, NextNativeFrame,
          DrainPreview, SourceFence, BlitPop, BlitRequeue, ResultPop, Deliver,
          PostTakePicture, PictureThread, PictureTaken, DataCallback, HandleJpegCheck,
          SendJpeg, RestartCheck, RestartPreview, FinishCallback, Flush, BeginFlush,
          Close, CloseJoin, CloseFlush, FlushLock, CancelPicture, PictureCancelled,
          FlushStopPreview, FlushResults, FlushResultIdle, FlushFail, FlushEnd,
          CloseEnd, Stutter, vars
  <2> QED
    BY <2>1
<1>2. CASE Enqueue
  BY <1>2, JobsAreRequests, QueueHeads DEF Enqueue, NeedsOrderedPreviewCapture, At
<1>3. CASE TakePictureClear
  BY <1>3 DEF TakePictureClear, preview
<1>4. CASE DequeuePreview
  BY <1>4, JobsAreRequests, QueueHeads DEF DequeuePreview, still, At
<1>5. CASE SourceFenceTimeout
  BY <1>5 DEF SourceFenceTimeout
<1>6. CASE DequeueRecheck
  BY <1>6, JobsAreRequests, QueueHeads
     DEF DequeueRecheck, ReleaseScratch, preview, still, At
<1>7. CASE CopyPreview
  BY <1>7 DEF CopyPreview, Complete, still, ReleaseScratch
<1>8. CASE BlitComplete
  BY <1>8 DEF BlitComplete, Complete, still, ReleaseScratch
<1>9. CASE ScheduleJpeg
  BY <1>9, JobsAreRequests, QueueHeads DEF ScheduleJpeg, preview, At
<1>10. CASE HandleJpeg
  BY <1>10 DEF HandleJpeg, preview
<1>11. CASE FlushDrainJpeg
  BY <1>11 DEF FlushDrainJpeg
<1>12. CASE FlushCollect
  BY <1>12 DEF FlushCollect, still
<1>13. ASSUME NEW t \in Threads, FailLook(t) PROVE SlotTypes'
  BY <1>13 DEF FailLook, preview, still
<1>14. ASSUME NEW t \in Threads, FailReturn(t) PROVE SlotTypes'
  BY <1>14 DEF FailReturn, preview, still
<1>15. ASSUME NEW t \in Threads, FailStill(t) PROVE SlotTypes'
  BY <1>15 DEF FailStill, preview
<1> QED
  BY <1>1, <1>2, <1>3, <1>4, <1>5, <1>6, <1>7, <1>8, <1>9, <1>10, <1>11, <1>12, <1>13,
     <1>14, <1>15
     DEF SessionStep

LEMMA OwnedTypeKept ==
  ASSUME Types, ControlInv, SessionStep
  PROVE  OwnedType'
<1> USE DEF Types, FrameTypes, OwnedType
<1>1. CASE \/ RejectRawRequest \/ UpdateBackendParameters \/ Reserve \/ Enqueue
           \/ PostRequest \/ PopTask \/ StartPreviewCheck \/ StartPreview
           \/ TakePictureCheck \/ TakePictureFence \/ TakePicture \/ PictureStart
           \/ FinishWorker \/ TakePictureFinished \/ TakePictureClear
           \/ RestartAfterFailure \/ NextNativeFrame \/ DrainPreview \/ DequeuePreview
           \/ SourceFence \/ SourceFenceTimeout \/ DequeueRecheck \/ CopyPreview
           \/ BlitPop \/ BlitComplete \/ BlitRequeue \/ ResultPop \/ ScheduleJpeg
           \/ PostTakePicture \/ PictureThread \/ PictureTaken \/ DataCallback
           \/ HandleJpeg \/ HandleJpegCheck \/ RestartCheck \/ RestartPreview
           \/ FinishCallback \/ Flush \/ Close \/ CloseJoin \/ CloseFlush
           \/ FlushDrainJpeg \/ FlushLock \/ CancelPicture \/ PictureCancelled
           \/ FlushStopPreview \/ FlushCollect \/ FlushResults \/ FlushResultIdle
           \/ FlushFail \/ FlushEnd \/ CloseEnd \/ Stutter
  <2>1. UNCHANGED <<owned>>
    BY <1>1
       DEF RejectRawRequest, UpdateBackendParameters, frame, Reserve, Enqueue,
          NeedsOrderedPreviewCapture, PostRequest, PopTask, StartPreviewCheck,
          StartPreview, TakePictureCheck, TakePictureFence, TakePicture, PictureStart,
          FinishWorker, TakePictureFinished, TakePictureClear, RestartAfterFailure,
          NextNativeFrame, DrainPreview, DequeuePreview, SourceFence,
          SourceFenceTimeout, DequeueRecheck, CopyPreview, BlitPop, BlitComplete,
          BlitRequeue, ResultPop, ScheduleJpeg, PostTakePicture, PictureThread,
          PictureTaken, DataCallback, HandleJpeg, HandleJpegCheck, RestartCheck,
          RestartPreview, FinishCallback, Flush, BeginFlush, Close, CloseJoin,
          CloseFlush, FlushDrainJpeg, FlushLock, CancelPicture, PictureCancelled,
          FlushStopPreview, FlushCollect, FlushResults, FlushResultIdle, FlushFail,
          FlushEnd, CloseEnd, Stutter, vars
  <2> QED
    BY <2>1
<1>2. CASE AcceptRequest
  BY <1>2, Asking DEF AcceptRequest
<1>3. CASE Deliver
  BY <1>3 DEF Deliver, Reset
<1>4. CASE SendJpeg
  BY <1>4 DEF SendJpeg, Reset
<1>5. ASSUME NEW t \in Threads, FailLook(t) PROVE OwnedType'
  BY <1>5 DEF FailLook
<1>6. ASSUME NEW t \in Threads, FailReturn(t) PROVE OwnedType'
  BY <1>6 DEF FailReturn, Reset
<1>7. ASSUME NEW t \in Threads, FailStill(t) PROVE OwnedType'
  BY <1>7 DEF FailStill, frame
<1> QED
  BY <1>1, <1>2, <1>3, <1>4, <1>5, <1>6, <1>7 DEF SessionStep

LEMMA ReturnedTypeKept ==
  ASSUME Types, ControlInv, SessionStep
  PROVE  ReturnedType'
<1> USE DEF Types, FrameTypes, ReturnedType
<1>1. CASE \/ AcceptRequest \/ UpdateBackendParameters \/ Reserve \/ Enqueue
           \/ PostRequest \/ PopTask \/ StartPreviewCheck \/ StartPreview
           \/ TakePictureCheck \/ TakePictureFence \/ TakePicture \/ PictureStart
           \/ FinishWorker \/ TakePictureFinished \/ TakePictureClear
           \/ RestartAfterFailure \/ NextNativeFrame \/ DrainPreview \/ DequeuePreview
           \/ SourceFence \/ SourceFenceTimeout \/ DequeueRecheck \/ CopyPreview
           \/ BlitPop \/ BlitComplete \/ BlitRequeue \/ ResultPop \/ ScheduleJpeg
           \/ PostTakePicture \/ PictureThread \/ PictureTaken \/ DataCallback
           \/ HandleJpeg \/ HandleJpegCheck \/ RestartCheck \/ RestartPreview
           \/ FinishCallback \/ Flush \/ Close \/ CloseJoin \/ CloseFlush
           \/ FlushDrainJpeg \/ FlushLock \/ CancelPicture \/ PictureCancelled
           \/ FlushStopPreview \/ FlushCollect \/ FlushResults \/ FlushResultIdle
           \/ FlushFail \/ FlushEnd \/ CloseEnd \/ Stutter
  <2>1. UNCHANGED <<returned>>
    BY <1>1
       DEF AcceptRequest, seen, UpdateBackendParameters, Reserve, Enqueue,
          NeedsOrderedPreviewCapture, PostRequest, PopTask, StartPreviewCheck,
          StartPreview, TakePictureCheck, TakePictureFence, TakePicture, PictureStart,
          FinishWorker, TakePictureFinished, TakePictureClear, RestartAfterFailure,
          NextNativeFrame, DrainPreview, DequeuePreview, SourceFence,
          SourceFenceTimeout, DequeueRecheck, CopyPreview, BlitPop, BlitComplete,
          BlitRequeue, ResultPop, ScheduleJpeg, PostTakePicture, PictureThread,
          PictureTaken, DataCallback, HandleJpeg, HandleJpegCheck, RestartCheck,
          RestartPreview, FinishCallback, Flush, BeginFlush, Close, CloseJoin,
          CloseFlush, FlushDrainJpeg, FlushLock, CancelPicture, PictureCancelled,
          FlushStopPreview, FlushCollect, FlushResults, FlushResultIdle, FlushFail,
          FlushEnd, CloseEnd, Stutter, vars
  <2> QED
    BY <2>1
<1>2. CASE RejectRawRequest
  <2>1. next \in Requests
    BY <1>2, Asking DEF RejectRawRequest
  <2> QED
    BY <1>2, <2>1, GivenBack DEF RejectRawRequest
<1>3. CASE Deliver
  <2>1. job["result"] \in Requests
    BY <1>3, JobsAreRequests DEF Deliver, At, ControlTypes
  <2> QED
    BY <1>3, <2>1, GivenBack DEF Deliver
<1>4. CASE SendJpeg
  <2>1. job["picture"] \in Requests
    BY <1>4, JobsAreRequests DEF SendJpeg, At, ControlTypes
  <2>2. CASE UNCHANGED returned
    BY <2>2
  <2>3. CASE GiveBack(job["picture"], {"jpeg"})
    BY <2>1, <2>3, GivenBack
  <2> QED
    BY <1>4, <2>2, <2>3 DEF SendJpeg
<1>5. ASSUME NEW t \in Threads, FailLook(t) PROVE ReturnedType'
  BY <1>5 DEF FailLook, seen
<1>6. ASSUME NEW t \in Threads, FailReturn(t) PROVE ReturnedType'
  <2>1. failing[t].frame \in Requests
    BY <1>6, Outside DEF FailReturn, ControlTypes, FailingType, Failures
  <2> QED
    BY <1>6, <2>1, GivenBack DEF FailReturn
<1>7. ASSUME NEW t \in Threads, FailStill(t) PROVE ReturnedType'
  BY <1>7 DEF FailStill, seen
<1> QED
  BY <1>1, <1>2, <1>3, <1>4, <1>5, <1>6, <1>7 DEF SessionStep

LEMMA AnswerTypesKept ==
  ASSUME Types, ControlInv, SessionStep
  PROVE  AnswerTypes'
<1> USE DEF Types, FrameTypes, AnswerTypes
<1>1. CASE \/ AcceptRequest \/ UpdateBackendParameters \/ Reserve \/ PostRequest
           \/ PopTask \/ StartPreviewCheck \/ StartPreview \/ TakePictureCheck
           \/ TakePictureFence \/ TakePicture \/ PictureStart \/ FinishWorker
           \/ TakePictureFinished \/ TakePictureClear \/ RestartAfterFailure
           \/ NextNativeFrame \/ DrainPreview \/ DequeuePreview \/ SourceFence
           \/ SourceFenceTimeout \/ DequeueRecheck \/ CopyPreview \/ BlitPop
           \/ BlitComplete \/ BlitRequeue \/ ResultPop \/ ScheduleJpeg
           \/ PostTakePicture \/ PictureThread \/ PictureTaken \/ DataCallback
           \/ HandleJpeg \/ HandleJpegCheck \/ RestartCheck \/ RestartPreview
           \/ FinishCallback \/ Flush \/ Close \/ CloseJoin \/ CloseFlush
           \/ FlushDrainJpeg \/ FlushLock \/ CancelPicture \/ PictureCancelled
           \/ FlushStopPreview \/ FlushCollect \/ FlushResults \/ FlushResultIdle
           \/ FlushFail \/ FlushEnd \/ CloseEnd \/ Stutter
  <2>1. UNCHANGED <<metadataReturned, requestErrorNotified>>
    BY <1>1
       DEF AcceptRequest, UpdateBackendParameters, frame, Reserve, PostRequest,
          NeedsOrderedPreviewCapture, PopTask, StartPreviewCheck, StartPreview,
          TakePictureCheck, TakePictureFence, TakePicture, PictureStart, FinishWorker,
          TakePictureFinished, TakePictureClear, RestartAfterFailure, NextNativeFrame,
          DrainPreview, DequeuePreview, SourceFence, SourceFenceTimeout, DequeueRecheck,
          CopyPreview, BlitPop, BlitComplete, BlitRequeue, ResultPop, ScheduleJpeg,
          PostTakePicture, PictureThread, PictureTaken, DataCallback, HandleJpeg,
          HandleJpegCheck, RestartCheck, RestartPreview, FinishCallback, Flush,
          BeginFlush, Close, CloseJoin, CloseFlush, FlushDrainJpeg, FlushLock,
          CancelPicture, PictureCancelled, FlushStopPreview, FlushCollect, FlushResults,
          FlushResultIdle, FlushFail, FlushEnd, CloseEnd, Stutter, vars
  <2> QED
    BY <2>1
<1>2. CASE RejectRawRequest
  BY <1>2, Asking, JobsAreRequests DEF RejectRawRequest, At, ControlTypes
<1>3. CASE Enqueue
  BY <1>3, Asking, JobsAreRequests
     DEF Enqueue, NeedsOrderedPreviewCapture, At, ControlTypes
<1>4. CASE Deliver
  BY <1>4, Asking, JobsAreRequests DEF Deliver, At, ControlTypes
<1>5. CASE SendJpeg
  BY <1>5, Asking, JobsAreRequests DEF SendJpeg, At, ControlTypes
<1>6. ASSUME NEW t \in Threads, FailLook(t) PROVE AnswerTypes'
  BY <1>6 DEF FailLook, ControlTypes, FailingType, Failures
<1>7. ASSUME NEW t \in Threads, FailReturn(t) PROVE AnswerTypes'
  BY <1>7 DEF FailReturn
<1>8. ASSUME NEW t \in Threads, FailStill(t) PROVE AnswerTypes'
  BY <1>8 DEF FailStill, frame
<1> QED
  BY <1>1, <1>2, <1>3, <1>4, <1>5, <1>6, <1>7, <1>8 DEF SessionStep

LEMMA GenerationTypeKept ==
  ASSUME Types, ControlInv, SessionStep
  PROVE  GenerationType'
<1> USE DEF Types, FrameTypes, GenerationType, TaskTypes
<1>1. CASE \/ RejectRawRequest \/ UpdateBackendParameters \/ Reserve \/ Enqueue
           \/ PostRequest \/ PopTask \/ StartPreviewCheck \/ StartPreview
           \/ TakePictureCheck \/ TakePictureFence \/ TakePicture \/ PictureStart
           \/ FinishWorker \/ TakePictureFinished \/ TakePictureClear
           \/ RestartAfterFailure \/ NextNativeFrame \/ DrainPreview \/ DequeuePreview
           \/ SourceFence \/ SourceFenceTimeout \/ DequeueRecheck \/ CopyPreview
           \/ BlitPop \/ BlitComplete \/ BlitRequeue \/ ResultPop \/ Deliver
           \/ ScheduleJpeg \/ PostTakePicture \/ PictureThread \/ PictureTaken
           \/ DataCallback \/ HandleJpeg \/ HandleJpegCheck \/ SendJpeg \/ RestartCheck
           \/ RestartPreview \/ FinishCallback \/ Flush \/ Close \/ CloseJoin
           \/ CloseFlush \/ FlushDrainJpeg \/ FlushLock \/ CancelPicture
           \/ PictureCancelled \/ FlushStopPreview \/ FlushCollect \/ FlushResults
           \/ FlushResultIdle \/ FlushFail \/ FlushEnd \/ CloseEnd \/ Stutter
  <2>1. UNCHANGED <<generation>>
    BY <1>1
       DEF RejectRawRequest, UpdateBackendParameters, Reserve, Changed, Enqueue,
          NeedsOrderedPreviewCapture, PostRequest, PopTask, StartPreviewCheck,
          StartPreview, TakePictureCheck, TakePictureFence, TakePicture, PictureStart,
          FinishWorker, TakePictureFinished, TakePictureClear, RestartAfterFailure,
          NextNativeFrame, DrainPreview, DequeuePreview, SourceFence,
          SourceFenceTimeout, DequeueRecheck, CopyPreview, Complete, BlitPop,
          BlitComplete, BlitRequeue, ResultPop, Deliver, ScheduleJpeg, PostTakePicture,
          PictureThread, PictureTaken, DataCallback, HandleJpeg, HandleJpegCheck,
          SendJpeg, RestartCheck, RestartPreview, FinishCallback, Flush, BeginFlush,
          Close, CloseJoin, CloseFlush, FlushDrainJpeg, FlushLock, CancelPicture,
          PictureCancelled, FlushStopPreview, FlushCollect, FlushResults,
          FlushResultIdle, FlushFail, FlushEnd, CloseEnd, Stutter, vars
  <2> QED
    BY <2>1
<1>2. CASE AcceptRequest
  BY <1>2, Asking DEF AcceptRequest
<1>3. ASSUME NEW t \in Threads, FailLook(t) PROVE GenerationType'
  BY <1>3 DEF FailLook
<1>4. ASSUME NEW t \in Threads, FailReturn(t) PROVE GenerationType'
  BY <1>4 DEF FailReturn
<1>5. ASSUME NEW t \in Threads, FailStill(t) PROVE GenerationType'
  BY <1>5 DEF FailStill
<1> QED
  BY <1>1, <1>2, <1>3, <1>4, <1>5 DEF SessionStep

LEMMA FlagTypesKept ==
  ASSUME Types, SessionStep
  PROVE  FlagTypes'
<1> USE DEF Types, FlagTypes
<1>1. CASE \/ RejectRawRequest \/ AcceptRequest \/ UpdateBackendParameters
           \/ PostRequest \/ PopTask \/ RestartAfterFailure \/ DrainPreview
           \/ DequeuePreview \/ SourceFence \/ DequeueRecheck \/ CopyPreview \/ BlitPop
           \/ BlitComplete \/ BlitRequeue \/ ResultPop \/ Deliver \/ PostTakePicture
           \/ PictureThread \/ DataCallback \/ HandleJpegCheck \/ SendJpeg
           \/ RestartCheck \/ RestartPreview \/ FinishCallback \/ FlushDrainJpeg
           \/ FlushLock \/ CancelPicture \/ FlushResults \/ FlushResultIdle \/ FlushFail
           \/ Stutter
  <2>1. UNCHANGED <<closing, flushing, previewAbort, stillQueued, jpegWorkerActive,
     previewStarted, rc, preview_enabled, node0, callbacksUser>>
    BY <1>1
       DEF RejectRawRequest, InTransition, backend, jpegSync, session, still, worker,
          AcceptRequest, UpdateBackendParameters, PostRequest,
          NeedsOrderedPreviewCapture, PopTask, RestartAfterFailure, DrainPreview,
          DequeuePreview, SourceFence, DequeueRecheck, CopyPreview, BlitPop,
          BlitComplete, BlitRequeue, ResultPop, Deliver, PostTakePicture, PictureThread,
          DataCallback, HandleJpegCheck, Changed, SendJpeg, RestartCheck,
          RestartPreview, FinishCallback, FlushDrainJpeg, FlushLock, CancelPicture,
          FlushResults, FlushResultIdle, FlushFail, Stutter, vars
  <2> QED
    BY <2>1
<1>2. CASE Reserve
  BY <1>2 DEF Reserve, Changed, backend, jpegSync, session, worker, InTransition
<1>3. CASE Enqueue
  BY <1>3
     DEF Enqueue, Changed, NeedsOrderedPreviewCapture, backend, jpegSync, session,
        worker, InTransition
<1>4. CASE StartPreviewCheck
  BY <1>4 DEF StartPreviewCheck, InTransition, backend, jpegSync, session, worker
<1>5. CASE StartPreview
  BY <1>5 DEF StartPreview, still, session, jpegSync, worker
<1>6. CASE TakePictureCheck
  BY <1>6 DEF TakePictureCheck, InTransition, backend, session, worker
<1>7. CASE TakePictureFence
  BY <1>7 DEF TakePictureFence, backend, jpegSync, session, still
<1>8. CASE TakePicture
  BY <1>8 DEF TakePicture, jpegSync, session, still
<1>9. CASE PictureStart
  BY <1>9 DEF PictureStart, Node0AfterStop, jpegSync, session, still
<1>10. CASE FinishWorker
  BY <1>10 DEF FinishWorker, backend, session, still, worker
<1>11. CASE TakePictureFinished
  BY <1>11 DEF TakePictureFinished, backend, jpegSync, session, still, worker
<1>12. CASE TakePictureClear
  BY <1>12 DEF TakePictureClear, backend, jpegSync, session, worker
<1>13. CASE NextNativeFrame
  BY <1>13 DEF NextNativeFrame, jpegSync, session, still, worker
<1>14. CASE SourceFenceTimeout
  BY <1>14 DEF SourceFenceTimeout, backend, jpegSync, session, worker
<1>15. CASE ScheduleJpeg
  BY <1>15 DEF ScheduleJpeg, Changed, backend, jpegSync, session, worker, InTransition
<1>16. CASE PictureTaken
  BY <1>16 DEF PictureTaken, jpegSync, session, still, worker
<1>17. CASE HandleJpeg
  BY <1>17 DEF HandleJpeg, InTransition, backend, session, worker
<1>18. CASE Flush
  BY <1>18 DEF Flush, BeginFlush, backend, jpegSync, worker
<1>19. CASE Close
  BY <1>19 DEF Close, backend, jpegSync, worker
<1>20. CASE CloseJoin
  BY <1>20 DEF CloseJoin, jpegSync, session, still, worker
<1>21. CASE CloseFlush
  BY <1>21 DEF CloseFlush, BeginFlush, backend, jpegSync, worker
<1>22. CASE PictureCancelled
  BY <1>22 DEF PictureCancelled, jpegSync, session, still, worker
<1>23. CASE FlushStopPreview
  BY <1>23 DEF FlushStopPreview, Node0AfterStop, jpegSync, session, still, worker
<1>24. CASE FlushCollect
  BY <1>24 DEF FlushCollect, backend, jpegSync, session, still, worker
<1>25. CASE FlushEnd
  BY <1>25 DEF FlushEnd, backend, jpegSync, worker
<1>26. CASE CloseEnd
  BY <1>26 DEF CloseEnd, jpegSync, session, still, worker
<1>27. ASSUME NEW t \in Threads, FailLook(t) PROVE FlagTypes'
  BY <1>27 DEF FailLook, backend, jpegSync, session, still, worker
<1>28. ASSUME NEW t \in Threads, FailReturn(t) PROVE FlagTypes'
  BY <1>28 DEF FailReturn, backend, jpegSync, session, still, worker
<1>29. ASSUME NEW t \in Threads, FailStill(t) PROVE FlagTypes'
  BY <1>29 DEF FailStill, InTransition, backend, jpegSync, session, worker
<1> QED
  BY <1>1, <1>2, <1>3, <1>4, <1>5, <1>6, <1>7, <1>8, <1>9, <1>10, <1>11, <1>12, <1>13,
     <1>14, <1>15, <1>16, <1>17, <1>18, <1>19, <1>20, <1>21, <1>22, <1>23, <1>24, <1>25,
     <1>26, <1>27, <1>28, <1>29
     DEF SessionStep

LEMMA TaskTypesKept ==
  ASSUME Types, ControlInv, SessionStep
  PROVE  TaskTypes'
<1> USE DEF Types, TaskTypes
<1>1. CASE \/ RejectRawRequest \/ AcceptRequest \/ UpdateBackendParameters \/ Reserve
           \/ Enqueue \/ StartPreviewCheck \/ StartPreview \/ TakePictureCheck
           \/ TakePictureFence \/ TakePicture \/ PictureStart \/ FinishWorker
           \/ TakePictureFinished \/ TakePictureClear \/ NextNativeFrame \/ DrainPreview
           \/ DequeuePreview \/ SourceFence \/ SourceFenceTimeout \/ DequeueRecheck
           \/ CopyPreview \/ BlitPop \/ BlitComplete \/ BlitRequeue \/ ResultPop
           \/ Deliver \/ ScheduleJpeg \/ PictureThread \/ PictureTaken \/ DataCallback
           \/ HandleJpeg \/ HandleJpegCheck \/ SendJpeg \/ RestartCheck
           \/ FinishCallback \/ CloseJoin \/ FlushLock \/ CancelPicture
           \/ PictureCancelled \/ FlushStopPreview \/ FlushCollect \/ FlushResults
           \/ FlushResultIdle \/ FlushFail \/ FlushEnd \/ CloseEnd \/ Stutter
  <2>1. UNCHANGED <<sessionGeneration, workerTasks, taskGeneration>>
    BY <1>1
       DEF RejectRawRequest, session, worker, AcceptRequest, UpdateBackendParameters,
          Reserve, Changed, Current, Enqueue, NeedsOrderedPreviewCapture,
          StartPreviewCheck, StartPreview, TakePictureCheck, TakePictureFence,
          TakePicture, PictureStart, FinishWorker, TakePictureFinished,
          TakePictureClear, NextNativeFrame, DrainPreview, DequeuePreview, SourceFence,
          SourceFenceTimeout, DequeueRecheck, CopyPreview, Complete, BlitPop,
          BlitComplete, BlitRequeue, ResultPop, Deliver, ScheduleJpeg, PictureThread,
          PictureTaken, DataCallback, HandleJpeg, HandleJpegCheck, SendJpeg,
          RestartCheck, FinishCallback, CloseJoin, FlushLock, CancelPicture,
          PictureCancelled, FlushStopPreview, FlushCollect, FlushResults,
          FlushResultIdle, FlushFail, FlushEnd, CloseEnd, Stutter, vars
  <2> QED
    BY <2>1
<1>2. CASE PostRequest
  <2>1. generation[job["framework"]] \in Nat
    BY <1>2, JobsAreRequests DEF PostRequest, At, FrameTypes, GenerationType, ControlTypes
  <2>2. workerTasks' \in Seq(Tasks)
    BY <1>2, <2>1, TaskPosted DEF PostRequest
  <2> QED
    BY <1>2, <2>2 DEF PostRequest, session, worker
<1>3. CASE PopTask
  BY <1>3, TaskHeads DEF PopTask, Current, session
<1>4. CASE RestartAfterFailure
  <2>1. taskGeneration \in Nat
    BY <1>4, JobsAreRequests DEF RestartAfterFailure, At, FrameTypes, GenerationType, ControlTypes
  <2>2. workerTasks' \in Seq(Tasks)
    BY <1>4, <2>1, TaskPosted DEF RestartAfterFailure
  <2> QED
    BY <1>4, <2>2 DEF RestartAfterFailure, session, worker
<1>5. CASE PostTakePicture
  <2>1. generation[job["result"]] \in Nat
    BY <1>5, JobsAreRequests DEF PostTakePicture, At, FrameTypes, GenerationType, ControlTypes
  <2>2. workerTasks' \in Seq(Tasks)
    BY <1>5, <2>1, TaskPosted DEF PostTakePicture
  <2> QED
    BY <1>5, <2>2 DEF PostTakePicture, session, worker
<1>6. CASE RestartPreview
  <2>1. generation[job["picture"]] \in Nat
    BY <1>6, JobsAreRequests DEF RestartPreview, At, FrameTypes, GenerationType, ControlTypes
  <2>2. workerTasks' \in Seq(Tasks)
    BY <1>6, <2>1, TaskPosted DEF RestartPreview
  <2> QED
    BY <1>6, <2>2 DEF RestartPreview, session, worker
<1>7. CASE Flush
  BY <1>7 DEF Flush, BeginFlush, worker
<1>8. CASE Close
  <2>1. [task |-> "exit", gen |-> sessionGeneration + 1] \in Tasks
    BY DEF Tasks
  <2>2. workerTasks' \in Seq(Tasks)
    BY <1>8, <2>1, Put DEF Close
  <2> QED
    BY <1>8, <2>2 DEF Close, worker
<1>9. CASE CloseFlush
  BY <1>9 DEF CloseFlush, BeginFlush, worker
<1>10. CASE FlushDrainJpeg
  BY <1>10, ExitsAreTasks DEF FlushDrainJpeg, session, worker
<1>11. ASSUME NEW t \in Threads, FailLook(t) PROVE TaskTypes'
  BY <1>11 DEF FailLook, session, worker
<1>12. ASSUME NEW t \in Threads, FailReturn(t) PROVE TaskTypes'
  BY <1>12 DEF FailReturn, session, worker
<1>13. ASSUME NEW t \in Threads, FailStill(t) PROVE TaskTypes'
  BY <1>13 DEF FailStill, session, worker
<1> QED
  BY <1>1, <1>2, <1>3, <1>4, <1>5, <1>6, <1>7, <1>8, <1>9, <1>10, <1>11, <1>12, <1>13
     DEF SessionStep

(* The other steps leave every frame where it is.                             *)
LEMMA StayingMoves ==
  ASSUME Types, ControlInv,
         \/ RejectRawRequest \/ UpdateBackendParameters \/ PostRequest \/ PopTask
         \/ StartPreviewCheck \/ StartPreview \/ TakePictureCheck \/ TakePictureFence
         \/ TakePicture \/ PictureStart \/ FinishWorker \/ TakePictureFinished
         \/ RestartAfterFailure \/ NextNativeFrame \/ DrainPreview \/ SourceFence
         \/ BlitRequeue \/ PostTakePicture \/ PictureThread \/ PictureTaken
         \/ DataCallback \/ RestartCheck \/ RestartPreview \/ FinishCallback \/ Flush
         \/ Close \/ CloseJoin \/ CloseFlush \/ FlushLock \/ CancelPicture
         \/ PictureCancelled \/ FlushStopPreview \/ FlushEnd \/ CloseEnd
         \/ (\E t \in Threads : FailLook(t)) \/ Stutter
  PROVE  Dropped(None)
<1> USE DEF Types, ControlTypes, PcType, JobType, FailingType, ControlInv, FrameworkOK,
   CaptureOK, BlitOK, ResultOK, PictureOK, FlusherOK, Dropped, Place, Failers, Threads,
   Calling, FlushWork
<1>1. CASE RejectRawRequest
  BY <1>1, Outside DEF RejectRawRequest, At, control, flusher, preview, queues, still
<1>2. CASE UpdateBackendParameters
  BY <1>2, Outside DEF UpdateBackendParameters, At, Goto, flusher, preview, queues, still
<1>3. CASE PostRequest
  BY <1>3, Outside
     DEF PostRequest, At, GotoWith, NeedsOrderedPreviewCapture, flusher, preview,
        queues, still, Goto
<1>4. CASE PopTask
  <2>1. pc' \in {[pc EXCEPT !["worker"] = w] : w \in {"exited", "idle", "start", "take"}}
    BY <1>4, TaskHeads DEF PopTask, Goto
  <2> QED
    BY <1>4, <2>1, Outside
       DEF PopTask, At, queues, flusher, preview, still
<1>5. CASE StartPreviewCheck
  BY <1>5, Outside DEF StartPreviewCheck, At, Goto, flusher, preview, queues
<1>6. CASE StartPreview
  <2>1. CASE pc' = [pc EXCEPT !["worker"] = "idle"] /\ UNCHANGED <<preview_enabled, node0>>
    BY <1>6, <2>1, Outside
       DEF StartPreview, At, queues, flusher, preview, still
  <2>2. CASE pc' = [pc EXCEPT !["worker"] = "idle", !["capture"] = "loop"]
             /\ preview_enabled' = TRUE /\ node0' = "preview" /\ ~preview_enabled
    BY <1>6, <2>2, Outside
       DEF StartPreview, At, queues, flusher, preview, still
  <2> QED
    BY <1>6, <2>1, <2>2 DEF StartPreview, Goto
<1>7. CASE TakePictureCheck
  BY <1>7, Outside DEF TakePictureCheck, At, GotoWith, flusher, preview, queues, Goto
<1>8. CASE TakePictureFence
  BY <1>8, Outside DEF TakePictureFence, At, Goto, flusher, preview, queues, still
<1>9. CASE TakePicture
  BY <1>9, Outside DEF TakePicture, At, Goto, flusher, preview, queues, still
<1>10. CASE PictureStart
  BY <1>10, Outside
     DEF PictureStart, At, Goto, PreviewStopped, flusher, preview, queues, still
<1>11. CASE FinishWorker
  BY <1>11, Outside DEF FinishWorker, At, Goto, flusher, preview, queues, still
<1>12. CASE TakePictureFinished
  BY <1>12, Outside
     DEF TakePictureFinished, At, Goto, GotoWith, StartFailing, flusher, preview,
        queues, still
<1>13. CASE RestartAfterFailure
  BY <1>13, Outside DEF RestartAfterFailure, At, Goto, flusher, preview, queues, still
<1>14. CASE NextNativeFrame
  BY <1>14, Outside DEF NextNativeFrame, At, Goto, flusher, preview, queues, still
<1>15. CASE DrainPreview
  BY <1>15, Outside DEF DrainPreview, At, Goto, flusher, preview, queues, still
<1>16. CASE SourceFence
  BY <1>16, Outside DEF SourceFence, At, Goto, flusher, preview, queues, still
<1>17. CASE BlitRequeue
  BY <1>17, Outside DEF BlitRequeue, At, Goto, flusher, preview, queues, still
<1>18. CASE PostTakePicture
  BY <1>18, Outside
     DEF PostTakePicture, At, GotoWith, flusher, preview, queues, still, Goto
<1>19. CASE PictureThread
  BY <1>19, Outside DEF PictureThread, At, Goto, flusher, preview, queues, still
<1>20. CASE PictureTaken
  BY <1>20, Outside DEF PictureTaken, At, Goto, flusher, preview, queues, still
<1>21. CASE DataCallback
  BY <1>21, Outside DEF DataCallback, At, Goto, flusher, preview, queues, still
<1>22. CASE RestartCheck
  BY <1>22, Outside DEF RestartCheck, At, Goto, flusher, preview, queues, still
<1>23. CASE RestartPreview
  BY <1>23, Outside DEF RestartPreview, At, Goto, flusher, preview, queues, still
<1>24. CASE FinishCallback
  BY <1>24, Outside
     DEF FinishCallback, At, GotoWith, flusher, preview, queues, still, Goto
<1>25. CASE Flush
  BY <1>25, Outside DEF Flush, At, BeginFlush, Goto, preview, queues
<1>26. CASE Close
  BY <1>26, Outside DEF Close, At, Goto, preview, queues
<1>27. CASE CloseJoin
  BY <1>27, Outside DEF CloseJoin, At, Goto, flusher, preview, queues, still
<1>28. CASE CloseFlush
  BY <1>28, Outside DEF CloseFlush, At, BeginFlush, Goto, preview, queues
<1>29. CASE FlushLock
  BY <1>29, Outside DEF FlushLock, At, Goto, flusher, preview, queues, still
<1>30. CASE CancelPicture
  BY <1>30, Outside DEF CancelPicture, At, flusher, preview, queues, still
<1>31. CASE PictureCancelled
  BY <1>31, Outside DEF PictureCancelled, At, Goto, flusher, preview, queues, still
<1>32. CASE FlushStopPreview
  BY <1>32, Outside
     DEF FlushStopPreview, At, Goto, PreviewStopped, flusher, preview, queues, still
<1>33. CASE FlushEnd
  BY <1>33, Outside DEF FlushEnd, At, Goto, preview, queues
<1>34. CASE CloseEnd
  BY <1>34, Outside DEF CloseEnd, At, flusher, preview, queues, still
<1>35. CASE \E t \in Threads : FailLook(t)
  <2>1. PICK t \in Threads : FailLook(t)
    BY <1>35
  <2>2. /\ failing' = [failing EXCEPT ![t].step = "return", ![t].has = owned[failing[t].frame]]
        /\ failing[t] \in Failures
        /\ failing[t] # None
    BY <2>1 DEF FailLook
  <2>3. failing'[t] # None
    <3>1. owned[failing[t].frame] \in SUBSET Kinds
      BY <2>2 DEF Failures, FrameTypes, OwnedType
    <3>2. failing'[t] = [frame |-> failing[t].frame, step |-> "return",
                         has |-> owned[failing[t].frame]]
      BY <2>2 DEF Failures
    <3> QED
      BY <2>2, <3>1, <3>2, Outside DEF Failures
  <2>4. failing'[t].frame = failing[t].frame /\ \A u \in Threads \ {t} : failing'[u] = failing[u]
    BY <2>2 DEF Failures
  <2>5. UNCHANGED <<pc, job, previewQueue, videoBlitQueue, resultQueue, pendingJpeg, todo>>
    BY <2>1 DEF FailLook, flusher, preview, queues, still
  <2>6. failing[t] # None
    BY <2>2
  <2> QED
    BY <2>3, <2>4, <2>5, <2>6
<1>36. CASE Stutter
  BY <1>36, Outside DEF Stutter, vars, control, flusher, preview, queues, still
<1> QED
  BY <1>1, <1>2, <1>3, <1>4, <1>5, <1>6, <1>7, <1>8, <1>9, <1>10, <1>11, <1>12, <1>13,
     <1>14, <1>15, <1>16, <1>17, <1>18, <1>19, <1>20, <1>21, <1>22, <1>23, <1>24, <1>25,
     <1>26, <1>27, <1>28, <1>29, <1>30, <1>31, <1>32, <1>33, <1>34, <1>35, <1>36

LEMMA ReserveMoves ==
  ASSUME Types, ControlInv, NEW r \in Requests, r = job["framework"], Reserve
  PROVE  IF Changed(r) \/ ("jpeg" \in Outputs[r] /\ stillQueued)
         THEN Moved(r, "asked", "framework", None) ELSE Dropped(None)
<1> USE DEF Types, ControlTypes, PcType, JobType, FailingType, Threads
<1> DEFINE refused == Changed(r) \/ ("jpeg" \in Outputs[r] /\ stillQueued)
<1>1. /\ pc["framework"] = "reserve" /\ failing["framework"] = None
      /\ UNCHANGED <<previewQueue, videoBlitQueue, resultQueue, pendingJpeg, todo>>
  BY DEF Reserve, At, preview, queues, flusher
<1>2. CASE refused
  <2>1. /\ pc' = [pc EXCEPT !["framework"] = "idle"] /\ job' = [job EXCEPT !["framework"] = None]
        /\ failing'["framework"] # None /\ failing'["framework"].frame = r
        /\ \A u \in Threads \ {"framework"} : failing'[u] = failing[u]
    BY <1>1, <1>2, FailureStarts DEF Reserve, GotoWith, Goto
  <2>2. Moved(r, "asked", "framework", None)
    BY <1>1, <2>1, Outside DEF Moved, Place, Failers
  <2> QED
    BY <1>2, <2>2
<1>3. CASE ~refused
  <2>1. pc' = [pc EXCEPT !["framework"] = "enqueue"] /\ UNCHANGED <<job, failing>>
    BY <1>3 DEF Reserve, Goto
  <2>2. Dropped(None)
    BY <1>1, <2>1 DEF Dropped, Place, Failers
  <2> QED
    BY <1>3, <2>2
<1> QED
  BY <1>2, <1>3

LEMMA EnqueueMoves ==
  ASSUME Types, ControlInv, NEW r \in Requests, r = job["framework"], Enqueue
  PROVE  IF Changed(r) THEN Moved(r, "asked", "framework", None)
         ELSE IF NeedsOrderedPreviewCapture(r) THEN Moved(r, "asked", "queued", None)
         ELSE Moved(r, "asked", "pending", pendingJpeg)
<1> USE DEF Types, ControlTypes, PcType, JobType, FailingType, Threads
<1>1. /\ pc["framework"] = "enqueue" /\ failing["framework"] = None
      /\ UNCHANGED <<videoBlitQueue, resultQueue, todo>>
  BY DEF Enqueue, At, queues, flusher
<1>2. CASE Changed(r)
  <2>1. /\ pc' = [pc EXCEPT !["framework"] = "idle"] /\ job' = [job EXCEPT !["framework"] = None]
        /\ failing'["framework"] # None /\ failing'["framework"].frame = r
        /\ \A u \in Threads \ {"framework"} : failing'[u] = failing[u]
        /\ UNCHANGED <<previewQueue, pendingJpeg>>
    BY <1>2, FailureStarts DEF Enqueue, GotoWith, Goto
  <2>2. Moved(r, "asked", "framework", None)
    BY <1>1, <2>1, Outside DEF Moved, Place, Failers
  <2> QED
    BY <1>2, <2>2
<1>3. CASE ~Changed(r)
  <2>1. pc' = [pc EXCEPT !["framework"] = "post"] /\ UNCHANGED <<job, failing>>
    BY <1>3 DEF Enqueue, Goto
  <2>2. CASE NeedsOrderedPreviewCapture(r)
    <3>1. /\ previewQueue' = Append(previewQueue, r) /\ UNCHANGED pendingJpeg
          /\ ToSet(Append(previewQueue, r)) = ToSet(previewQueue) \cup {r}
      <4>1. previewQueue \in Seq(Requests)
        BY DEF QueueTypes
      <4>2. ToSet(Append(previewQueue, r)) = ToSet(previewQueue) \cup {r}
        BY <4>1, Appended
      <4> QED
        BY <1>3, <2>2, <4>2 DEF Enqueue
    <3>2. Moved(r, "asked", "queued", None)
      BY <1>1, <2>1, <3>1 DEF Moved, Place, Failers
    <3> QED
      BY <1>3, <2>2, <3>2
  <2>3. CASE ~NeedsOrderedPreviewCapture(r)
    <3>1. pendingJpeg' = r /\ UNCHANGED previewQueue
      BY <1>3, <2>3 DEF Enqueue
    <3>2. Moved(r, "asked", "pending", pendingJpeg)
      BY <1>1, <2>1, <3>1 DEF Moved, Place, Failers
    <3> QED
      BY <1>3, <2>3, <3>2
  <2> QED
    BY <2>2, <2>3
<1> QED
  BY <1>2, <1>3

LEMMA AcceptRequestMoves ==
  ASSUME Types, ControlInv, NEW r \in Requests, r = next, AcceptRequest
  PROVE  /\ Place("asked", r)'
         /\ \A p \in Places, x \in Requests :
              Place(p, x)' <=> (p = "asked" /\ x = r) \/ Place(p, x)
<1> USE DEF Types, ControlTypes, PcType, JobType, FailingType, Threads
<1>1. /\ job["framework"] = None /\ job' = [job EXCEPT !["framework"] = r]
      /\ pc'["framework"] \in {"parameters", "reserve"}
      /\ \A u \in Threads \ {"framework"} : pc'[u] = pc[u]
      /\ UNCHANGED <<failing, previewQueue, videoBlitQueue, resultQueue, pendingJpeg, todo>>
  BY DEF AcceptRequest, At, GotoWith, Goto, preview, still, queues, flusher, ControlInv,
         FrameworkOK
<1>2. /\ Place("asked", r)'
      /\ \A p \in Places, x \in Requests : Place(p, x)' <=> (p = "asked" /\ x = r) \/ Place(p, x)
  BY <1>1, Outside DEF Place, Failers
<1> QED
  BY <1>2

LEMMA TakePictureClearMoves ==
  ASSUME Types, ControlInv, NEW r \in Requests, r = job["worker"], TakePictureClear
  PROVE  Dropped(r)
<1> USE DEF Types, ControlTypes, PcType, JobType, FailingType, Threads
<1>1. /\ pc' = [pc EXCEPT !["worker"] = "restart"] /\ job' = [job EXCEPT !["worker"] = None]
      /\ pendingJpeg' = (IF pendingJpeg = r THEN None ELSE pendingJpeg)
      /\ UNCHANGED <<failing, previewQueue, videoBlitQueue, resultQueue, todo>>
  BY DEF TakePictureClear, GotoWith, Goto, preview, queues, flusher
<1> QED
  BY <1>1, Outside DEF Dropped, Place, Failers

LEMMA FailReturnMoves ==
  ASSUME Types, ControlInv, NEW t \in Threads, NEW r \in Requests, r = failing[t].frame,
     FailReturn(t)
  PROVE  Dropped(r)
<1> USE DEF Types, ControlTypes, PcType, JobType, FailingType, Threads
<1>1. /\ UNCHANGED <<pc, job, previewQueue, videoBlitQueue, resultQueue, pendingJpeg, todo>>
      /\ \A u \in Threads \ {t} : failing'[u] = failing[u]
      /\ failing[t] # None /\ failing'[t] \in {None, [failing[t] EXCEPT !.step = "still"]}
  BY DEF FailReturn, preview, still, queues, flusher
<1>2. failing'[t] # None => failing'[t].frame = r
  BY <1>1 DEF Failures
<1> QED
  BY <1>1, <1>2 DEF Dropped, Place, Failers

LEMMA FailStillMoves ==
  ASSUME Types, ControlInv, NEW t \in Threads, NEW r \in Requests, r = failing[t].frame,
     FailStill(t)
  PROVE  Dropped(r)
<1> USE DEF Types, ControlTypes, PcType, JobType, FailingType, Threads
<1>1. /\ UNCHANGED <<pc, job, previewQueue, videoBlitQueue, resultQueue, todo>>
      /\ pendingJpeg' = (IF pendingJpeg = r THEN None ELSE pendingJpeg)
      /\ \A u \in Threads \ {t} : failing'[u] = failing[u]
      /\ failing'[t] = None
  BY DEF FailStill, preview, queues, flusher
<1> QED
  BY <1>1, Outside DEF Dropped, Place, Failers

LEMMA DequeuePreviewMoves ==
  ASSUME Types, ControlInv, NoneTwice, NEW r \in Requests, r = Head(previewQueue),
     DequeuePreview
  PROVE  Moved(r, "queued", "dequeued", None)
<1> USE DEF Types, ControlTypes, PcType, JobType, FailingType, Threads
<1>1. ToSet(previewQueue) = {r} \cup ToSet(previewQueue') /\ r \notin ToSet(previewQueue')
  BY Split DEF DequeuePreview, QueueTypes, NoneTwice
<1>2. /\ job["capture"] = None /\ job' = [job EXCEPT !["capture"] = r]
      /\ pc' = [pc EXCEPT !["capture"] = "fence"]
      /\ UNCHANGED <<failing, videoBlitQueue, resultQueue, pendingJpeg, todo>>
  BY DEF DequeuePreview, At, GotoWith, Goto, still, queues, flusher, ControlInv, CaptureOK
<1> QED
  BY <1>1, <1>2, Outside DEF Moved, Place, Failers

LEMMA SourceFenceTimeoutMoves ==
  ASSUME Types, ControlInv, NEW r \in Requests, r = job["capture"], SourceFenceTimeout
  PROVE  Moved(r, "dequeued", "capture", None)
<1> USE DEF Types, ControlTypes, PcType, JobType, FailingType, Threads
<1>1. /\ failing["capture"] = None /\ job' = [job EXCEPT !["capture"] = None]
      /\ pc' = [pc EXCEPT !["capture"] = "dequeue"]
      /\ failing'["capture"] # None /\ failing'["capture"].frame = r
      /\ \A u \in Threads \ {"capture"} : failing'[u] = failing[u]
      /\ UNCHANGED <<previewQueue, videoBlitQueue, resultQueue, pendingJpeg, todo>>
  BY FailureStarts DEF SourceFenceTimeout, At, GotoWith, Goto, preview, queues, flusher
<1> QED
  BY <1>1, Outside DEF Moved, Place, Failers

LEMMA DequeueRecheckMoves ==
  ASSUME Types, ControlInv, InFlightOK, NEW r \in Requests, r = job["capture"],
     DequeueRecheck
  PROVE  \/ Dropped(None)
         \/ Moved(r, "dequeued", "queued", None)
         \/ Dropped(r) /\ r \in abandoned'
<1> USE DEF Types, ControlTypes, PcType, JobType, FailingType, Threads
<1>1. UNCHANGED <<failing, videoBlitQueue, resultQueue, pendingJpeg, todo>>
  BY DEF DequeueRecheck, still, queues, flusher
<1>2. CASE /\ pc' = [pc EXCEPT !["capture"] = "copy"]
           /\ UNCHANGED <<job, preview, abandoned>>
  <2>1. Dropped(None) /\ job'["capture"] = r /\ abandoned' = abandoned
    BY <1>1, <1>2 DEF Dropped, Place, Failers, preview
  <2> QED
    BY <2>1
<1>3. CASE /\ pc' = [pc EXCEPT !["capture"] = "loop"] /\ job' = [job EXCEPT !["capture"] = None]
           /\ previewQueue' = <<r>> \o previewQueue
  <2>1. ToSet(previewQueue') = ToSet(previewQueue) \cup {r}
    <3>1. ToSet(<<r>> \o previewQueue) = {r} \cup ToSet(previewQueue)
      BY PutFirst DEF QueueTypes
    <3> QED
      BY <1>3, <3>1
  <2>2. Moved(r, "dequeued", "queued", None)
    BY <1>1, <1>3, <2>1, Outside DEF Moved, Place, Failers
  <2> QED
    BY <2>2
<1>4. CASE /\ pc' = [pc EXCEPT !["capture"] = "loop"] /\ job' = [job EXCEPT !["capture"] = None]
           /\ previewQueue' = previewQueue /\ r \in abandoned'
  <2>1. Dropped(r)
    BY <1>1, <1>4, Outside DEF Dropped, Place, Failers
  <2> QED
    BY <1>4, <2>1
<1> QED
  <2>1. r \in inFlightPreview
    BY DEF InFlightOK, DequeueRecheck, At, ControlInv, CaptureOK
  <2> QED
    BY <1>2, <1>3, <1>4, <2>1 DEF DequeueRecheck, GotoWith, Goto

LEMMA CopyPreviewMoves ==
  ASSUME Types, ControlInv, InFlightOK, NEW r \in Requests, r = job["capture"],
     CopyPreview
  PROVE  \/ Moved(r, "dequeued", "recording", None)
         \/ Moved(r, "dequeued", "capture", None)
         \/ Moved(r, "dequeued", "completed", None)
<1> USE DEF Types, ControlTypes, PcType, JobType, FailingType, Threads
<1>1. /\ failing["capture"] = None /\ job' = [job EXCEPT !["capture"] = None]
      /\ pc' = [pc EXCEPT !["capture"] = "loop"]
      /\ UNCHANGED <<previewQueue, pendingJpeg, todo>>
  BY DEF CopyPreview, At, GotoWith, Goto, still, flusher
<1>2. CASE videoBlitQueue' = Append(videoBlitQueue, r) /\ UNCHANGED <<failing, resultQueue>>
  <2>1. ToSet(videoBlitQueue') = ToSet(videoBlitQueue) \cup {r}
    BY <1>2, Appended DEF QueueTypes
  <2>2. Moved(r, "dequeued", "recording", None)
    BY <1>1, <1>2, <2>1, Outside DEF Moved, Place, Failers
  <2> QED
    BY <2>2
<1>3. ASSUME NEW error \in BOOLEAN, Complete("capture", r, error), UNCHANGED videoBlitQueue
      PROVE  Moved(r, "dequeued", "capture", None) \/ Moved(r, "dequeued", "completed", None)
  <2>1. r \in inFlightPreview
    BY DEF InFlightOK
  <2>2. CASE StartFailing("capture", r) /\ resultQueue' = resultQueue
    <3>1. failing'["capture"] # None /\ failing'["capture"].frame = r
          /\ \A u \in Threads \ {"capture"} : failing'[u] = failing[u]
      BY <2>2, FailureStarts
    <3>2. Moved(r, "dequeued", "capture", None)
      BY <1>1, <1>3, <2>2, <3>1, Outside DEF Moved, Place, Failers
    <3> QED
      BY <3>2
  <2>3. CASE failing' = failing /\ resultQueue' = Append(resultQueue, r)
    <3>1. ToSet(resultQueue') = ToSet(resultQueue) \cup {r}
      BY <2>3, Appended DEF QueueTypes
    <3>2. Moved(r, "dequeued", "completed", None)
      BY <1>1, <1>3, <2>3, <3>1, Outside DEF Moved, Place, Failers
    <3> QED
      BY <3>2
  <2> QED
    BY <1>3, <2>1, <2>2, <2>3 DEF Complete
<1> QED
  BY <1>2, <1>3 DEF CopyPreview

LEMMA BlitPopMoves ==
  ASSUME Types, ControlInv, NoneTwice, NEW r \in Requests, r = Head(videoBlitQueue),
     BlitPop
  PROVE  Moved(r, "recording", "recorded", None)
<1> USE DEF Types, ControlTypes, PcType, JobType, FailingType, Threads
<1>1. ToSet(videoBlitQueue) = {r} \cup ToSet(videoBlitQueue') /\ r \notin ToSet(videoBlitQueue')
  BY Split DEF BlitPop, QueueTypes, NoneTwice
<1>2. /\ job["blit"] = None /\ job' = [job EXCEPT !["blit"] = r]
      /\ pc' = [pc EXCEPT !["blit"] = "blit"]
      /\ UNCHANGED <<failing, previewQueue, resultQueue, pendingJpeg, todo>>
  BY DEF BlitPop, At, GotoWith, Goto, still, preview, flusher, ControlInv, BlitOK
<1> QED
  BY <1>1, <1>2, Outside DEF Moved, Place, Failers

LEMMA BlitCompleteMoves ==
  ASSUME Types, ControlInv, InFlightOK, NEW r \in Requests, r = job["blit"],
     BlitComplete
  PROVE  Moved(r, "recorded", "blit", None) \/ Moved(r, "recorded", "completed", None)
<1> USE DEF Types, ControlTypes, PcType, JobType, FailingType, Threads
<1>1. /\ failing["blit"] = None /\ job' = [job EXCEPT !["blit"] = None]
      /\ pc' = [pc EXCEPT !["blit"] = "requeue"]
      /\ UNCHANGED <<previewQueue, videoBlitQueue, pendingJpeg, todo>>
  BY DEF BlitComplete, At, GotoWith, Goto, still, flusher
<1>2. Complete("blit", r, FALSE)
  BY DEF BlitComplete
<1> QED
  <2>1. r \in inFlightPreview
    BY DEF InFlightOK
  <2>2. CASE StartFailing("blit", r) /\ resultQueue' = resultQueue
    <3>1. failing'["blit"] # None /\ failing'["blit"].frame = r
          /\ \A u \in Threads \ {"blit"} : failing'[u] = failing[u]
      BY <2>2, FailureStarts
    <3>2. Moved(r, "recorded", "blit", None)
      BY <1>1, <1>2, <2>2, <3>1, Outside DEF Moved, Place, Failers
    <3> QED
      BY <3>2
  <2>3. CASE failing' = failing /\ resultQueue' = Append(resultQueue, r)
    <3>1. ToSet(resultQueue') = ToSet(resultQueue) \cup {r}
      BY <2>3, Appended DEF QueueTypes
    <3>2. Moved(r, "recorded", "completed", None)
      BY <1>1, <1>2, <2>3, <3>1, Outside DEF Moved, Place, Failers
    <3> QED
      BY <3>2
  <2> QED
    BY <1>2, <2>1, <2>2, <2>3 DEF Complete

LEMMA ResultPopMoves ==
  ASSUME Types, ControlInv, NoneTwice, NEW r \in Requests, r = Head(resultQueue),
     ResultPop
  PROVE  Moved(r, "completed", "delivered", None)
<1> USE DEF Types, ControlTypes, PcType, JobType, FailingType, Threads
<1>1. ToSet(resultQueue) = {r} \cup ToSet(resultQueue') /\ r \notin ToSet(resultQueue')
  BY Split DEF ResultPop, QueueTypes, NoneTwice
<1>2. /\ job["result"] = None /\ job' = [job EXCEPT !["result"] = r]
      /\ pc' = [pc EXCEPT !["result"] = "deliver"]
      /\ UNCHANGED <<failing, previewQueue, videoBlitQueue, pendingJpeg, todo>>
  BY DEF ResultPop, At, GotoWith, Goto, still, preview, flusher, ControlInv, ResultOK
<1> QED
  BY <1>1, <1>2, Outside DEF Moved, Place, Failers

LEMMA DeliverMoves ==
  ASSUME Types, ControlInv, NEW r \in Requests, r = job["result"], Deliver
  PROVE  IF "jpeg" \in owned[r] THEN Dropped(None) ELSE Dropped(r) /\ owned'[r] = {}
<1> USE DEF Types, ControlTypes, PcType, JobType, FailingType, Threads
<1>1. UNCHANGED <<failing, previewQueue, videoBlitQueue, resultQueue, pendingJpeg, todo>>
  BY DEF Deliver, still, preview, queues, flusher
<1>2. CASE "jpeg" \in owned[r]
  <2>1. pc["result"] = "deliver" /\ pc' = [pc EXCEPT !["result"] = "schedule"] /\ UNCHANGED job
    BY <1>2 DEF Deliver, At, Goto
  <2>2. Dropped(None)
    BY <1>1, <2>1 DEF Dropped, Place, Failers
  <2> QED
    BY <1>2, <2>2
<1>3. CASE "jpeg" \notin owned[r]
  <2>1. pc' = [pc EXCEPT !["result"] = "idle"] /\ job' = [job EXCEPT !["result"] = None]
    BY <1>3 DEF Deliver, GotoWith, Goto
  <2>2. Dropped(r)
    BY <1>1, <2>1, Outside DEF Dropped, Place, Failers
  <2>3. owned'[r] = {}
    BY <1>3 DEF Deliver, Reset, FrameTypes, OwnedType
  <2> QED
    BY <1>3, <2>2, <2>3
<1> QED
  BY <1>2, <1>3

LEMMA ScheduleJpegMoves ==
  ASSUME Types, ControlInv, NEW r \in Requests, r = job["result"], ScheduleJpeg
  PROVE  IF Changed(r) THEN Moved(r, "delivered", "result", None)
         ELSE Moved(r, "delivered", "pending", pendingJpeg)
<1> USE DEF Types, ControlTypes, PcType, JobType, FailingType, Threads
<1>1. /\ pc["result"] = "schedule" /\ failing["result"] = None
      /\ UNCHANGED <<previewQueue, videoBlitQueue, resultQueue, todo>>
  BY DEF ScheduleJpeg, At, preview, queues, flusher
<1>2. CASE Changed(r)
  <2>1. /\ pc' = [pc EXCEPT !["result"] = "idle"] /\ job' = [job EXCEPT !["result"] = None]
        /\ failing'["result"] # None /\ failing'["result"].frame = r
        /\ \A u \in Threads \ {"result"} : failing'[u] = failing[u]
        /\ UNCHANGED pendingJpeg
    BY <1>2, FailureStarts DEF ScheduleJpeg, GotoWith, Goto
  <2>2. Moved(r, "delivered", "result", None)
    BY <1>1, <2>1, Outside DEF Moved, Place, Failers
  <2> QED
    BY <1>2, <2>2
<1>3. CASE ~Changed(r)
  <2>1. pc' = [pc EXCEPT !["result"] = "post"] /\ UNCHANGED <<job, failing>> /\ pendingJpeg' = r
    BY <1>3 DEF ScheduleJpeg, Goto
  <2>2. Moved(r, "delivered", "pending", pendingJpeg)
    BY <1>1, <2>1 DEF Moved, Place, Failers
  <2> QED
    BY <1>3, <2>2
<1> QED
  BY <1>2, <1>3

LEMMA HandleJpegMoves ==
  ASSUME Types, ControlInv, NEW r, r = pendingJpeg, HandleJpeg
  PROVE  IF r = None THEN Dropped(None) ELSE r \in Requests /\ Moved(r, "pending", "pictured", None)
<1> USE DEF Types, ControlTypes, PcType, JobType, FailingType, Threads
<1>1. /\ pc' = [pc EXCEPT !["picture"] = "check"] /\ job' = [job EXCEPT !["picture"] = r]
      /\ job["picture"] = None /\ pendingJpeg' = None
      /\ UNCHANGED <<failing, previewQueue, videoBlitQueue, resultQueue, todo>>
  BY DEF HandleJpeg, At, GotoWith, Goto, preview, queues, flusher, ControlInv, PictureOK, Calling
<1>2. CASE r = None
  BY <1>1, <1>2, Outside DEF Dropped, Place, Failers
<1>3. CASE r # None
  <2>1. r \in Requests
    BY <1>3 DEF SlotTypes
  <2>2. Moved(r, "pending", "pictured", None)
    BY <1>1, <2>1, Outside DEF Moved, Place, Failers
  <2> QED
    BY <1>3, <2>1, <2>2
<1> QED
  BY <1>2, <1>3

LEMMA HandleJpegCheckMoves ==
  ASSUME Types, ControlInv, NEW r, r = job["picture"], HandleJpegCheck
  PROVE  \/ Dropped(None)
         \/ r \in Requests /\ Moved(r, "pictured", "picture", None)
         \/ r \in Requests /\ Dropped(r) /\ "jpeg" \notin owned[r]
<1> USE DEF Types, ControlTypes, PcType, JobType, FailingType, Threads
<1>1. /\ failing["picture"] = None /\ pc["picture"] = "check"
      /\ UNCHANGED <<job, previewQueue, videoBlitQueue, resultQueue, pendingJpeg, todo>>
  BY DEF HandleJpegCheck, At, preview, queues, flusher, still
<1>2. CASE r = None
  <2>1. pc' = [pc EXCEPT !["picture"] = "finish"] /\ UNCHANGED failing
    BY <1>2 DEF HandleJpegCheck, Goto
  <2>2. Dropped(None)
    BY <1>1, <1>2, <2>1, Outside DEF Dropped, Place, Failers
  <2> QED
    BY <2>2
<1>3. CASE r # None /\ "jpeg" \notin owned[r]
  <2>1. pc' = [pc EXCEPT !["picture"] = "finish"] /\ UNCHANGED failing
    BY <1>3 DEF HandleJpegCheck, Goto
  <2>2. r \in Requests /\ Dropped(r)
    BY <1>1, <1>3, <2>1, Outside DEF Dropped, Place, Failers
  <2> QED
    BY <1>3, <2>2
<1>4. CASE r # None /\ "jpeg" \in owned[r] /\ Changed(r)
  <2>1. r \in Requests
    BY <1>4
  <2>2. /\ pc' = [pc EXCEPT !["picture"] = "finish"]
        /\ failing'["picture"] # None /\ failing'["picture"].frame = r
        /\ \A u \in Threads \ {"picture"} : failing'[u] = failing[u]
    BY <1>4, <2>1, FailureStarts DEF HandleJpegCheck, Goto
  <2>3. Moved(r, "pictured", "picture", None)
    BY <1>1, <2>1, <2>2 DEF Moved, Place, Failers
  <2> QED
    BY <2>1, <2>3
<1>5. CASE r # None /\ "jpeg" \in owned[r] /\ ~Changed(r)
  <2>1. pc' = [pc EXCEPT !["picture"] = "send"] /\ UNCHANGED failing
    BY <1>5 DEF HandleJpegCheck, Goto
  <2>2. Dropped(None)
    BY <1>1, <2>1 DEF Dropped, Place, Failers
  <2> QED
    BY <2>2
<1> QED
  BY <1>2, <1>3, <1>4, <1>5

LEMMA SendJpegMoves ==
  ASSUME Types, ControlInv, NEW r \in Requests, r = job["picture"], SendJpeg
  PROVE  Moved(r, "pictured", "picture", None) \/ (Dropped(r) /\ "jpeg" \notin owned'[r])
<1> USE DEF Types, ControlTypes, PcType, JobType, FailingType, Threads
<1>1. /\ failing["picture"] = None /\ pc["picture"] = "send"
      /\ pc' = [pc EXCEPT !["picture"] = "restart"]
      /\ UNCHANGED <<job, previewQueue, videoBlitQueue, resultQueue, pendingJpeg, todo>>
  BY DEF SendJpeg, At, Goto, preview, queues, flusher, still
<1>2. CASE UNCHANGED failing /\ Reset(r, {"jpeg"})
  <2>1. Dropped(r)
    BY <1>1, <1>2, Outside DEF Dropped, Place, Failers
  <2>2. "jpeg" \notin owned'[r]
    BY <1>2 DEF Reset, FrameTypes, OwnedType
  <2> QED
    BY <2>1, <2>2
<1>3. CASE StartFailing("picture", r)
  <2>1. /\ failing'["picture"] # None /\ failing'["picture"].frame = r
        /\ \A u \in Threads \ {"picture"} : failing'[u] = failing[u]
    BY <1>3, FailureStarts
  <2>2. Moved(r, "pictured", "picture", None)
    BY <1>1, <2>1 DEF Moved, Place, Failers
  <2> QED
    BY <2>2
<1> QED
  BY <1>2, <1>3 DEF SendJpeg

LEMMA FlushFailMoves ==
  ASSUME Types, ControlInv, NoneTwice, NEW r \in Requests, r = Head(todo), FlushFail
  PROVE  Moved(r, "todo", "flusher", None)
<1> USE DEF Types, ControlTypes, PcType, JobType, FailingType, Threads
<1>1. ToSet(todo) = {r} \cup ToSet(todo') /\ r \notin ToSet(todo')
  BY Split DEF FlushFail, QueueTypes, NoneTwice
<1>2. /\ failing["flusher"] = None
      /\ failing'["flusher"] # None /\ failing'["flusher"].frame = r
      /\ \A u \in Threads \ {"flusher"} : failing'[u] = failing[u]
      /\ UNCHANGED <<pc, job, previewQueue, videoBlitQueue, resultQueue, pendingJpeg>>
  BY FailureStarts DEF FlushFail, At, preview, queues, still
<1> QED
  BY <1>1, <1>2, Outside DEF Moved, Place, Failers

LEMMA FlushCollectMoves ==
  ASSUME Types, ControlInv, NothingToCollect, FlushCollect
  PROVE  Dropped(None) /\ todo' = todo
<1> USE DEF Types, ControlTypes, PcType, JobType, FailingType, Threads
<1>1. inFlightPreview = {}
  BY DEF FlushCollect, At, NothingToCollect, Collecting
<1>2. todo' = todo
  <2>1. todo \o << >> = todo
    BY DEF QueueTypes
  <2> QED
    BY <1>1, <2>1, NoneToSequence DEF FlushCollect
<1>3. /\ pc' = [pc EXCEPT !["flusher"] = "results"]
      /\ UNCHANGED <<job, failing, previewQueue, videoBlitQueue, resultQueue, pendingJpeg>>
  BY DEF FlushCollect, Goto, queues, still
<1>4. Dropped(None)
  BY <1>2, <1>3 DEF Dropped, Place, Failers
<1> QED
  BY <1>2, <1>4

(* flush() takes whole queues: to says where the frames of a place go.       *)
LEMMA FlushDrainJpegMoves ==
  ASSUME Types, ControlInv, TodoOK, FlushDrainJpeg
  PROVE  /\ Taken("todo", "queued") /\ Taken("drained", "pending") /\ Left({"todo", "drained", "queued", "pending"})
         /\ todo' = previewQueue /\ previewQueue' = << >>
<1> USE DEF Types, ControlTypes, PcType, JobType, FailingType, Threads
<1>1. /\ job["flusher"] = None /\ todo = << >>
      /\ job' = [job EXCEPT !["flusher"] = pendingJpeg] /\ pc' = [pc EXCEPT !["flusher"] = "lock"]
      /\ todo' = previewQueue /\ previewQueue' = << >> /\ pendingJpeg' = None
      /\ UNCHANGED <<failing, videoBlitQueue, resultQueue>>
  BY DEF FlushDrainJpeg, At, GotoWith, Goto, queues, ControlInv, FlusherOK, FlushWork, TodoOK
<1>2. ToSet(todo) = {} /\ ToSet(previewQueue') = {} /\ ToSet(todo') = ToSet(previewQueue)
  BY <1>1, EmptySequence
<1> QED
  BY <1>1, <1>2, Outside DEF Taken, Left, Place, Failers

LEMMA FlushResultsMoves ==
  ASSUME Types, ControlInv, FlushResults
  PROVE  /\ Taken("todo", "completed") /\ Left({"todo", "completed"})
         /\ todo' = todo \o resultQueue /\ resultQueue' = << >>
<1> USE DEF Types, ControlTypes, PcType, JobType, FailingType, Threads
<1>1. /\ pc' = [pc EXCEPT !["flusher"] = "resultIdle"]
      /\ todo' = todo \o resultQueue /\ resultQueue' = << >>
      /\ UNCHANGED <<job, failing, previewQueue, videoBlitQueue, pendingJpeg>>
  BY DEF FlushResults, Goto, still, preview
<1>2. ToSet(todo') = ToSet(todo) \cup ToSet(resultQueue) /\ ToSet(resultQueue') = {}
  BY <1>1, EmptySequence, Joined DEF QueueTypes
<1> QED
  BY <1>1, <1>2 DEF Taken, Left, Place, Failers

LEMMA FlushResultIdleMoves ==
  ASSUME Types, ControlInv, FlushResultIdle
  PROVE  /\ Taken("todo", "drained") /\ Left({"todo", "drained"})
         /\ todo' = IF job["flusher"] = None THEN todo ELSE Append(todo, job["flusher"])
<1> USE DEF Types, ControlTypes, PcType, JobType, FailingType, Threads
<1>1. /\ pc' = [pc EXCEPT !["flusher"] = "fail"] /\ job' = [job EXCEPT !["flusher"] = None]
      /\ todo' = IF job["flusher"] = None THEN todo ELSE Append(todo, job["flusher"])
      /\ UNCHANGED <<failing, previewQueue, videoBlitQueue, resultQueue, pendingJpeg>>
  BY DEF FlushResultIdle, GotoWith, Goto, still, preview, queues
<1>2. ToSet(todo') = ToSet(todo) \cup (IF job["flusher"] = None THEN {} ELSE {job["flusher"]})
  BY <1>1, Appended DEF QueueTypes
<1> QED
  BY <1>1, <1>2, Outside DEF Taken, Left, Place, Failers

(* One place each: what that rules out.                                     *)
LEMMA Apart ==
  ASSUME OnePlace, NEW r \in Requests
  PROVE  /\ Place("asked", r) => r \notin ToSet(previewQueue)
         /\ job["capture"] = r => /\ r \notin ToSet(previewQueue) /\ r \notin ToSet(videoBlitQueue)
                                 /\ r \notin ToSet(resultQueue) /\ job["blit"] # r
         /\ job["blit"] = r => r \notin ToSet(videoBlitQueue) /\ r \notin ToSet(resultQueue)
         /\ r \in ToSet(todo) => r \notin ToSet(resultQueue) /\ job["flusher"] # r
<1>1. \A p, q \in Stages : Place(p, r) /\ Place(q, r) => p = q
  BY DEF OnePlace, Places
<1>2. /\ r \in ToSet(previewQueue) => Place("queued", r)
      /\ job["capture"] = r => Place("dequeued", r)
      /\ r \in ToSet(videoBlitQueue) => Place("recording", r)
      /\ job["blit"] = r => Place("recorded", r)
      /\ r \in ToSet(resultQueue) => Place("completed", r)
      /\ job["flusher"] = r => Place("drained", r)
      /\ r \in ToSet(todo) => Place("todo", r)
  BY DEF Place
<1>3. {"asked", "queued", "dequeued", "recording", "recorded", "completed", "drained", "todo"}
        \subseteq Stages
  BY DEF Stages
<1> QED
  BY <1>1, <1>2, <1>3

LEMMA InFlightOKKept ==
  ASSUME Types, ControlInv, OnePlace, InFlightOK, NothingToCollect, SessionStep
  PROVE  InFlightOK'
<1> USE DEF Types, ControlTypes, PcType, JobType, FailingType, Threads, ControlInv,
   FrameworkOK, CaptureOK, BlitOK, ResultOK, PictureOK, FlusherOK, WorkerOK, InFlightOK,
   SlotTypes
<1>1. CASE \/ RejectRawRequest \/ UpdateBackendParameters \/ PopTask
           \/ StartPreviewCheck \/ StartPreview \/ TakePictureFence \/ TakePicture
           \/ PictureStart \/ FinishWorker \/ RestartAfterFailure \/ NextNativeFrame
           \/ DrainPreview \/ SourceFence \/ BlitRequeue \/ PictureThread
           \/ PictureTaken \/ DataCallback \/ HandleJpegCheck \/ SendJpeg
           \/ RestartCheck \/ RestartPreview \/ Flush \/ Close \/ CloseJoin
           \/ CloseFlush \/ FlushLock \/ CancelPicture \/ PictureCancelled
           \/ FlushStopPreview \/ FlushResults \/ FlushFail \/ FlushEnd \/ CloseEnd
           \/ Stutter
  <2>1. UNCHANGED <<job, inFlightPreview, videoBlitQueue>>
    BY <1>1
       DEF RejectRawRequest, control, preview, queues, UpdateBackendParameters, PopTask,
          StartPreviewCheck, StartPreview, TakePictureFence, TakePicture, PictureStart,
          PreviewStopped, FinishWorker, RestartAfterFailure, NextNativeFrame,
          DrainPreview, SourceFence, BlitRequeue, PictureThread, PictureTaken,
          DataCallback, HandleJpegCheck, SendJpeg, RestartCheck, RestartPreview, Flush,
          BeginFlush, Close, CloseJoin, CloseFlush, FlushLock, CancelPicture,
          PictureCancelled, FlushStopPreview, FlushResults, FlushFail, FlushEnd,
          CloseEnd, Stutter, vars
  <2> QED
    BY <2>1
<1>2. CASE AcceptRequest
  BY <1>2, Outside DEF AcceptRequest, GotoWith, preview, queues
<1>3. CASE Reserve
  BY <1>3, Outside DEF Reserve, GotoWith, preview, queues
<1>4. CASE Enqueue
  BY <1>4, Outside DEF Enqueue, GotoWith, NeedsOrderedPreviewCapture, queues
<1>5. CASE PostRequest
  BY <1>5, Outside DEF PostRequest, GotoWith, NeedsOrderedPreviewCapture, preview, queues
<1>6. CASE TakePictureCheck
  BY <1>6, Outside DEF TakePictureCheck, GotoWith, preview, queues
<1>7. CASE TakePictureFinished
  BY <1>7, Outside DEF TakePictureFinished, GotoWith, preview, queues
<1>8. CASE TakePictureClear
  BY <1>8, Outside DEF TakePictureClear, GotoWith, preview, queues
<1>9. CASE DequeuePreview
  <2>1. Head(previewQueue) \in Requests
    BY <1>9, Split DEF DequeuePreview, QueueTypes
  <2> QED
    BY <1>9, <2>1, Outside DEF DequeuePreview, At, GotoWith, Goto, queues
<1>10. CASE SourceFenceTimeout
  <2>1. job["capture"] \in Requests /\ pc["capture"] = "fence"
    BY <1>10, JobsAreRequests DEF SourceFenceTimeout, At, ControlTypes
  <2> QED
    BY <1>10, <2>1, Apart, Outside DEF SourceFenceTimeout, GotoWith, Goto, queues
<1>11. CASE DequeueRecheck
  <2>1. job["capture"] \in Requests /\ pc["capture"] = "recheck"
    BY <1>11, JobsAreRequests DEF DequeueRecheck, At, ControlTypes
  <2>2. CASE UNCHANGED <<job, inFlightPreview>>
    BY <1>11, <2>2 DEF DequeueRecheck, queues
  <2>3. CASE /\ job' = [job EXCEPT !["capture"] = None]
             /\ inFlightPreview' = inFlightPreview \ {job["capture"]}
    BY <1>11, <2>1, <2>3, Apart, Outside DEF DequeueRecheck, queues
  <2> QED
    BY <1>11, <2>2, <2>3 DEF DequeueRecheck, GotoWith, preview
<1>12. CASE CopyPreview
  <2>1. job["capture"] \in Requests /\ pc["capture"] = "copy"
    BY <1>12, JobsAreRequests DEF CopyPreview, At, ControlTypes
  <2>2. job' = [job EXCEPT !["capture"] = None]
    BY <1>12 DEF CopyPreview, GotoWith
  <2>3. CASE videoBlitQueue' = Append(videoBlitQueue, job["capture"]) /\ UNCHANGED inFlightPreview
    <3>1. ToSet(videoBlitQueue') = ToSet(videoBlitQueue) \cup {job["capture"]}
      BY <2>1, <2>3, Appended DEF QueueTypes
    <3> QED
      BY <2>1, <2>2, <2>3, <3>1, Outside
  <2>4. CASE inFlightPreview' = inFlightPreview \ {job["capture"]} /\ UNCHANGED videoBlitQueue
    BY <2>1, <2>2, <2>4, Apart, Outside
  <2> QED
    BY <1>12, <2>3, <2>4 DEF CopyPreview, Complete
<1>13. CASE BlitPop
  <2>1. /\ Head(videoBlitQueue) \in Requests
        /\ ToSet(videoBlitQueue) = {Head(videoBlitQueue)} \cup ToSet(Tail(videoBlitQueue))
    BY <1>13, Split DEF BlitPop, QueueTypes
  <2> QED
    BY <1>13, <2>1, Outside DEF BlitPop, At, GotoWith, Goto, preview
<1>14. CASE BlitComplete
  <2>1. job["blit"] \in Requests /\ pc["blit"] = "blit"
    BY <1>14, JobsAreRequests DEF BlitComplete, At, ControlTypes
  <2>2. /\ job' = [job EXCEPT !["blit"] = None]
        /\ inFlightPreview' = inFlightPreview \ {job["blit"]} /\ UNCHANGED videoBlitQueue
    BY <1>14 DEF BlitComplete, GotoWith, Complete
  <2> QED
    BY <2>1, <2>2, Apart, Outside
<1>15. CASE ResultPop
  BY <1>15, Outside DEF ResultPop, GotoWith, preview
<1>16. CASE Deliver
  BY <1>16, Outside DEF Deliver, GotoWith, preview, queues
<1>17. CASE ScheduleJpeg
  BY <1>17, Outside DEF ScheduleJpeg, GotoWith, preview, queues
<1>18. CASE PostTakePicture
  BY <1>18, Outside DEF PostTakePicture, GotoWith, preview, queues
<1>19. CASE HandleJpeg
  BY <1>19, Outside DEF HandleJpeg, GotoWith, preview, queues
<1>20. CASE FinishCallback
  BY <1>20, Outside DEF FinishCallback, GotoWith, preview, queues
<1>21. CASE FlushDrainJpeg
  BY <1>21, Outside DEF FlushDrainJpeg, GotoWith, queues
<1>22. CASE FlushCollect
  <2>1. inFlightPreview = {}
    BY <1>22 DEF FlushCollect, At, NothingToCollect, Collecting
  <2> QED
    BY <1>22, <2>1 DEF FlushCollect, queues
<1>23. CASE FlushResultIdle
  BY <1>23, Outside DEF FlushResultIdle, GotoWith, preview, queues
<1>24. ASSUME NEW t \in Threads, FailLook(t) PROVE InFlightOK'
  BY <1>24, Outside DEF FailLook, preview, queues
<1>25. ASSUME NEW t \in Threads, FailReturn(t) PROVE InFlightOK'
  BY <1>25, Outside DEF FailReturn, preview, queues
<1>26. ASSUME NEW t \in Threads, FailStill(t) PROVE InFlightOK'
  BY <1>26, Outside DEF FailStill, preview, queues
<1> QED
  BY <1>1, <1>2, <1>3, <1>4, <1>5, <1>6, <1>7, <1>8, <1>9, <1>10, <1>11, <1>12, <1>13,
     <1>14, <1>15, <1>16, <1>17, <1>18, <1>19, <1>20, <1>21, <1>22, <1>23, <1>24, <1>25,
     <1>26
     DEF SessionStep

LEMMA NoneTwiceKept ==
  ASSUME Types, ControlInv, OnePlace, NoneTwice, NothingToCollect, SessionStep
  PROVE  NoneTwice'
<1> USE DEF Types, QueueTypes, NoneTwice
<1>1. CASE \/ RejectRawRequest \/ AcceptRequest \/ UpdateBackendParameters \/ Reserve
           \/ PostRequest \/ PopTask \/ StartPreviewCheck \/ StartPreview
           \/ TakePictureCheck \/ TakePictureFence \/ TakePicture \/ PictureStart
           \/ FinishWorker \/ TakePictureFinished \/ TakePictureClear
           \/ RestartAfterFailure \/ NextNativeFrame \/ DrainPreview \/ SourceFence
           \/ SourceFenceTimeout \/ BlitRequeue \/ Deliver \/ ScheduleJpeg
           \/ PostTakePicture \/ PictureThread \/ PictureTaken \/ DataCallback
           \/ HandleJpeg \/ HandleJpegCheck \/ SendJpeg \/ RestartCheck
           \/ RestartPreview \/ FinishCallback \/ Flush \/ Close \/ CloseJoin
           \/ CloseFlush \/ FlushLock \/ CancelPicture \/ PictureCancelled
           \/ FlushStopPreview \/ FlushEnd \/ CloseEnd \/ Stutter
  <2>1. UNCHANGED <<previewQueue, resultQueue, videoBlitQueue, todo>>
    BY <1>1
       DEF RejectRawRequest, flusher, preview, queues, AcceptRequest,
          UpdateBackendParameters, Reserve, PostRequest, NeedsOrderedPreviewCapture,
          PopTask, StartPreviewCheck, StartPreview, TakePictureCheck, TakePictureFence,
          TakePicture, PictureStart, PreviewStopped, FinishWorker, TakePictureFinished,
          TakePictureClear, RestartAfterFailure, NextNativeFrame, DrainPreview,
          SourceFence, SourceFenceTimeout, BlitRequeue, Deliver, ScheduleJpeg,
          PostTakePicture, PictureThread, PictureTaken, DataCallback, HandleJpeg,
          HandleJpegCheck, SendJpeg, RestartCheck, RestartPreview, FinishCallback,
          Flush, BeginFlush, Close, CloseJoin, CloseFlush, FlushLock, CancelPicture,
          PictureCancelled, FlushStopPreview, FlushEnd, CloseEnd, Stutter, vars
  <2> QED
    BY <2>1
<1>2. CASE Enqueue
  <2>1. /\ job["framework"] \in Requests /\ Place("asked", job["framework"])
    BY <1>2, JobsAreRequests DEF Enqueue, At, ControlTypes, Place
  <2>2. NoRepeats(Append(previewQueue, job["framework"]))
    BY <2>1, Apart, Appended
  <2>3. /\ previewQueue' \in {previewQueue, Append(previewQueue, job["framework"])}
        /\ UNCHANGED <<videoBlitQueue, resultQueue, todo>>
    BY <1>2 DEF Enqueue, queues, flusher
  <2> QED
    BY <2>2, <2>3
<1>3. CASE DequeuePreview
  BY <1>3, Split DEF DequeuePreview, queues, flusher
<1>4. CASE DequeueRecheck
  <2>1. job["capture"] \in Requests
    BY <1>4, JobsAreRequests DEF DequeueRecheck, At, ControlTypes
  <2>2. NoRepeats(<<job["capture"]>> \o previewQueue)
    BY <2>1, Apart, PutFirst
  <2>3. /\ previewQueue' \in {previewQueue, <<job["capture"]>> \o previewQueue}
        /\ UNCHANGED <<videoBlitQueue, resultQueue, todo>>
    BY <1>4 DEF DequeueRecheck, preview, queues, flusher
  <2> QED
    BY <2>2, <2>3
<1>5. CASE CopyPreview
  <2>1. job["capture"] \in Requests
    BY <1>5, JobsAreRequests DEF CopyPreview, At, ControlTypes
  <2>2. /\ NoRepeats(Append(videoBlitQueue, job["capture"]))
        /\ NoRepeats(Append(resultQueue, job["capture"]))
    BY <2>1, Apart, Appended
  <2>3. /\ videoBlitQueue' \in {videoBlitQueue, Append(videoBlitQueue, job["capture"])}
        /\ resultQueue' \in {resultQueue, Append(resultQueue, job["capture"])}
        /\ UNCHANGED <<previewQueue, todo>>
    BY <1>5 DEF CopyPreview, Complete, flusher
  <2> QED
    BY <2>2, <2>3
<1>6. CASE BlitPop
  BY <1>6, Split DEF BlitPop, preview, flusher
<1>7. CASE BlitComplete
  <2>1. job["blit"] \in Requests
    BY <1>7, JobsAreRequests DEF BlitComplete, At, ControlTypes
  <2>2. NoRepeats(Append(resultQueue, job["blit"]))
    BY <2>1, Apart, Appended
  <2>3. /\ resultQueue' \in {resultQueue, Append(resultQueue, job["blit"])}
        /\ UNCHANGED <<previewQueue, videoBlitQueue, todo>>
    BY <1>7 DEF BlitComplete, Complete, flusher
  <2> QED
    BY <2>2, <2>3
<1>8. CASE ResultPop
  BY <1>8, Split DEF ResultPop, preview, flusher
<1>9. CASE FlushDrainJpeg
  BY <1>9, EmptySequence DEF FlushDrainJpeg, queues
<1>10. CASE FlushCollect
  BY <1>10, FlushCollectMoves DEF FlushCollect, queues
<1>11. CASE FlushResults
  <2>1. \A x \in ToSet(todo) : x \in Requests
    BY LenProperties, ElementOfSeq DEF ToSet
  <2>2. NoRepeats(todo \o resultQueue)
    BY <2>1, Apart, Joined
  <2> QED
    BY <1>11, <2>2, EmptySequence DEF FlushResults, preview
<1>12. CASE FlushResultIdle
  <2>1. CASE todo' = todo
    BY <1>12, <2>1 DEF FlushResultIdle, preview, queues
  <2>2. CASE job["flusher"] # None /\ todo' = Append(todo, job["flusher"])
    <3>1. job["flusher"] \in Requests
      BY <2>2 DEF ControlTypes, JobType, Threads
    <3>2. NoRepeats(Append(todo, job["flusher"]))
      BY <3>1, Apart, Appended
    <3> QED
      BY <1>12, <2>2, <3>2 DEF FlushResultIdle, preview, queues
  <2> QED
    BY <1>12, <2>1, <2>2 DEF FlushResultIdle
<1>13. CASE FlushFail
  BY <1>13, Split DEF FlushFail, preview, queues
<1>14. ASSUME NEW t \in Threads, FailLook(t) PROVE NoneTwice'
  BY <1>14 DEF FailLook, flusher, preview, queues
<1>15. ASSUME NEW t \in Threads, FailReturn(t) PROVE NoneTwice'
  BY <1>15 DEF FailReturn, flusher, preview, queues
<1>16. ASSUME NEW t \in Threads, FailStill(t) PROVE NoneTwice'
  BY <1>16 DEF FailStill, flusher, preview, queues
<1> QED
  BY <1>1, <1>2, <1>3, <1>4, <1>5, <1>6, <1>7, <1>8, <1>9, <1>10, <1>11, <1>12, <1>13,
     <1>14, <1>15, <1>16
     DEF SessionStep

LEMMA TodoOKKept ==
  ASSUME Types, ControlInv, TodoOK, SessionStep
  PROVE  TodoOK'
<1> USE DEF Types, ControlTypes, PcType, JobType, FailingType, Threads, QueueTypes,
   ControlInv, FlusherOK, FlushWork, TodoOK
<1>1. CASE \/ RejectRawRequest \/ Stutter
  <2>1. UNCHANGED <<pc, todo>>
    BY <1>1 DEF RejectRawRequest, At, control, flusher, Stutter, vars
  <2> QED
    BY <2>1
<1>2. CASE AcceptRequest
  BY <1>2 DEF AcceptRequest, At, GotoWith, flusher, Goto
<1>3. CASE UpdateBackendParameters
  BY <1>3 DEF UpdateBackendParameters, At, Goto, flusher
<1>4. CASE Reserve
  BY <1>4 DEF Reserve, At, Goto, GotoWith, flusher
<1>5. CASE Enqueue
  BY <1>5 DEF Enqueue, At, Goto, GotoWith, NeedsOrderedPreviewCapture, flusher
<1>6. CASE PostRequest
  BY <1>6 DEF PostRequest, At, GotoWith, NeedsOrderedPreviewCapture, flusher, Goto
<1>7. CASE PopTask
  <2>1. pc' \in {[pc EXCEPT !["worker"] = w] : w \in {"exited", "idle", "start", "take"}}
    BY <1>7, TaskHeads DEF PopTask, Goto
  <2> QED
    BY <1>7, <2>1, Outside
       DEF PopTask, At, flusher
<1>8. CASE StartPreviewCheck
  BY <1>8 DEF StartPreviewCheck, At, Goto, flusher
<1>9. CASE StartPreview
  <2>1. CASE pc' = [pc EXCEPT !["worker"] = "idle"] /\ UNCHANGED <<preview_enabled, node0>>
    BY <1>9, <2>1, Outside
       DEF StartPreview, At, flusher
  <2>2. CASE pc' = [pc EXCEPT !["worker"] = "idle", !["capture"] = "loop"]
             /\ preview_enabled' = TRUE /\ node0' = "preview" /\ ~preview_enabled
    BY <1>9, <2>2, Outside
       DEF StartPreview, At, flusher
  <2> QED
    BY <1>9, <2>1, <2>2 DEF StartPreview, Goto
<1>10. CASE TakePictureCheck
  BY <1>10 DEF TakePictureCheck, At, GotoWith, flusher, Goto
<1>11. CASE TakePictureFence
  BY <1>11 DEF TakePictureFence, At, Goto, flusher
<1>12. CASE TakePicture
  BY <1>12 DEF TakePicture, At, Goto, flusher
<1>13. CASE PictureStart
  BY <1>13 DEF PictureStart, At, Goto, PreviewStopped, flusher
<1>14. CASE FinishWorker
  BY <1>14 DEF FinishWorker, At, Goto, flusher
<1>15. CASE TakePictureFinished
  BY <1>15 DEF TakePictureFinished, At, Goto, GotoWith, flusher
<1>16. CASE TakePictureClear
  BY <1>16 DEF TakePictureClear, At, GotoWith, flusher, Goto
<1>17. CASE RestartAfterFailure
  BY <1>17 DEF RestartAfterFailure, At, Goto, flusher
<1>18. CASE NextNativeFrame
  BY <1>18 DEF NextNativeFrame, At, Goto, flusher
<1>19. CASE DrainPreview
  BY <1>19 DEF DrainPreview, At, Goto, flusher
<1>20. CASE DequeuePreview
  BY <1>20 DEF DequeuePreview, At, GotoWith, flusher, Goto
<1>21. CASE SourceFence
  BY <1>21 DEF SourceFence, At, Goto, flusher
<1>22. CASE SourceFenceTimeout
  BY <1>22 DEF SourceFenceTimeout, At, GotoWith, flusher, Goto
<1>23. CASE DequeueRecheck
  BY <1>23 DEF DequeueRecheck, At, Goto, GotoWith, flusher
<1>24. CASE CopyPreview
  BY <1>24 DEF CopyPreview, At, GotoWith, VideoBlitRoom, flusher, Goto
<1>25. CASE BlitPop
  BY <1>25 DEF BlitPop, At, GotoWith, flusher, Goto
<1>26. CASE BlitComplete
  BY <1>26 DEF BlitComplete, At, GotoWith, flusher, Goto
<1>27. CASE BlitRequeue
  BY <1>27 DEF BlitRequeue, At, Goto, flusher
<1>28. CASE ResultPop
  BY <1>28 DEF ResultPop, At, GotoWith, flusher, Goto
<1>29. CASE Deliver
  BY <1>29 DEF Deliver, At, Goto, GotoWith, flusher
<1>30. CASE ScheduleJpeg
  BY <1>30 DEF ScheduleJpeg, At, Goto, GotoWith, flusher
<1>31. CASE PostTakePicture
  BY <1>31 DEF PostTakePicture, At, GotoWith, flusher, Goto
<1>32. CASE PictureThread
  BY <1>32 DEF PictureThread, At, Goto, flusher
<1>33. CASE PictureTaken
  BY <1>33 DEF PictureTaken, At, Goto, flusher
<1>34. CASE DataCallback
  BY <1>34 DEF DataCallback, At, Goto, flusher
<1>35. CASE HandleJpeg
  BY <1>35 DEF HandleJpeg, At, GotoWith, flusher, Goto
<1>36. CASE HandleJpegCheck
  BY <1>36 DEF HandleJpegCheck, At, Goto, flusher
<1>37. CASE SendJpeg
  BY <1>37 DEF SendJpeg, At, Goto, flusher
<1>38. CASE RestartCheck
  BY <1>38 DEF RestartCheck, At, Goto, flusher
<1>39. CASE RestartPreview
  BY <1>39 DEF RestartPreview, At, Goto, flusher
<1>40. CASE FinishCallback
  BY <1>40 DEF FinishCallback, At, GotoWith, flusher, Goto
<1>41. CASE Flush
  BY <1>41 DEF Flush, At, BeginFlush, Goto
<1>42. CASE Close
  BY <1>42 DEF Close, At, Goto
<1>43. CASE CloseJoin
  BY <1>43 DEF CloseJoin, At, Goto, flusher
<1>44. CASE CloseFlush
  BY <1>44 DEF CloseFlush, At, BeginFlush, Goto
<1>45. CASE FlushDrainJpeg
  BY <1>45 DEF FlushDrainJpeg, At, GotoWith, Goto
<1>46. CASE FlushLock
  BY <1>46 DEF FlushLock, At, Goto, flusher
<1>47. CASE CancelPicture
  BY <1>47 DEF CancelPicture, At, flusher
<1>48. CASE PictureCancelled
  BY <1>48 DEF PictureCancelled, At, Goto, flusher
<1>49. CASE FlushStopPreview
  BY <1>49 DEF FlushStopPreview, At, Goto, PreviewStopped, flusher
<1>50. CASE FlushCollect
  BY <1>50 DEF FlushCollect, At, Goto
<1>51. CASE FlushResults
  BY <1>51 DEF FlushResults, At, Goto
<1>52. CASE FlushResultIdle
  BY <1>52 DEF FlushResultIdle, At, GotoWith, Goto
<1>53. CASE FlushFail
  BY <1>53 DEF FlushFail, At
<1>54. CASE FlushEnd
  BY <1>54 DEF FlushEnd, At, Goto
<1>55. CASE CloseEnd
  BY <1>55 DEF CloseEnd, At, flusher
<1>56. ASSUME NEW t \in Threads, FailLook(t) PROVE TodoOK'
  BY <1>56 DEF FailLook, flusher
<1>57. ASSUME NEW t \in Threads, FailReturn(t) PROVE TodoOK'
  BY <1>57 DEF FailReturn, flusher
<1>58. ASSUME NEW t \in Threads, FailStill(t) PROVE TodoOK'
  BY <1>58 DEF FailStill, flusher
<1> QED
  BY <1>1, <1>2, <1>3, <1>4, <1>5, <1>6, <1>7, <1>8, <1>9, <1>10, <1>11, <1>12, <1>13,
     <1>14, <1>15, <1>16, <1>17, <1>18, <1>19, <1>20, <1>21, <1>22, <1>23, <1>24, <1>25,
     <1>26, <1>27, <1>28, <1>29, <1>30, <1>31, <1>32, <1>33, <1>34, <1>35, <1>36, <1>37,
     <1>38, <1>39, <1>40, <1>41, <1>42, <1>43, <1>44, <1>45, <1>46, <1>47, <1>48, <1>49,
     <1>50, <1>51, <1>52, <1>53, <1>54, <1>55, <1>56, <1>57, <1>58
     DEF SessionStep

LEMMA NothingToCollectKept ==
  ASSUME Types, ControlInv, CallsInv, InFlightOK, NothingToCollect, SessionStep
  PROVE  NothingToCollect'
<1> USE DEF Types, ControlTypes, PcType, JobType, FailingType, Threads, Collecting,
   ControlInv, CaptureOK, BlitOK, FlusherOK, FlushWork, CallsInv, InFlightOK,
   NothingToCollect, SlotTypes
<1>1. CASE \/ RejectRawRequest \/ FlushFail \/ Stutter
  <2>1. UNCHANGED <<pc, inFlightPreview>>
    BY <1>1 DEF RejectRawRequest, At, control, preview, FlushFail, Stutter, vars
  <2> QED
    BY <2>1
<1>2. CASE AcceptRequest
  BY <1>2, Outside DEF AcceptRequest, At, GotoWith, preview, Goto
<1>3. CASE UpdateBackendParameters
  BY <1>3, Outside DEF UpdateBackendParameters, At, Goto, preview
<1>4. CASE Reserve
  BY <1>4, Outside DEF Reserve, At, Goto, GotoWith, preview
<1>5. CASE Enqueue
  BY <1>5, Outside DEF Enqueue, At, Goto, GotoWith, NeedsOrderedPreviewCapture
<1>6. CASE PostRequest
  BY <1>6, Outside
     DEF PostRequest, At, GotoWith, NeedsOrderedPreviewCapture, preview, Goto
<1>7. CASE PopTask
  <2>1. pc' \in {[pc EXCEPT !["worker"] = w] : w \in {"exited", "idle", "start", "take"}}
    BY <1>7, TaskHeads DEF PopTask, Goto
  <2> QED
    BY <1>7, <2>1, Outside
       DEF PopTask, At, flusher, preview
<1>8. CASE StartPreviewCheck
  BY <1>8, Outside DEF StartPreviewCheck, At, Goto, preview
<1>9. CASE StartPreview
  <2>1. CASE pc' = [pc EXCEPT !["worker"] = "idle"] /\ UNCHANGED <<preview_enabled, node0>>
    BY <1>9, <2>1, Outside
       DEF StartPreview, At, flusher, preview
  <2>2. CASE pc' = [pc EXCEPT !["worker"] = "idle", !["capture"] = "loop"]
             /\ preview_enabled' = TRUE /\ node0' = "preview" /\ ~preview_enabled
    BY <1>9, <2>2, Outside
       DEF StartPreview, At, flusher, preview
  <2> QED
    BY <1>9, <2>1, <2>2 DEF StartPreview, Goto
<1>10. CASE TakePictureCheck
  BY <1>10, Outside DEF TakePictureCheck, At, GotoWith, preview, Goto
<1>11. CASE TakePictureFence
  BY <1>11, Outside DEF TakePictureFence, At, Goto, preview
<1>12. CASE TakePicture
  BY <1>12, Outside DEF TakePicture, At, Goto, preview
<1>13. CASE PictureStart
  BY <1>13, Outside DEF PictureStart, At, Goto, PreviewStopped, preview
<1>14. CASE FinishWorker
  BY <1>14, Outside DEF FinishWorker, At, Goto, preview
<1>15. CASE TakePictureFinished
  BY <1>15, Outside DEF TakePictureFinished, At, Goto, GotoWith, preview
<1>16. CASE TakePictureClear
  BY <1>16, Outside DEF TakePictureClear, At, GotoWith, preview, Goto
<1>17. CASE RestartAfterFailure
  BY <1>17, Outside DEF RestartAfterFailure, At, Goto, preview
<1>18. CASE NextNativeFrame
  BY <1>18, Outside DEF NextNativeFrame, At, Goto, preview
<1>19. CASE DrainPreview
  BY <1>19, Outside DEF DrainPreview, At, Goto, preview
<1>20. CASE DequeuePreview
  <2>1. ~flushing /\ pc' = [pc EXCEPT !["capture"] = "fence"]
    BY <1>20 DEF DequeuePreview, InTransition, GotoWith, Goto
  <2>2. pc["flusher"] \notin Collecting /\ pc'["flusher"] = pc["flusher"]
    BY <2>1
  <2> QED
    BY <2>2
<1>21. CASE SourceFence
  BY <1>21, Outside DEF SourceFence, At, Goto, preview
<1>22. CASE SourceFenceTimeout
  BY <1>22, Outside DEF SourceFenceTimeout, At, GotoWith, Goto
<1>23. CASE DequeueRecheck
  BY <1>23, Outside DEF DequeueRecheck, At, Goto, GotoWith, preview
<1>24. CASE CopyPreview
  BY <1>24, Outside DEF CopyPreview, At, Complete, GotoWith, VideoBlitRoom, Goto
<1>25. CASE BlitPop
  BY <1>25, Outside DEF BlitPop, At, GotoWith, preview, Goto
<1>26. CASE BlitComplete
  BY <1>26, Outside DEF BlitComplete, At, Complete, GotoWith, Goto
<1>27. CASE BlitRequeue
  BY <1>27, Outside DEF BlitRequeue, At, Goto, preview
<1>28. CASE ResultPop
  BY <1>28, Outside DEF ResultPop, At, GotoWith, preview, Goto
<1>29. CASE Deliver
  BY <1>29, Outside DEF Deliver, At, Goto, GotoWith, preview
<1>30. CASE ScheduleJpeg
  BY <1>30, Outside DEF ScheduleJpeg, At, Goto, GotoWith, preview
<1>31. CASE PostTakePicture
  BY <1>31, Outside DEF PostTakePicture, At, GotoWith, preview, Goto
<1>32. CASE PictureThread
  BY <1>32, Outside DEF PictureThread, At, Goto, preview
<1>33. CASE PictureTaken
  BY <1>33, Outside DEF PictureTaken, At, Goto, preview
<1>34. CASE DataCallback
  BY <1>34, Outside DEF DataCallback, At, Goto, preview
<1>35. CASE HandleJpeg
  BY <1>35, Outside DEF HandleJpeg, At, GotoWith, preview, Goto
<1>36. CASE HandleJpegCheck
  BY <1>36, Outside DEF HandleJpegCheck, At, Goto, preview
<1>37. CASE SendJpeg
  BY <1>37, Outside DEF SendJpeg, At, Goto, preview
<1>38. CASE RestartCheck
  BY <1>38, Outside DEF RestartCheck, At, Goto, preview
<1>39. CASE RestartPreview
  BY <1>39, Outside DEF RestartPreview, At, Goto, preview
<1>40. CASE FinishCallback
  BY <1>40, Outside DEF FinishCallback, At, GotoWith, preview, Goto
<1>41. CASE Flush
  BY <1>41, Outside DEF Flush, At, BeginFlush, Goto, preview
<1>42. CASE Close
  BY <1>42, Outside DEF Close, At, Goto, preview
<1>43. CASE CloseJoin
  BY <1>43, Outside DEF CloseJoin, At, Goto, preview
<1>44. CASE CloseFlush
  BY <1>44, Outside DEF CloseFlush, At, BeginFlush, Goto, preview
<1>45. CASE FlushDrainJpeg
  BY <1>45, Outside DEF FlushDrainJpeg, At, GotoWith, Goto
<1>46. CASE FlushLock
  BY <1>46, Outside DEF FlushLock, At, Goto, preview
<1>47. CASE CancelPicture
  BY <1>47, Outside DEF CancelPicture, At, preview
<1>48. CASE PictureCancelled
  BY <1>48, Outside DEF PictureCancelled, At, Goto, preview
<1>49. CASE FlushStopPreview
  <2>1. /\ job["capture"] = None /\ job["blit"] = None /\ ToSet(videoBlitQueue) = {}
    BY <1>49, EmptySequence DEF FlushStopPreview, PreviewStopped, At
  <2>2. inFlightPreview = {}
    BY <2>1, Outside
  <2> QED
    BY <1>49, <2>2 DEF FlushStopPreview, preview
<1>50. CASE FlushCollect
  BY <1>50, Outside DEF FlushCollect, At, Goto
<1>51. CASE FlushResults
  BY <1>51, Outside DEF FlushResults, At, Goto, preview
<1>52. CASE FlushResultIdle
  BY <1>52, Outside DEF FlushResultIdle, At, GotoWith, preview, Goto
<1>53. CASE FlushEnd
  BY <1>53, Outside DEF FlushEnd, At, Goto, preview
<1>54. CASE CloseEnd
  BY <1>54, Outside DEF CloseEnd, At, preview
<1>55. ASSUME NEW t \in Threads, FailLook(t) PROVE NothingToCollect'
  BY <1>55, Outside DEF FailLook, preview
<1>56. ASSUME NEW t \in Threads, FailReturn(t) PROVE NothingToCollect'
  BY <1>56, Outside DEF FailReturn, preview
<1>57. ASSUME NEW t \in Threads, FailStill(t) PROVE NothingToCollect'
  BY <1>57, Outside DEF FailStill, preview
<1> QED
  BY <1>1, <1>2, <1>3, <1>4, <1>5, <1>6, <1>7, <1>8, <1>9, <1>10, <1>11, <1>12, <1>13,
     <1>14, <1>15, <1>16, <1>17, <1>18, <1>19, <1>20, <1>21, <1>22, <1>23, <1>24, <1>25,
     <1>26, <1>27, <1>28, <1>29, <1>30, <1>31, <1>32, <1>33, <1>34, <1>35, <1>36, <1>37,
     <1>38, <1>39, <1>40, <1>41, <1>42, <1>43, <1>44, <1>45, <1>46, <1>47, <1>48, <1>49,
     <1>50, <1>51, <1>52, <1>53, <1>54, <1>55, <1>56, <1>57
     DEF SessionStep

LEMMA OwnedShrinks ==
  ASSUME Types, ControlInv, SessionStep
  PROVE  OwnedShrink
<1> USE DEF Types, OwnedType, FrameTypes, SessionTypes, OwnedShrink
<1>1. CASE \/ UpdateBackendParameters \/ Reserve \/ Enqueue \/ PostRequest \/ PopTask
           \/ StartPreviewCheck \/ StartPreview \/ TakePictureCheck \/ TakePictureFence
           \/ TakePicture \/ PictureStart \/ FinishWorker \/ TakePictureFinished
           \/ TakePictureClear \/ RestartAfterFailure \/ NextNativeFrame \/ DrainPreview
           \/ DequeuePreview \/ SourceFence \/ SourceFenceTimeout \/ DequeueRecheck
           \/ CopyPreview \/ BlitPop \/ BlitComplete \/ BlitRequeue \/ ResultPop
           \/ ScheduleJpeg \/ PostTakePicture \/ PictureThread \/ PictureTaken
           \/ DataCallback \/ HandleJpeg \/ HandleJpegCheck \/ RestartCheck
           \/ RestartPreview \/ FinishCallback \/ Flush \/ Close \/ CloseJoin
           \/ CloseFlush \/ FlushDrainJpeg \/ FlushLock \/ CancelPicture
           \/ PictureCancelled \/ FlushStopPreview \/ FlushCollect \/ FlushResults
           \/ FlushResultIdle \/ FlushFail \/ FlushEnd \/ CloseEnd \/ Stutter
  <2>1. UNCHANGED <<owned, next>>
    BY <1>1
       DEF UpdateBackendParameters, frame, Reserve, Enqueue, NeedsOrderedPreviewCapture,
          PostRequest, PopTask, StartPreviewCheck, StartPreview, TakePictureCheck,
          TakePictureFence, TakePicture, PictureStart, FinishWorker,
          TakePictureFinished, TakePictureClear, RestartAfterFailure, NextNativeFrame,
          DrainPreview, DequeuePreview, SourceFence, SourceFenceTimeout, DequeueRecheck,
          CopyPreview, BlitPop, BlitComplete, BlitRequeue, ResultPop, ScheduleJpeg,
          PostTakePicture, PictureThread, PictureTaken, DataCallback, HandleJpeg,
          HandleJpegCheck, RestartCheck, RestartPreview, FinishCallback, Flush,
          BeginFlush, Close, CloseJoin, CloseFlush, FlushDrainJpeg, FlushLock,
          CancelPicture, PictureCancelled, FlushStopPreview, FlushCollect, FlushResults,
          FlushResultIdle, FlushFail, FlushEnd, CloseEnd, Stutter, vars
  <2> QED
    BY <2>1
<1>2. CASE RejectRawRequest
  BY <1>2, Asking DEF RejectRawRequest
<1>3. CASE AcceptRequest
  BY <1>3, Asking DEF AcceptRequest
<1>4. CASE Deliver
  BY <1>4, Asking DEF Deliver, Reset
<1>5. CASE SendJpeg
  BY <1>5, Asking DEF SendJpeg, Reset
<1>6. ASSUME NEW t \in Threads, FailLook(t) PROVE OwnedShrink
  BY <1>6, Asking DEF FailLook
<1>7. ASSUME NEW t \in Threads, FailReturn(t) PROVE OwnedShrink
  BY <1>7, Asking DEF FailReturn, Reset
<1>8. ASSUME NEW t \in Threads, FailStill(t) PROVE OwnedShrink
  BY <1>8, Asking DEF FailStill, frame
<1> QED
  BY <1>1, <1>2, <1>3, <1>4, <1>5, <1>6, <1>7, <1>8 DEF SessionStep

LEMMA OwnedAskedKept ==
  ASSUME Types, ControlInv, OwnedAsked, SessionStep
  PROVE  OwnedAsked'
<1> USE DEF Types, OwnedType, FrameTypes, SessionTypes, OwnedAsked, Outputs
<1>1. CASE \/ UpdateBackendParameters \/ Reserve \/ Enqueue \/ PostRequest \/ PopTask
           \/ StartPreviewCheck \/ StartPreview \/ TakePictureCheck \/ TakePictureFence
           \/ TakePicture \/ PictureStart \/ FinishWorker \/ TakePictureFinished
           \/ TakePictureClear \/ RestartAfterFailure \/ NextNativeFrame \/ DrainPreview
           \/ DequeuePreview \/ SourceFence \/ SourceFenceTimeout \/ DequeueRecheck
           \/ CopyPreview \/ BlitPop \/ BlitComplete \/ BlitRequeue \/ ResultPop
           \/ ScheduleJpeg \/ PostTakePicture \/ PictureThread \/ PictureTaken
           \/ DataCallback \/ HandleJpeg \/ HandleJpegCheck \/ RestartCheck
           \/ RestartPreview \/ FinishCallback \/ Flush \/ Close \/ CloseJoin
           \/ CloseFlush \/ FlushDrainJpeg \/ FlushLock \/ CancelPicture
           \/ PictureCancelled \/ FlushStopPreview \/ FlushCollect \/ FlushResults
           \/ FlushResultIdle \/ FlushFail \/ FlushEnd \/ CloseEnd \/ Stutter
  <2>1. UNCHANGED <<scenario, owned, next>>
    BY <1>1
       DEF UpdateBackendParameters, frame, Reserve, Enqueue, NeedsOrderedPreviewCapture,
          HasSource, PostRequest, PopTask, StartPreviewCheck, StartPreview, Faults,
          TakePictureCheck, TakePictureFence, TakePicture, PictureStart, FinishWorker,
          TakePictureFinished, TakePictureClear, RestartAfterFailure, NextNativeFrame,
          DrainPreview, DequeuePreview, SourceFence, SourceFenceTimeout, DequeueRecheck,
          CopyPreview, BlitPop, BlitComplete, BlitRequeue, ResultPop, ScheduleJpeg,
          PostTakePicture, PictureThread, PictureTaken, DataCallback, HandleJpeg,
          HandleJpegCheck, RestartCheck, RestartPreview, FinishCallback, Flush,
          BeginFlush, Close, CloseJoin, CloseFlush, FlushDrainJpeg, FlushLock,
          CancelPicture, PictureCancelled, FlushStopPreview, FlushCollect, FlushResults,
          FlushResultIdle, FlushFail, FlushEnd, CloseEnd, Stutter, vars
  <2> QED
    BY <2>1
<1>2. CASE RejectRawRequest
  BY <1>2, Asking DEF RejectRawRequest
<1>3. CASE AcceptRequest
  BY <1>3, Asking DEF AcceptRequest, Settings
<1>4. CASE Deliver
  BY <1>4, Asking DEF Deliver, Reset
<1>5. CASE SendJpeg
  BY <1>5, Asking DEF SendJpeg, Reset
<1>6. ASSUME NEW t \in Threads, FailLook(t) PROVE OwnedAsked'
  BY <1>6, Asking DEF FailLook
<1>7. ASSUME NEW t \in Threads, FailReturn(t) PROVE OwnedAsked'
  BY <1>7, Asking DEF FailReturn, Reset
<1>8. ASSUME NEW t \in Threads, FailStill(t) PROVE OwnedAsked'
  BY <1>8, Asking DEF FailStill, frame
<1> QED
  BY <1>1, <1>2, <1>3, <1>4, <1>5, <1>6, <1>7, <1>8 DEF SessionStep

LEMMA FailuresProgress ==
  ASSUME Types, ControlInv, SessionStep
  PROVE  FailuresGoOn
<1> USE DEF Types, ControlTypes, PcType, JobType, FailingType, Threads, FailureGoesOn,
   FailuresGoOn
<1>1. CASE RejectRawRequest
  BY <1>1 DEF RejectRawRequest, At, control
<1>2. CASE AcceptRequest
  BY <1>2 DEF AcceptRequest, At, GotoWith, Goto
<1>3. CASE UpdateBackendParameters
  BY <1>3 DEF UpdateBackendParameters, At, Goto
<1>4. CASE Reserve
  <2>1. job["framework"] \in Requests
    BY <1>4, JobsAreRequests DEF Reserve, At
  <2>2. UNCHANGED failing \/ StartFailing("framework", job["framework"])
    BY <1>4 DEF Reserve, Complete
  <2>3. pc'["worker"] = pc["worker"] /\ job'["worker"] = job["worker"]
    BY <1>4 DEF Reserve, Goto, GotoWith
  <2> QED
    BY <2>1, <2>2, <2>3, FailureStarts
<1>5. CASE Enqueue
  <2>1. job["framework"] \in Requests
    BY <1>5, JobsAreRequests DEF Enqueue, At
  <2>2. UNCHANGED failing \/ StartFailing("framework", job["framework"])
    BY <1>5 DEF Enqueue, Complete
  <2>3. pc'["worker"] = pc["worker"] /\ job'["worker"] = job["worker"]
    BY <1>5 DEF Enqueue, Goto, GotoWith
  <2> QED
    BY <2>1, <2>2, <2>3, FailureStarts
<1>6. CASE PostRequest
  BY <1>6 DEF PostRequest, At, GotoWith, NeedsOrderedPreviewCapture, Goto
<1>7. CASE PopTask
  <2>1. UNCHANGED <<job, failing>> /\ pc'["worker"] # "clearStill"
    BY <1>7, TaskHeads DEF PopTask, Goto
  <2> QED
    BY <2>1
<1>8. CASE StartPreviewCheck
  BY <1>8 DEF StartPreviewCheck, At, Goto
<1>9. CASE StartPreview
  <2>1. UNCHANGED <<job, failing>> /\ pc'["worker"] = "idle"
    BY <1>9 DEF StartPreview, Goto
  <2> QED
    BY <2>1
<1>10. CASE TakePictureCheck
  BY <1>10 DEF TakePictureCheck, At, GotoWith, Goto
<1>11. CASE TakePictureFence
  BY <1>11 DEF TakePictureFence, At, Goto
<1>12. CASE TakePicture
  BY <1>12 DEF TakePicture, At, Goto
<1>13. CASE PictureStart
  BY <1>13 DEF PictureStart, At, Goto, PreviewStopped
<1>14. CASE FinishWorker
  BY <1>14 DEF FinishWorker, At, Goto
<1>15. CASE TakePictureFinished
  <2>1. job["worker"] \in Requests
    BY <1>15, JobsAreRequests DEF TakePictureFinished, At
  <2>2. CASE StartFailing("worker", job["worker"])
    BY <2>1, <2>2, FailureStarts
  <2>3. CASE UNCHANGED failing /\ pc' = [pc EXCEPT !["worker"] = "idle"]
    BY <2>3
  <2> QED
    BY <1>15, <2>2, <2>3 DEF TakePictureFinished, GotoWith, Goto
<1>16. CASE TakePictureClear
  BY <1>16 DEF TakePictureClear, At, GotoWith, Goto
<1>17. CASE RestartAfterFailure
  BY <1>17 DEF RestartAfterFailure, At, Goto
<1>18. CASE NextNativeFrame
  BY <1>18 DEF NextNativeFrame, At, Goto
<1>19. CASE DrainPreview
  BY <1>19 DEF DrainPreview, At, Goto
<1>20. CASE DequeuePreview
  BY <1>20 DEF DequeuePreview, At, GotoWith, Goto
<1>21. CASE SourceFence
  BY <1>21 DEF SourceFence, At, Goto
<1>22. CASE SourceFenceTimeout
  <2>1. job["capture"] \in Requests
    BY <1>22, JobsAreRequests DEF SourceFenceTimeout, At
  <2>2. UNCHANGED failing \/ StartFailing("capture", job["capture"])
    BY <1>22 DEF SourceFenceTimeout, Complete
  <2>3. pc'["worker"] = pc["worker"] /\ job'["worker"] = job["worker"]
    BY <1>22 DEF SourceFenceTimeout, Goto, GotoWith
  <2> QED
    BY <2>1, <2>2, <2>3, FailureStarts
<1>23. CASE DequeueRecheck
  BY <1>23 DEF DequeueRecheck, At, Goto, GotoWith
<1>24. CASE CopyPreview
  <2>1. job["capture"] \in Requests
    BY <1>24, JobsAreRequests DEF CopyPreview, At
  <2>2. UNCHANGED failing \/ StartFailing("capture", job["capture"])
    BY <1>24 DEF CopyPreview, Complete
  <2>3. pc'["worker"] = pc["worker"] /\ job'["worker"] = job["worker"]
    BY <1>24 DEF CopyPreview, Goto, GotoWith
  <2> QED
    BY <2>1, <2>2, <2>3, FailureStarts
<1>25. CASE BlitPop
  BY <1>25 DEF BlitPop, At, GotoWith, Goto
<1>26. CASE BlitComplete
  <2>1. job["blit"] \in Requests
    BY <1>26, JobsAreRequests DEF BlitComplete, At
  <2>2. UNCHANGED failing \/ StartFailing("blit", job["blit"])
    BY <1>26 DEF BlitComplete, Complete
  <2>3. pc'["worker"] = pc["worker"] /\ job'["worker"] = job["worker"]
    BY <1>26 DEF BlitComplete, Goto, GotoWith
  <2> QED
    BY <2>1, <2>2, <2>3, FailureStarts
<1>27. CASE BlitRequeue
  BY <1>27 DEF BlitRequeue, At, Goto
<1>28. CASE ResultPop
  BY <1>28 DEF ResultPop, At, GotoWith, Goto
<1>29. CASE Deliver
  BY <1>29 DEF Deliver, At, Goto, GotoWith
<1>30. CASE ScheduleJpeg
  <2>1. job["result"] \in Requests
    BY <1>30, JobsAreRequests DEF ScheduleJpeg, At
  <2>2. UNCHANGED failing \/ StartFailing("result", job["result"])
    BY <1>30 DEF ScheduleJpeg, Complete
  <2>3. pc'["worker"] = pc["worker"] /\ job'["worker"] = job["worker"]
    BY <1>30 DEF ScheduleJpeg, Goto, GotoWith
  <2> QED
    BY <2>1, <2>2, <2>3, FailureStarts
<1>31. CASE PostTakePicture
  BY <1>31 DEF PostTakePicture, At, GotoWith, Goto
<1>32. CASE PictureThread
  BY <1>32 DEF PictureThread, At, Goto
<1>33. CASE PictureTaken
  BY <1>33 DEF PictureTaken, At, Goto
<1>34. CASE DataCallback
  BY <1>34 DEF DataCallback, At, Goto
<1>35. CASE HandleJpeg
  BY <1>35 DEF HandleJpeg, At, GotoWith, Goto
<1>36. CASE HandleJpegCheck
  <2>1. UNCHANGED failing \/ (job["picture"] # None /\ StartFailing("picture", job["picture"]))
    BY <1>36 DEF HandleJpegCheck
  <2>2. job["picture"] # None => job["picture"] \in Requests
    BY JobsAreRequests
  <2>3. pc'["worker"] = pc["worker"] /\ job'["worker"] = job["worker"]
    BY <1>36 DEF HandleJpegCheck, Goto
  <2> QED
    BY <2>1, <2>2, <2>3, FailureStarts
<1>37. CASE SendJpeg
  <2>1. job["picture"] \in Requests
    BY <1>37, JobsAreRequests DEF SendJpeg, At
  <2>2. UNCHANGED failing \/ StartFailing("picture", job["picture"])
    BY <1>37 DEF SendJpeg, Complete
  <2>3. pc'["worker"] = pc["worker"] /\ job'["worker"] = job["worker"]
    BY <1>37 DEF SendJpeg, Goto, GotoWith
  <2> QED
    BY <2>1, <2>2, <2>3, FailureStarts
<1>38. CASE RestartCheck
  BY <1>38 DEF RestartCheck, At, Goto
<1>39. CASE RestartPreview
  BY <1>39 DEF RestartPreview, At, Goto
<1>40. CASE FinishCallback
  BY <1>40 DEF FinishCallback, At, GotoWith, Goto
<1>41. CASE Flush
  BY <1>41 DEF Flush, At, BeginFlush, Goto
<1>42. CASE Close
  BY <1>42 DEF Close, At, Goto
<1>43. CASE CloseJoin
  BY <1>43 DEF CloseJoin, At, Goto
<1>44. CASE CloseFlush
  BY <1>44 DEF CloseFlush, At, BeginFlush, Goto
<1>45. CASE FlushDrainJpeg
  BY <1>45 DEF FlushDrainJpeg, At, GotoWith, Goto
<1>46. CASE FlushLock
  BY <1>46 DEF FlushLock, At, Goto
<1>47. CASE CancelPicture
  BY <1>47 DEF CancelPicture, At
<1>48. CASE PictureCancelled
  BY <1>48 DEF PictureCancelled, At, Goto
<1>49. CASE FlushStopPreview
  BY <1>49 DEF FlushStopPreview, At, Goto, PreviewStopped
<1>50. CASE FlushCollect
  BY <1>50 DEF FlushCollect, At, Goto
<1>51. CASE FlushResults
  BY <1>51 DEF FlushResults, At, Goto
<1>52. CASE FlushResultIdle
  BY <1>52 DEF FlushResultIdle, At, GotoWith, Goto
<1>53. CASE FlushFail
  <2>1. Head(todo) \in Requests /\ StartFailing("flusher", Head(todo)) /\ UNCHANGED <<pc, job>>
    BY <1>53, Split DEF FlushFail, QueueTypes
  <2> QED
    BY <2>1, FailureStarts
<1>54. CASE FlushEnd
  BY <1>54 DEF FlushEnd, At, Goto
<1>55. CASE CloseEnd
  BY <1>55 DEF CloseEnd, At
<1>56. ASSUME NEW t \in Threads, FailLook(t) PROVE FailuresGoOn
  <2>1. UNCHANGED <<pc, job>> /\ \A u \in Threads \ {t} : failing'[u] = failing[u]
    BY <1>56 DEF FailLook
  <2> QED
    BY <1>56, <2>1
<1>57. ASSUME NEW t \in Threads, FailReturn(t) PROVE FailuresGoOn
  <2>1. UNCHANGED <<pc, job>> /\ \A u \in Threads \ {t} : failing'[u] = failing[u]
    BY <1>57 DEF FailReturn
  <2> QED
    BY <1>57, <2>1
<1>58. ASSUME NEW t \in Threads, FailStill(t) PROVE FailuresGoOn
  <2>1. UNCHANGED <<pc, job>> /\ \A u \in Threads \ {t} : failing'[u] = failing[u]
    BY <1>58 DEF FailStill
  <2> QED
    BY <1>58, <2>1
<1>59. CASE Stutter
  BY <1>59 DEF Stutter, vars, control
<1> QED
  BY <1>1, <1>2, <1>3, <1>4, <1>5, <1>6, <1>7, <1>8, <1>9, <1>10, <1>11, <1>12, <1>13,
     <1>14, <1>15, <1>16, <1>17, <1>18, <1>19, <1>20, <1>21, <1>22, <1>23, <1>24, <1>25,
     <1>26, <1>27, <1>28, <1>29, <1>30, <1>31, <1>32, <1>33, <1>34, <1>35, <1>36, <1>37,
     <1>38, <1>39, <1>40, <1>41, <1>42, <1>43, <1>44, <1>45, <1>46, <1>47, <1>48, <1>49,
     <1>50, <1>51, <1>52, <1>53, <1>54, <1>55, <1>56, <1>57, <1>58, <1>59
     DEF SessionStep

LEMMA AcceptedPlaces ==
  ASSUME Types, ControlInv, PlacedAreAccepted, WorkerAccepted
  PROVE  /\ pendingJpeg # None => pendingJpeg < next
         /\ \A r \in Requests : JpegTurn(r) => r < next
         /\ pc["framework"] \in {"reserve", "enqueue"} => job["framework"] < next
         /\ pc["result"] = "deliver" => job["result"] < next
         /\ \A t \in Threads : failing[t] # None => failing[t].frame \in Requests /\ failing[t].frame < next
<1> USE DEF Types, ControlTypes, JobType, FailingType, SlotTypes, Threads
<1>1. \A r \in Requests, p \in Stages : Place(p, r) => r < next
  BY DEF PlacedAreAccepted, Places
<1>2. {"asked", "pending", "drained", "pictured", "delivered"} \subseteq Stages
  BY DEF Stages
<1>3. \A r \in Requests :
        /\ pendingJpeg = r => Place("pending", r)
        /\ job["flusher"] = r => Place("drained", r)
        /\ job["picture"] = r /\ pc["picture"] \in {"check", "send"} => Place("pictured", r)
        /\ job["result"] = r /\ pc["result"] \in {"deliver", "schedule"} => Place("delivered", r)
        /\ job["framework"] = r /\ pc["framework"] \in {"reserve", "enqueue"} => Place("asked", r)
  BY DEF Place
<1>4. pendingJpeg # None => pendingJpeg < next
  BY <1>1, <1>2, <1>3
<1>5. \A r \in Requests : JpegTurn(r) => r < next
  BY <1>1, <1>2, <1>3 DEF JpegTurn
<1>6. /\ pc["framework"] \in {"reserve", "enqueue"} => job["framework"] < next
      /\ pc["result"] = "deliver" => job["result"] < next
  BY <1>1, <1>2, <1>3, JobsAreRequests
<1>7. ASSUME NEW t \in Threads, failing[t] # None
      PROVE  failing[t].frame \in Requests /\ failing[t].frame < next
  <2>1. failing[t].frame \in Requests
    BY <1>7 DEF Failures
  <2>2. CASE t = "worker"
    BY <1>7, <2>1, <2>2, Outside DEF ControlInv, WorkerOK, WorkerAccepted
  <2>3. CASE t # "worker"
    <3>1. Place(t, failing[t].frame) /\ t \in Places
      BY <1>7, <2>3 DEF Place, Places, Failers
    <3> QED
      BY <2>1, <3>1 DEF PlacedAreAccepted
  <2> QED
    BY <2>1, <2>2, <2>3
<1> QED
  BY <1>4, <1>5, <1>6, <1>7

LEMMA WorkerAcceptedKept ==
  ASSUME Types, ControlInv, PlacedAreAccepted, WorkerAccepted, SessionStep
  PROVE  WorkerAccepted'
<1> USE DEF Types, ControlTypes, JobType, Threads, SessionTypes, WorkerAccepted
<1>1. CASE \/ UpdateBackendParameters \/ PopTask \/ StartPreviewCheck \/ StartPreview
           \/ TakePictureFence \/ TakePicture \/ PictureStart \/ FinishWorker
           \/ RestartAfterFailure \/ NextNativeFrame \/ DrainPreview \/ SourceFence
           \/ BlitRequeue \/ PictureThread \/ PictureTaken \/ DataCallback
           \/ HandleJpegCheck \/ SendJpeg \/ RestartCheck \/ RestartPreview \/ Flush
           \/ Close \/ CloseJoin \/ CloseFlush \/ FlushLock \/ CancelPicture
           \/ PictureCancelled \/ FlushStopPreview \/ FlushCollect \/ FlushResults
           \/ FlushFail \/ FlushEnd \/ CloseEnd \/ Stutter
  <2>1. UNCHANGED <<job, next>>
    BY <1>1
       DEF UpdateBackendParameters, PopTask, StartPreviewCheck, StartPreview,
          TakePictureFence, TakePicture, PictureStart, FinishWorker,
          RestartAfterFailure, NextNativeFrame, DrainPreview, SourceFence, BlitRequeue,
          PictureThread, PictureTaken, DataCallback, HandleJpegCheck, SendJpeg,
          RestartCheck, RestartPreview, Flush, BeginFlush, Close, CloseJoin, CloseFlush,
          FlushLock, CancelPicture, PictureCancelled, FlushStopPreview, FlushCollect,
          FlushResults, FlushFail, FlushEnd, CloseEnd, Stutter, vars, control
  <2> QED
    BY <2>1
<1>2. CASE RejectRawRequest
  BY <1>2, Asking DEF RejectRawRequest, control, Requests
<1>3. CASE AcceptRequest
  BY <1>3, Asking DEF AcceptRequest, GotoWith, Requests
<1>4. CASE Reserve
  BY <1>4, Asking DEF Reserve, GotoWith
<1>5. CASE Enqueue
  BY <1>5, Asking DEF Enqueue, GotoWith, NeedsOrderedPreviewCapture
<1>6. CASE PostRequest
  BY <1>6, Asking DEF PostRequest, GotoWith, NeedsOrderedPreviewCapture
<1>7. CASE TakePictureCheck
  BY <1>7, Asking, AcceptedPlaces DEF TakePictureCheck, GotoWith
<1>8. CASE TakePictureFinished
  BY <1>8, Asking DEF TakePictureFinished, GotoWith
<1>9. CASE TakePictureClear
  BY <1>9, Asking DEF TakePictureClear, GotoWith
<1>10. CASE DequeuePreview
  BY <1>10, Asking DEF DequeuePreview, GotoWith
<1>11. CASE SourceFenceTimeout
  BY <1>11, Asking DEF SourceFenceTimeout, GotoWith
<1>12. CASE DequeueRecheck
  BY <1>12, Asking DEF DequeueRecheck, GotoWith
<1>13. CASE CopyPreview
  BY <1>13, Asking DEF CopyPreview, GotoWith
<1>14. CASE BlitPop
  BY <1>14, Asking DEF BlitPop, GotoWith
<1>15. CASE BlitComplete
  BY <1>15, Asking DEF BlitComplete, GotoWith
<1>16. CASE ResultPop
  BY <1>16, Asking DEF ResultPop, GotoWith
<1>17. CASE Deliver
  BY <1>17, Asking DEF Deliver, GotoWith
<1>18. CASE ScheduleJpeg
  BY <1>18, Asking DEF ScheduleJpeg, GotoWith
<1>19. CASE PostTakePicture
  BY <1>19, Asking DEF PostTakePicture, GotoWith
<1>20. CASE HandleJpeg
  BY <1>20, Asking DEF HandleJpeg, GotoWith
<1>21. CASE FinishCallback
  BY <1>21, Asking DEF FinishCallback, GotoWith
<1>22. CASE FlushDrainJpeg
  BY <1>22, Asking DEF FlushDrainJpeg, GotoWith
<1>23. CASE FlushResultIdle
  BY <1>23, Asking DEF FlushResultIdle, GotoWith
<1>24. ASSUME NEW t \in Threads, FailLook(t) PROVE WorkerAccepted'
  BY <1>24, Asking DEF FailLook
<1>25. ASSUME NEW t \in Threads, FailReturn(t) PROVE WorkerAccepted'
  BY <1>25, Asking DEF FailReturn
<1>26. ASSUME NEW t \in Threads, FailStill(t) PROVE WorkerAccepted'
  BY <1>26, Asking DEF FailStill
<1> QED
  BY <1>1, <1>2, <1>3, <1>4, <1>5, <1>6, <1>7, <1>8, <1>9, <1>10, <1>11, <1>12, <1>13,
     <1>14, <1>15, <1>16, <1>17, <1>18, <1>19, <1>20, <1>21, <1>22, <1>23, <1>24, <1>25,
     <1>26
     DEF SessionStep

LEMMA JpegTurnsTaken ==
  ASSUME Types, ControlInv, PlacedAreAccepted, WorkerAccepted, OwnedAsked, SessionStep
  PROVE  JpegTurns
<1> USE DEF Types, ControlTypes, PcType, JobType, Threads, JpegTurn, JpegTurns,
   FrameTypes, OwnedType, SlotTypes
<1>1. CASE \/ RejectRawRequest \/ FlushFail \/ Stutter
  <2>1. UNCHANGED <<pc, job, pendingJpeg, owned>>
    BY <1>1 DEF RejectRawRequest, At, control, still, FlushFail, frame, Stutter, vars
  <2> QED
    BY <2>1
<1>2. CASE AcceptRequest
  BY <1>2, Outside DEF AcceptRequest, At, GotoWith, still, Goto
<1>3. CASE UpdateBackendParameters
  BY <1>3, Outside DEF UpdateBackendParameters, At, Goto, frame, still
<1>4. CASE Reserve
  BY <1>4, Outside DEF Reserve, At, Goto, GotoWith, frame
<1>5. CASE Enqueue
  <2>1. job["framework"] \in Requests /\ job["framework"] < next
    BY <1>5, JobsAreRequests, AcceptedPlaces DEF Enqueue, At
  <2>2. /\ UNCHANGED owned /\ pc'["picture"] = pc["picture"] /\ pc'["result"] = pc["result"]
        /\ \A u \in Threads \ {"framework"} : job'[u] = job[u]
    BY <1>5 DEF Enqueue, Goto, GotoWith
  <2>3. CASE UNCHANGED pendingJpeg
    BY <2>2, <2>3
  <2>4. CASE ~NeedsOrderedPreviewCapture(job["framework"]) /\ pendingJpeg' = job["framework"]
    <3>1. owned[job["framework"]] \subseteq {"jpeg"}
      BY <2>1, <2>4 DEF NeedsOrderedPreviewCapture, OwnedAsked
    <3> QED
      BY <2>1, <2>2, <2>4, <3>1
  <2> QED
    BY <1>5, <2>3, <2>4 DEF Enqueue
<1>6. CASE PostRequest
  BY <1>6, Outside
     DEF PostRequest, At, GotoWith, NeedsOrderedPreviewCapture, frame, still, Goto
<1>7. CASE PopTask
  <2>1. pc' \in {[pc EXCEPT !["worker"] = w] : w \in {"exited", "idle", "start", "take"}}
    BY <1>7, TaskHeads DEF PopTask, Goto
  <2> QED
    BY <1>7, <2>1, Outside
       DEF PopTask, At, still, frame
<1>8. CASE StartPreviewCheck
  BY <1>8, Outside DEF StartPreviewCheck, At, Goto, frame
<1>9. CASE StartPreview
  <2>1. CASE pc' = [pc EXCEPT !["worker"] = "idle"] /\ UNCHANGED <<preview_enabled, node0>>
    BY <1>9, <2>1, Outside
       DEF StartPreview, At, still, frame
  <2>2. CASE pc' = [pc EXCEPT !["worker"] = "idle", !["capture"] = "loop"]
             /\ preview_enabled' = TRUE /\ node0' = "preview" /\ ~preview_enabled
    BY <1>9, <2>2, Outside
       DEF StartPreview, At, still, frame
  <2> QED
    BY <1>9, <2>1, <2>2 DEF StartPreview, Goto
<1>10. CASE TakePictureCheck
  BY <1>10, Outside DEF TakePictureCheck, At, GotoWith, frame, Goto
<1>11. CASE TakePictureFence
  BY <1>11, Outside DEF TakePictureFence, At, Goto, frame, still
<1>12. CASE TakePicture
  BY <1>12, Outside DEF TakePicture, At, Goto, frame, still
<1>13. CASE PictureStart
  BY <1>13, Outside DEF PictureStart, At, Goto, PreviewStopped, frame, still
<1>14. CASE FinishWorker
  BY <1>14, Outside DEF FinishWorker, At, Goto, frame, still
<1>15. CASE TakePictureFinished
  BY <1>15, Outside DEF TakePictureFinished, At, Goto, GotoWith, frame, still
<1>16. CASE TakePictureClear
  BY <1>16, Outside DEF TakePictureClear, At, GotoWith, frame, Goto
<1>17. CASE RestartAfterFailure
  BY <1>17, Outside DEF RestartAfterFailure, At, Goto, frame, still
<1>18. CASE NextNativeFrame
  BY <1>18, Outside DEF NextNativeFrame, At, Goto, frame, still
<1>19. CASE DrainPreview
  BY <1>19, Outside DEF DrainPreview, At, Goto, frame, still
<1>20. CASE DequeuePreview
  BY <1>20, Outside DEF DequeuePreview, At, GotoWith, frame, still, Goto
<1>21. CASE SourceFence
  BY <1>21, Outside DEF SourceFence, At, Goto, frame, still
<1>22. CASE SourceFenceTimeout
  BY <1>22, Outside DEF SourceFenceTimeout, At, GotoWith, frame, Goto
<1>23. CASE DequeueRecheck
  BY <1>23, Outside DEF DequeueRecheck, At, Goto, GotoWith, frame, still
<1>24. CASE CopyPreview
  BY <1>24, Outside DEF CopyPreview, At, GotoWith, VideoBlitRoom, frame, still, Goto
<1>25. CASE BlitPop
  BY <1>25, Outside DEF BlitPop, At, GotoWith, frame, still, Goto
<1>26. CASE BlitComplete
  BY <1>26, Outside DEF BlitComplete, At, GotoWith, frame, still, Goto
<1>27. CASE BlitRequeue
  BY <1>27, Outside DEF BlitRequeue, At, Goto, frame, still
<1>28. CASE ResultPop
  BY <1>28, Outside DEF ResultPop, At, GotoWith, frame, still, Goto
<1>29. CASE Deliver
  <2>1. job["result"] \in Requests
    BY <1>29, JobsAreRequests DEF Deliver, At
  <2>2. /\ \A u \in Threads \ {"result"} : job'[u] = job[u] /\ pc'[u] = pc[u]
        /\ UNCHANGED pendingJpeg /\ job'["result"] \in {None, job["result"]}
    BY <1>29 DEF Deliver, Goto, GotoWith, still
  <2>3. owned'[job["result"]] \subseteq {"jpeg"}
    BY <1>29, <2>1 DEF Deliver, Reset
  <2> QED
    BY <2>1, <2>2, <2>3, Outside
<1>30. CASE ScheduleJpeg
  BY <1>30, Outside DEF ScheduleJpeg, At, Goto, GotoWith, frame
<1>31. CASE PostTakePicture
  BY <1>31, Outside DEF PostTakePicture, At, GotoWith, frame, still, Goto
<1>32. CASE PictureThread
  BY <1>32, Outside DEF PictureThread, At, Goto, frame, still
<1>33. CASE PictureTaken
  BY <1>33, Outside DEF PictureTaken, At, Goto, frame, still
<1>34. CASE DataCallback
  BY <1>34, Outside DEF DataCallback, At, Goto, frame, still
<1>35. CASE HandleJpeg
  BY <1>35, Outside DEF HandleJpeg, At, GotoWith, frame, Goto
<1>36. CASE HandleJpegCheck
  BY <1>36, Outside DEF HandleJpegCheck, At, Goto, frame, still
<1>37. CASE SendJpeg
  BY <1>37, Outside DEF SendJpeg, At, Goto, Reset, still
<1>38. CASE RestartCheck
  BY <1>38, Outside DEF RestartCheck, At, Goto, frame, still
<1>39. CASE RestartPreview
  BY <1>39, Outside DEF RestartPreview, At, Goto, frame, still
<1>40. CASE FinishCallback
  BY <1>40, Outside DEF FinishCallback, At, GotoWith, frame, still, Goto
<1>41. CASE Flush
  BY <1>41, Outside DEF Flush, At, BeginFlush, Goto, frame
<1>42. CASE Close
  BY <1>42, Outside DEF Close, At, Goto, frame
<1>43. CASE CloseJoin
  BY <1>43, Outside DEF CloseJoin, At, Goto, frame, still
<1>44. CASE CloseFlush
  BY <1>44, Outside DEF CloseFlush, At, BeginFlush, Goto, frame
<1>45. CASE FlushDrainJpeg
  BY <1>45, Outside DEF FlushDrainJpeg, At, GotoWith, frame, Goto
<1>46. CASE FlushLock
  BY <1>46, Outside DEF FlushLock, At, Goto, frame, still
<1>47. CASE CancelPicture
  BY <1>47, Outside DEF CancelPicture, At, frame, still
<1>48. CASE PictureCancelled
  BY <1>48, Outside DEF PictureCancelled, At, Goto, frame, still
<1>49. CASE FlushStopPreview
  BY <1>49, Outside DEF FlushStopPreview, At, Goto, PreviewStopped, frame, still
<1>50. CASE FlushCollect
  BY <1>50, Outside DEF FlushCollect, At, Goto, frame, still
<1>51. CASE FlushResults
  BY <1>51, Outside DEF FlushResults, At, Goto, frame, still
<1>52. CASE FlushResultIdle
  BY <1>52, Outside DEF FlushResultIdle, At, GotoWith, frame, still, Goto
<1>53. CASE FlushEnd
  BY <1>53, Outside DEF FlushEnd, At, Goto, frame
<1>54. CASE CloseEnd
  BY <1>54, Outside DEF CloseEnd, At, frame, still
<1>55. ASSUME NEW t \in Threads, FailLook(t) PROVE JpegTurns
  BY <1>55, Outside DEF FailLook, still
<1>56. ASSUME NEW t \in Threads, FailReturn(t) PROVE JpegTurns
  BY <1>56, Outside DEF FailReturn, Reset, still
<1>57. ASSUME NEW t \in Threads, FailStill(t) PROVE JpegTurns
  BY <1>57, Outside DEF FailStill, frame
<1> QED
  BY <1>1, <1>2, <1>3, <1>4, <1>5, <1>6, <1>7, <1>8, <1>9, <1>10, <1>11, <1>12, <1>13,
     <1>14, <1>15, <1>16, <1>17, <1>18, <1>19, <1>20, <1>21, <1>22, <1>23, <1>24, <1>25,
     <1>26, <1>27, <1>28, <1>29, <1>30, <1>31, <1>32, <1>33, <1>34, <1>35, <1>36, <1>37,
     <1>38, <1>39, <1>40, <1>41, <1>42, <1>43, <1>44, <1>45, <1>46, <1>47, <1>48, <1>49,
     <1>50, <1>51, <1>52, <1>53, <1>54, <1>55, <1>56, <1>57
     DEF SessionStep

LEMMA JpegOnlyKept ==
  ASSUME Types, ControlInv, PlacedAreAccepted, WorkerAccepted, OwnedAsked, JpegOnly, SessionStep
  PROVE  JpegOnly'
<1> SUFFICES ASSUME NEW r \in Requests, JpegTurn(r)'
             PROVE  owned'[r] \subseteq {"jpeg"}
  BY DEF JpegOnly
<1>1. JpegTurn(r) \/ owned'[r] \subseteq {"jpeg"}
  BY JpegTurnsTaken DEF JpegTurns
<1>2. CASE JpegTurn(r)
  <2>1. owned[r] \subseteq {"jpeg"} /\ r < next
    BY <1>2, AcceptedPlaces DEF JpegOnly
  <2>2. owned'[r] \subseteq owned[r]
    BY <2>1, OwnedShrinks DEF OwnedShrink
  <2> QED
    BY <2>1, <2>2
<1> QED
  BY <1>1, <1>2

LEMMA ScheduledStillKept ==
  ASSUME Types, ControlInv, PlacedAreAccepted, WorkerAccepted, OwnedAsked,
     ScheduledStill, SessionStep
  PROVE  ScheduledStill'
<1> USE DEF Types, ControlTypes, PcType, JobType, Threads, Outputs, SessionTypes,
   ScheduledStill
<1>1. CASE \/ RejectRawRequest \/ FlushFail \/ Stutter
  <2>1. UNCHANGED <<scenario, pc, job>>
    BY <1>1 DEF RejectRawRequest, At, control, FlushFail, Stutter, vars
  <2> QED
    BY <2>1
<1>2. CASE AcceptRequest
  BY <1>2, Outside DEF AcceptRequest, At, GotoWith, Settings, Goto
<1>3. CASE UpdateBackendParameters
  BY <1>3, Outside DEF UpdateBackendParameters, At, Goto
<1>4. CASE Reserve
  BY <1>4, Outside DEF Reserve, At, Goto, GotoWith
<1>5. CASE Enqueue
  BY <1>5, Outside DEF Enqueue, At, Goto, GotoWith, NeedsOrderedPreviewCapture, HasSource
<1>6. CASE PostRequest
  BY <1>6, Outside
     DEF PostRequest, At, GotoWith, NeedsOrderedPreviewCapture, Goto, HasSource
<1>7. CASE PopTask
  <2>1. pc' \in {[pc EXCEPT !["worker"] = w] : w \in {"exited", "idle", "start", "take"}}
    BY <1>7, TaskHeads DEF PopTask, Goto
  <2> QED
    BY <1>7, <2>1, Outside
       DEF PopTask, At
<1>8. CASE StartPreviewCheck
  BY <1>8, Outside DEF StartPreviewCheck, At, Goto, HasSource
<1>9. CASE StartPreview
  <2>1. CASE pc' = [pc EXCEPT !["worker"] = "idle"] /\ UNCHANGED <<preview_enabled, node0>>
    BY <1>9, <2>1, Outside
       DEF StartPreview, At
  <2>2. CASE pc' = [pc EXCEPT !["worker"] = "idle", !["capture"] = "loop"]
             /\ preview_enabled' = TRUE /\ node0' = "preview" /\ ~preview_enabled
    BY <1>9, <2>2, Outside
       DEF StartPreview, At
  <2> QED
    BY <1>9, <2>1, <2>2 DEF StartPreview, Goto
<1>10. CASE TakePictureCheck
  BY <1>10, Outside DEF TakePictureCheck, At, GotoWith, Goto
<1>11. CASE TakePictureFence
  BY <1>11, Outside DEF TakePictureFence, At, Faults, Goto
<1>12. CASE TakePicture
  BY <1>12, Outside DEF TakePicture, At, Faults, Goto
<1>13. CASE PictureStart
  BY <1>13, Outside DEF PictureStart, At, Faults, Goto, PreviewStopped
<1>14. CASE FinishWorker
  BY <1>14, Outside DEF FinishWorker, At, Goto
<1>15. CASE TakePictureFinished
  BY <1>15, Outside DEF TakePictureFinished, At, Goto, GotoWith
<1>16. CASE TakePictureClear
  BY <1>16, Outside DEF TakePictureClear, At, GotoWith, Goto
<1>17. CASE RestartAfterFailure
  BY <1>17, Outside DEF RestartAfterFailure, At, Goto
<1>18. CASE NextNativeFrame
  BY <1>18, Outside DEF NextNativeFrame, At, Faults, Goto
<1>19. CASE DrainPreview
  BY <1>19, Outside DEF DrainPreview, At, Goto
<1>20. CASE DequeuePreview
  BY <1>20, Outside DEF DequeuePreview, At, GotoWith, Goto
<1>21. CASE SourceFence
  BY <1>21, Outside DEF SourceFence, At, Goto
<1>22. CASE SourceFenceTimeout
  BY <1>22, Outside DEF SourceFenceTimeout, At, Faults, GotoWith, Goto
<1>23. CASE DequeueRecheck
  BY <1>23, Outside DEF DequeueRecheck, At, Goto, GotoWith
<1>24. CASE CopyPreview
  BY <1>24, Outside DEF CopyPreview, At, Faults, GotoWith, VideoBlitRoom, Goto
<1>25. CASE BlitPop
  BY <1>25, Outside DEF BlitPop, At, GotoWith, Goto
<1>26. CASE BlitComplete
  BY <1>26, Outside DEF BlitComplete, At, GotoWith, Goto
<1>27. CASE BlitRequeue
  BY <1>27, Outside DEF BlitRequeue, At, Goto
<1>28. CASE ResultPop
  BY <1>28, Outside DEF ResultPop, At, GotoWith, Goto
<1>29. CASE Deliver
  <2>1. /\ job["result"] \in Requests /\ job["result"] < next /\ scenario' = scenario
        /\ pc'["result"] = "schedule" => "jpeg" \in owned[job["result"]] /\ job' = job
    BY <1>29, JobsAreRequests, AcceptedPlaces DEF Deliver, At, Goto, GotoWith
  <2> QED
    BY <2>1 DEF OwnedAsked
<1>30. CASE ScheduleJpeg
  BY <1>30, Outside DEF ScheduleJpeg, At, Goto, GotoWith
<1>31. CASE PostTakePicture
  BY <1>31, Outside DEF PostTakePicture, At, GotoWith, Goto
<1>32. CASE PictureThread
  BY <1>32, Outside DEF PictureThread, At, Goto
<1>33. CASE PictureTaken
  BY <1>33, Outside DEF PictureTaken, At, Faults, Goto
<1>34. CASE DataCallback
  BY <1>34, Outside DEF DataCallback, At, Goto
<1>35. CASE HandleJpeg
  BY <1>35, Outside DEF HandleJpeg, At, GotoWith, Goto
<1>36. CASE HandleJpegCheck
  BY <1>36, Outside DEF HandleJpegCheck, At, Goto
<1>37. CASE SendJpeg
  BY <1>37, Outside DEF SendJpeg, At, Goto
<1>38. CASE RestartCheck
  BY <1>38, Outside DEF RestartCheck, At, Goto
<1>39. CASE RestartPreview
  BY <1>39, Outside DEF RestartPreview, At, Goto
<1>40. CASE FinishCallback
  BY <1>40, Outside DEF FinishCallback, At, GotoWith, Goto
<1>41. CASE Flush
  BY <1>41, Outside DEF Flush, At, BeginFlush, Goto
<1>42. CASE Close
  BY <1>42, Outside DEF Close, At, Goto
<1>43. CASE CloseJoin
  BY <1>43, Outside DEF CloseJoin, At, Goto
<1>44. CASE CloseFlush
  BY <1>44, Outside DEF CloseFlush, At, BeginFlush, Goto
<1>45. CASE FlushDrainJpeg
  BY <1>45, Outside DEF FlushDrainJpeg, At, GotoWith, Goto
<1>46. CASE FlushLock
  BY <1>46, Outside DEF FlushLock, At, Goto
<1>47. CASE CancelPicture
  BY <1>47, Outside DEF CancelPicture, At
<1>48. CASE PictureCancelled
  BY <1>48, Outside DEF PictureCancelled, At, Goto
<1>49. CASE FlushStopPreview
  BY <1>49, Outside DEF FlushStopPreview, At, Goto, PreviewStopped
<1>50. CASE FlushCollect
  BY <1>50, Outside DEF FlushCollect, At, Goto
<1>51. CASE FlushResults
  BY <1>51, Outside DEF FlushResults, At, Goto
<1>52. CASE FlushResultIdle
  BY <1>52, Outside DEF FlushResultIdle, At, GotoWith, Goto
<1>53. CASE FlushEnd
  BY <1>53, Outside DEF FlushEnd, At, Goto
<1>54. CASE CloseEnd
  BY <1>54, Outside DEF CloseEnd, At
<1>55. ASSUME NEW t \in Threads, FailLook(t) PROVE ScheduledStill'
  BY <1>55, Outside DEF FailLook
<1>56. ASSUME NEW t \in Threads, FailReturn(t) PROVE ScheduledStill'
  BY <1>56, Outside DEF FailReturn
<1>57. ASSUME NEW t \in Threads, FailStill(t) PROVE ScheduledStill'
  BY <1>57, Outside DEF FailStill
<1> QED
  BY <1>1, <1>2, <1>3, <1>4, <1>5, <1>6, <1>7, <1>8, <1>9, <1>10, <1>11, <1>12, <1>13,
     <1>14, <1>15, <1>16, <1>17, <1>18, <1>19, <1>20, <1>21, <1>22, <1>23, <1>24, <1>25,
     <1>26, <1>27, <1>28, <1>29, <1>30, <1>31, <1>32, <1>33, <1>34, <1>35, <1>36, <1>37,
     <1>38, <1>39, <1>40, <1>41, <1>42, <1>43, <1>44, <1>45, <1>46, <1>47, <1>48, <1>49,
     <1>50, <1>51, <1>52, <1>53, <1>54, <1>55, <1>56, <1>57
     DEF SessionStep

LEMMA FailLooked ==
  ASSUME Types, NEW t \in Threads, FailLook(t)
  PROVE  failing'[t] # None
<1>1. failing[t] \in Failures /\ owned[failing[t].frame] \in SUBSET Kinds
  BY DEF FailLook, Types, ControlTypes, FailingType, Failures, FrameTypes, OwnedType
<1>2. failing'[t] = [failing[t] EXCEPT !.step = "return", !.has = owned[failing[t].frame]]
  BY DEF FailLook, Types, ControlTypes, FailingType
<1>3. failing'[t] = [frame |-> failing[t].frame, step |-> "return", has |-> owned[failing[t].frame]]
  BY <1>1, <1>2 DEF Failures
<1> QED
  BY <1>1, <1>3, Outside DEF Failures

LEMMA FailedEmptyKept ==
  ASSUME Types, ControlInv, PlacedAreAccepted, WorkerAccepted, FailedEmpty, SessionStep
  PROVE  FailedEmpty'
<1> USE DEF Types, ControlTypes, FailingType, JobType
<1>1. \A r \in Requests : r < next => owned'[r] \subseteq owned[r]
  BY OwnedShrinks DEF OwnedShrink
<1>2. ASSUME NEW t \in Threads, failing'[t] # None
      PROVE  /\ failing'[t].step = "return" => owned'[failing'[t].frame] \subseteq failing'[t].has
             /\ failing'[t].step = "still" => owned'[failing'[t].frame] = {}
  <2>1. CASE failing'[t] = failing[t]
    BY <1>1, <1>2, <2>1, AcceptedPlaces DEF FailedEmpty
  <2>2. CASE failing'[t].step = "look"
    BY <2>2
  <2>3. CASE FailLook(t)
    <3>1. failing'[t] = [failing[t] EXCEPT !.step = "return", !.has = owned[failing[t].frame]]
      BY <2>3 DEF FailLook
    <3>2. failing'[t] = [frame |-> failing[t].frame, step |-> "return", has |-> owned[failing[t].frame]]
      <4>1. failing[t] \in Failures
        BY <2>3 DEF FailLook
      <4> QED
        BY <3>1, <4>1 DEF Failures
    <3>3. failing'[t].step = "return" /\ failing'[t].frame = failing[t].frame
          /\ failing'[t].has = owned[failing[t].frame]
      BY <3>2
    <3> QED
      BY <2>3, <3>3 DEF FailLook
  <2>4. CASE FailReturn(t)
    <3>1. failing[t] \in Failures /\ failing[t].step = "return"
          /\ owned[failing[t].frame] \subseteq failing[t].has
      BY <2>4 DEF FailReturn, FailedEmpty
    <3>2. failing'[t] = [failing[t] EXCEPT !.step = "still"]
      BY <1>2, <2>4 DEF FailReturn
    <3>3. failing'[t].step = "still" /\ failing'[t].frame = failing[t].frame
      BY <3>1, <3>2 DEF Failures
    <3>4. owned'[failing[t].frame] = {}
      BY <2>4, <3>1 DEF FailReturn, Reset, FrameTypes, OwnedType, Failures
    <3> QED
      BY <3>3, <3>4
  <2>5. CASE FailStill(t)
    BY <1>2, <2>5 DEF FailStill
  <2> QED
    BY <2>1, <2>2, <2>3, <2>4, <2>5, FailuresProgress DEF FailuresGoOn, FailureGoesOn
<1>3. ASSUME pc'["worker"] = "clearStill", failing'["worker"] = None
      PROVE  owned'[job'["worker"]] = {}
  <2>1. /\ pc["worker"] = "clearStill" /\ job'["worker"] = job["worker"]
        /\ FailureGoesOn("worker") /\ "worker" \in Threads
    BY <1>3, FailuresProgress DEF FailuresGoOn, Threads
  <2>2. job["worker"] \in Requests /\ job["worker"] < next
    BY <2>1, JobsAreRequests, Outside DEF WorkerAccepted
  <2>3. CASE failing["worker"] = None
    BY <1>1, <2>1, <2>2, <2>3 DEF FailedEmpty
  <2>4. CASE failing["worker"] # None
    <3>1. failing["worker"].frame = job["worker"]
      BY <2>4 DEF ControlInv, WorkerOK
    <3>2. FailReturn("worker") \/ FailStill("worker")
      <4>1. ~FailLook("worker")
        BY <1>3, <2>1, <2>4, Outside, FailLooked
      <4> QED
        BY <1>3, <2>1, <2>4, <4>1 DEF FailureGoesOn
    <3>3. CASE FailReturn("worker")
      <4>1. owned[job["worker"]] \subseteq failing["worker"].has
        BY <2>1, <2>4, <3>1, <3>3 DEF FailReturn, FailedEmpty
      <4> QED
        BY <2>1, <2>2, <3>1, <3>3, <4>1 DEF FailReturn, Reset, FrameTypes, OwnedType
    <3>4. CASE FailStill("worker")
      BY <2>1, <2>2, <2>4, <3>1, <3>4 DEF FailStill, FailedEmpty, frame
    <3> QED
      BY <3>2, <3>3, <3>4
  <2> QED
    BY <2>3, <2>4
<1> QED
  BY <1>2, <1>3 DEF FailedEmpty

(* Every step is one of these movements.                                    *)
LEMMA Movements ==
  ASSUME Types, ControlInv, InFlightOK, NoneTwice, NothingToCollect, TodoOK,
     PlacedAreAccepted, WorkerAccepted, OwnedAsked, FailedEmpty, ScheduledStill,
     JpegOnly, SessionStep
  PROVE  Movement
<1>0. /\ {"asked", "queued", "dequeued", "recording", "recorded", "completed", "delivered",
          "pending", "pictured", "drained", "todo"} \subseteq Places
      /\ {"framework", "capture", "blit", "result", "picture", "flusher"} \subseteq Places
  BY DEF Places, Stages, Failers, Threads
<1>1. CASE \/ RejectRawRequest \/ UpdateBackendParameters \/ PostRequest \/ PopTask
           \/ StartPreviewCheck \/ StartPreview \/ TakePictureCheck \/ TakePictureFence
           \/ TakePicture \/ PictureStart \/ FinishWorker \/ TakePictureFinished
           \/ RestartAfterFailure \/ NextNativeFrame \/ DrainPreview \/ SourceFence
           \/ BlitRequeue \/ PostTakePicture \/ PictureThread \/ PictureTaken
           \/ DataCallback \/ RestartCheck \/ RestartPreview \/ FinishCallback \/ Flush
           \/ Close \/ CloseJoin \/ CloseFlush \/ FlushLock \/ CancelPicture
           \/ PictureCancelled \/ FlushStopPreview \/ FlushEnd \/ CloseEnd
           \/ (\E t \in Threads : FailLook(t)) \/ Stutter
  BY <1>1, StayingMoves DEF Movement
<1>2. CASE Reserve
  <2>1. job["framework"] \in Requests
    BY <1>2, JobsAreRequests DEF Reserve, At, Types
  <2> QED
    BY <1>0, <1>2, <2>1, ReserveMoves DEF Movement
<1>3. CASE Enqueue
  <2>1. job["framework"] \in Requests /\ job["framework"] < next
    BY <1>3, JobsAreRequests, AcceptedPlaces DEF Enqueue, At, Types
  <2>2. ~NeedsOrderedPreviewCapture(job["framework"]) => "jpeg" \in Outputs[job["framework"]]
    BY DEF NeedsOrderedPreviewCapture
  <2> QED
    BY <1>0, <1>3, <2>1, <2>2, EnqueueMoves DEF Movement
<1>4. CASE TakePictureClear
  <2>1. job["worker"] \in Requests /\ owned[job["worker"]] = {} /\ UNCHANGED owned
    BY <1>4, JobsAreRequests DEF TakePictureClear, At, Types, FailedEmpty, frame
  <2> QED
    BY <1>4, <2>1, TakePictureClearMoves DEF Movement
<1>5. CASE DequeuePreview
  <2>1. Head(previewQueue) \in Requests
    BY <1>5, Split DEF DequeuePreview, Types, QueueTypes
  <2> QED
    BY <1>0, <1>5, <2>1, DequeuePreviewMoves DEF Movement
<1>6. CASE BlitPop
  <2>1. Head(videoBlitQueue) \in Requests
    BY <1>6, Split DEF BlitPop, Types, QueueTypes
  <2> QED
    BY <1>0, <1>6, <2>1, BlitPopMoves DEF Movement
<1>7. CASE ResultPop
  <2>1. Head(resultQueue) \in Requests
    BY <1>7, Split DEF ResultPop, Types, QueueTypes
  <2> QED
    BY <1>0, <1>7, <2>1, ResultPopMoves DEF Movement
<1>8. CASE FlushFail
  <2>1. Head(todo) \in Requests
    BY <1>8, Split DEF FlushFail, Types, QueueTypes
  <2> QED
    BY <1>0, <1>8, <2>1, FlushFailMoves DEF Movement
<1>9. CASE SourceFenceTimeout
  <2>1. job["capture"] \in Requests
    BY <1>9, JobsAreRequests DEF SourceFenceTimeout, At, Types
  <2> QED
    BY <1>0, <1>9, <2>1, SourceFenceTimeoutMoves DEF Movement
<1>10. CASE DequeueRecheck
  <2>1. job["capture"] \in Requests
    BY <1>10, JobsAreRequests DEF DequeueRecheck, At, Types
  <2> QED
    BY <1>0, <1>10, <2>1, DequeueRecheckMoves DEF Movement
<1>11. CASE CopyPreview
  <2>1. job["capture"] \in Requests
    BY <1>11, JobsAreRequests DEF CopyPreview, At, Types
  <2> QED
    BY <1>0, <1>11, <2>1, CopyPreviewMoves DEF Movement
<1>12. CASE BlitComplete
  <2>1. job["blit"] \in Requests
    BY <1>12, JobsAreRequests DEF BlitComplete, At, Types
  <2> QED
    BY <1>0, <1>12, <2>1, BlitCompleteMoves DEF Movement
<1>13. CASE Deliver
  <2>1. job["result"] \in Requests
    BY <1>13, JobsAreRequests DEF Deliver, At, Types
  <2> QED
    BY <1>0, <1>13, <2>1, DeliverMoves DEF Movement
<1>14. CASE ScheduleJpeg
  <2>1. job["result"] \in Requests /\ "jpeg" \in Outputs[job["result"]]
    BY <1>14, JobsAreRequests DEF ScheduleJpeg, At, Types, ScheduledStill
  <2> QED
    BY <1>0, <1>14, <2>1, ScheduleJpegMoves DEF Movement
<1>15. CASE HandleJpeg
  BY <1>0, <1>15, HandleJpegMoves DEF Movement
<1>16. CASE HandleJpegCheck
  <2> DEFINE r == job["picture"]
  <2>1. ASSUME r \in Requests, "jpeg" \notin owned[r] PROVE owned'[r] = {}
    <3>1. owned[r] \subseteq {"jpeg"} /\ UNCHANGED owned
      BY <1>16, <2>1 DEF HandleJpegCheck, At, JpegOnly, JpegTurn, frame
    <3> QED
      BY <2>1, <3>1
  <2> QED
    BY <1>0, <1>16, <2>1, HandleJpegCheckMoves DEF Movement
<1>17. CASE SendJpeg
  <2> DEFINE r == job["picture"]
  <2>1. r \in Requests
    BY <1>17, JobsAreRequests DEF SendJpeg, At, Types
  <2>2. ASSUME "jpeg" \notin owned'[r] PROVE owned'[r] = {}
    <3>1. owned[r] \subseteq {"jpeg"} /\ r < next
      BY <1>17, <2>1, AcceptedPlaces DEF SendJpeg, At, JpegOnly, JpegTurn
    <3>2. owned'[r] \subseteq owned[r]
      BY <2>1, <3>1, OwnedShrinks DEF OwnedShrink
    <3> QED
      BY <2>2, <3>1, <3>2
  <2> QED
    BY <1>0, <1>17, <2>1, <2>2, SendJpegMoves DEF Movement
<1>18. CASE FlushCollect
  BY <1>18, FlushCollectMoves DEF Movement
<1>19. ASSUME NEW t \in Threads, FailReturn(t) PROVE Movement
  <2>1. failing[t].frame \in Requests
    BY <1>19, AcceptedPlaces DEF FailReturn
  <2>2. owned[failing[t].frame] \subseteq failing[t].has
    BY <1>19 DEF FailReturn, FailedEmpty
  <2>3. owned'[failing[t].frame] = {}
    BY <1>19, <2>1, <2>2 DEF FailReturn, Reset, Types, FrameTypes, OwnedType
  <2> QED
    BY <1>19, <2>1, <2>3, FailReturnMoves DEF Movement
<1>20. ASSUME NEW t \in Threads, FailStill(t) PROVE Movement
  <2>1. failing[t].frame \in Requests
    BY <1>20, AcceptedPlaces DEF FailStill
  <2>2. owned'[failing[t].frame] = {}
    BY <1>20 DEF FailStill, FailedEmpty, frame
  <2> QED
    BY <1>20, <2>1, <2>2, FailStillMoves DEF Movement
<1>21. CASE AcceptRequest \/ FlushDrainJpeg \/ FlushResults \/ FlushResultIdle
  BY <1>21 DEF Movement
<1> QED
  BY <1>1, <1>2, <1>3, <1>4, <1>5, <1>6, <1>7, <1>8, <1>9, <1>10, <1>11, <1>12, <1>13,
     <1>14, <1>15, <1>16, <1>17, <1>18, <1>19, <1>20, <1>21
     DEF SessionStep

(* What flush() does to the places.                                         *)
LEMMA FlushTakes ==
  ASSUME Types, ControlInv, TodoOK, FlushDrainJpeg \/ FlushResults \/ FlushResultIdle
  PROVE  /\ \A r \in Requests : (\E p \in Places : Place(p, r)) => \E p \in Places : Place(p, r)'
         /\ \A r \in Requests : (\E p \in Places : Place(p, r)') => \E p \in Places : Place(p, r)
         /\ OnePlace => OnePlace'
<1>0. {"queued", "completed", "pending", "drained", "todo"} \subseteq Places
  BY DEF Places, Stages
<1>1. CASE FlushDrainJpeg
  <2>1. /\ Taken("todo", "queued") /\ Taken("drained", "pending")
        /\ Left({"todo", "drained", "queued", "pending"})
    BY <1>1, FlushDrainJpegMoves
  <2> QED
    BY <1>0, <2>1 DEF Taken, Left, OnePlace
<1>2. CASE FlushResults
  <2>1. Taken("todo", "completed") /\ Left({"todo", "completed"})
    BY <1>2, FlushResultsMoves
  <2> QED
    BY <1>0, <2>1 DEF Taken, Left, OnePlace
<1>3. CASE FlushResultIdle
  <2>1. Taken("todo", "drained") /\ Left({"todo", "drained"})
    BY <1>3, FlushResultIdleMoves
  <2> QED
    BY <1>0, <2>1 DEF Taken, Left, OnePlace
<1> QED
  BY <1>1, <1>2, <1>3

LEMMA Accepting ==
  ASSUME Types, ControlInv, NEW r \in Requests, r = next, AcceptRequest
  PROVE  /\ "asked" \in Places /\ Place("asked", r)'
         /\ \A p \in Places, x \in Requests : Place(p, x)' <=> (p = "asked" /\ x = r) \/ Place(p, x)
<1>1. "asked" \in Places
  BY DEF Places, Stages
<1> QED
  BY <1>1, AcceptRequestMoves

LEMMA OnePlaceKept ==
  ASSUME Types, ControlInv, InFlightOK, NoneTwice, NothingToCollect, TodoOK,
     PlacedAreAccepted, WorkerAccepted, OwnedAsked, FailedEmpty, ScheduledStill,
     JpegOnly, OnePlace, SessionStep
  PROVE  OnePlace'
<1>1. ASSUME NEW r \in Requests \cup {None}, Dropped(r) PROVE OnePlace'
  BY <1>1 DEF Dropped, OnePlace
<1>2. ASSUME NEW r \in Requests, NEW s \in Places, NEW q \in Places,
             Moved(r, s, q, None) \/ Moved(r, s, q, pendingJpeg)
      PROVE  OnePlace'
  <2> SUFFICES ASSUME NEW x \in Requests, NEW p1 \in Places, NEW p2 \in Places,
                      Place(p1, x)', Place(p2, x)'
               PROVE  p1 = p2
    BY DEF OnePlace
  <2>1. CASE x = r
    <3>1. \A p \in Places : Place(p, r)' => p = q
      BY <1>2 DEF Moved, OnePlace
    <3> QED
      BY <2>1, <3>1
  <2>2. CASE x # r
    <3>1. Place(p1, x) /\ Place(p2, x)
      BY <1>2, <2>2 DEF Moved
    <3> QED
      BY <3>1 DEF OnePlace
  <2> QED
    BY <2>1, <2>2
<1>3. CASE AcceptRequest
  <2>1. PICK r \in Requests : r = next
    BY <1>3, Asking DEF AcceptRequest, Types
  <2>2. \A p \in Places : ~Place(p, r)
    BY <2>1, Asking DEF PlacedAreAccepted, Types
  <2>3. \A p \in Places, x \in Requests : Place(p, x)' <=> (p = "asked" /\ x = r) \/ Place(p, x)
    BY <1>3, <2>1, Accepting
  <2> QED
    BY <2>2, <2>3 DEF OnePlace
<1>4. CASE FlushDrainJpeg \/ FlushResults \/ FlushResultIdle
  BY <1>4, FlushTakes
<1>5. "pending" \in Places
  BY DEF Places, Stages
<1> QED
  BY <1>1, <1>2, <1>3, <1>4, <1>5, Movements DEF Movement

LEMMA PlacedAreAcceptedKept ==
  ASSUME Types, ControlInv, InFlightOK, NoneTwice, NothingToCollect, TodoOK,
     PlacedAreAccepted, WorkerAccepted, OwnedAsked, FailedEmpty, ScheduledStill,
     JpegOnly, SessionStep
  PROVE  PlacedAreAccepted'
<1> SUFFICES ASSUME NEW r \in Requests, \E p \in Places : Place(p, r)'
             PROVE  r < next'
  BY DEF PlacedAreAccepted
<1>1. r \in Nat /\ next \in Nat /\ next' \in Nat /\ next <= next'
  <2>1. SessionTypes'
    BY SessionTypesKept
  <2>2. next \in Nat /\ next' \in Nat
    BY <2>1, Asking DEF Types, SessionTypes
  <2>3. r \in Nat /\ next <= next'
    BY OwnedShrinks, Asking DEF OwnedShrink, Requests, Types
  <2> QED
    BY <2>2, <2>3
<1>2. CASE \E p \in Places : Place(p, r)
  BY <1>1, <1>2 DEF PlacedAreAccepted
<1>3. CASE AcceptRequest
  <2>1. PICK a \in Requests : a = next
    BY <1>3, Asking DEF AcceptRequest, Types
  <2>2. r = a \/ \E p \in Places : Place(p, r)
    BY <1>3, <2>1, Accepting
  <2>3. next' = next + 1
    BY <1>3 DEF AcceptRequest
  <2> QED
    BY <1>1, <1>2, <2>1, <2>2, <2>3
<1>4. ASSUME NEW x \in Requests \cup {None}, Dropped(x) PROVE r < next'
  BY <1>2, <1>4 DEF Dropped
<1>5. ASSUME NEW x \in Requests, NEW s \in Places, NEW q \in Places,
             Moved(x, s, q, None) \/ Moved(x, s, q, pendingJpeg)
      PROVE  r < next'
  BY <1>2, <1>5 DEF Moved
<1>6. CASE FlushDrainJpeg \/ FlushResults \/ FlushResultIdle
  BY <1>2, <1>6, FlushTakes
<1>7. "pending" \in Places
  BY DEF Places, Stages
<1> QED
  BY <1>3, <1>4, <1>5, <1>6, <1>7, Movements DEF Movement

LEMMA AcceptedAsked ==
  ASSUME SessionTypes, NEW r \in Requests, r < next
  PROVE  r \in DOMAIN Outputs
<1>1. Len(Outputs) \in Nat /\ DOMAIN Outputs = 1..Len(Outputs) /\ MaxRequests \in Nat
  BY Asking
<1>2. next \in 1..(Len(Outputs) + 1)
  BY DEF SessionTypes
<1> QED
  BY <1>1, <1>2 DEF Requests

LEMMA AbandonedGrows ==
  ASSUME SessionStep
  PROVE  AbandonedGrow
<1> USE DEF AbandonedGrow
<1>1. CASE \/ RejectRawRequest \/ AcceptRequest \/ UpdateBackendParameters \/ Reserve
           \/ Enqueue \/ PostRequest \/ PopTask \/ StartPreviewCheck \/ StartPreview
           \/ TakePictureCheck \/ TakePictureFence \/ TakePicture \/ PictureStart
           \/ FinishWorker \/ TakePictureFinished \/ TakePictureClear
           \/ RestartAfterFailure \/ NextNativeFrame \/ DrainPreview \/ DequeuePreview
           \/ SourceFence \/ SourceFenceTimeout \/ CopyPreview \/ BlitPop
           \/ BlitComplete \/ BlitRequeue \/ ResultPop \/ Deliver \/ ScheduleJpeg
           \/ PostTakePicture \/ PictureThread \/ PictureTaken \/ DataCallback
           \/ HandleJpeg \/ HandleJpegCheck \/ SendJpeg \/ RestartCheck
           \/ RestartPreview \/ FinishCallback \/ Flush \/ Close \/ CloseJoin
           \/ CloseFlush \/ FlushDrainJpeg \/ FlushLock \/ CancelPicture
           \/ PictureCancelled \/ FlushStopPreview \/ FlushCollect \/ FlushResults
           \/ FlushResultIdle \/ FlushFail \/ FlushEnd \/ CloseEnd \/ Stutter
  <2>1. UNCHANGED <<abandoned>>
    BY <1>1
       DEF RejectRawRequest, AcceptRequest, UpdateBackendParameters, Reserve, Enqueue,
          NeedsOrderedPreviewCapture, PostRequest, PopTask, StartPreviewCheck,
          StartPreview, TakePictureCheck, TakePictureFence, TakePicture, PictureStart,
          FinishWorker, TakePictureFinished, TakePictureClear, RestartAfterFailure,
          NextNativeFrame, DrainPreview, DequeuePreview, SourceFence,
          SourceFenceTimeout, CopyPreview, BlitPop, BlitComplete, BlitRequeue,
          ResultPop, Deliver, ScheduleJpeg, PostTakePicture, PictureThread,
          PictureTaken, DataCallback, HandleJpeg, HandleJpegCheck, SendJpeg,
          RestartCheck, RestartPreview, FinishCallback, Flush, BeginFlush, Close,
          CloseJoin, CloseFlush, FlushDrainJpeg, FlushLock, CancelPicture,
          PictureCancelled, FlushStopPreview, FlushCollect, FlushResults,
          FlushResultIdle, FlushFail, FlushEnd, CloseEnd, Stutter, vars
  <2> QED
    BY <2>1
<1>2. CASE DequeueRecheck
  BY <1>2 DEF DequeueRecheck
<1>3. ASSUME NEW t \in Threads, FailLook(t) PROVE AbandonedGrow
  BY <1>3 DEF FailLook
<1>4. ASSUME NEW t \in Threads, FailReturn(t) PROVE AbandonedGrow
  BY <1>4 DEF FailReturn
<1>5. ASSUME NEW t \in Threads, FailStill(t) PROVE AbandonedGrow
  BY <1>5 DEF FailStill
<1> QED
  BY <1>1, <1>2, <1>3, <1>4, <1>5 DEF SessionStep

LEMMA ScenarioConstant ==
  ASSUME SessionStep
  PROVE  ScenarioStays
<1> USE DEF ScenarioStays
<1>1. CASE \/ RejectRawRequest \/ AcceptRequest \/ UpdateBackendParameters \/ Reserve
           \/ Enqueue \/ PostRequest \/ PopTask \/ StartPreviewCheck \/ StartPreview
           \/ TakePictureCheck \/ TakePictureFence \/ TakePicture \/ PictureStart
           \/ FinishWorker \/ TakePictureFinished \/ TakePictureClear
           \/ RestartAfterFailure \/ NextNativeFrame \/ DrainPreview \/ DequeuePreview
           \/ SourceFence \/ SourceFenceTimeout \/ DequeueRecheck \/ CopyPreview
           \/ BlitPop \/ BlitComplete \/ BlitRequeue \/ ResultPop \/ Deliver
           \/ ScheduleJpeg \/ PostTakePicture \/ PictureThread \/ PictureTaken
           \/ DataCallback \/ HandleJpeg \/ HandleJpegCheck \/ SendJpeg \/ RestartCheck
           \/ RestartPreview \/ FinishCallback \/ Flush \/ Close \/ CloseJoin
           \/ CloseFlush \/ FlushDrainJpeg \/ FlushLock \/ CancelPicture
           \/ PictureCancelled \/ FlushStopPreview \/ FlushCollect \/ FlushResults
           \/ FlushResultIdle \/ FlushFail \/ FlushEnd \/ CloseEnd \/ Stutter
  <2>1. UNCHANGED <<scenario>>
    BY <1>1
       DEF RejectRawRequest, Outputs, AcceptRequest, Settings, UpdateBackendParameters,
          Reserve, Enqueue, NeedsOrderedPreviewCapture, HasSource, PostRequest, PopTask,
          StartPreviewCheck, StartPreview, Faults, TakePictureCheck, TakePictureFence,
          TakePicture, PictureStart, FinishWorker, TakePictureFinished,
          TakePictureClear, RestartAfterFailure, NextNativeFrame, DrainPreview,
          DequeuePreview, SourceFence, SourceFenceTimeout, DequeueRecheck, CopyPreview,
          BlitPop, BlitComplete, BlitRequeue, ResultPop, Deliver, ScheduleJpeg,
          PostTakePicture, PictureThread, PictureTaken, DataCallback, HandleJpeg,
          HandleJpegCheck, SendJpeg, RestartCheck, RestartPreview, FinishCallback,
          Flush, BeginFlush, Close, CloseJoin, CloseFlush, FlushDrainJpeg, FlushLock,
          CancelPicture, PictureCancelled, FlushStopPreview, FlushCollect, FlushResults,
          FlushResultIdle, FlushFail, FlushEnd, CloseEnd, Stutter, vars
  <2> QED
    BY <2>1
<1>2. ASSUME NEW t \in Threads, FailLook(t) PROVE ScenarioStays
  BY <1>2 DEF FailLook
<1>3. ASSUME NEW t \in Threads, FailReturn(t) PROVE ScenarioStays
  BY <1>3 DEF FailReturn
<1>4. ASSUME NEW t \in Threads, FailStill(t) PROVE ScenarioStays
  BY <1>4 DEF FailStill
<1> QED
  BY <1>1, <1>2, <1>3, <1>4 DEF SessionStep

LEMMA HeldKept ==
  ASSUME Types, ControlInv, InFlightOK, NoneTwice, NothingToCollect, TodoOK,
     PlacedAreAccepted, WorkerAccepted, OwnedAsked, FailedEmpty, ScheduledStill,
     JpegOnly, Held, SessionStep
  PROVE  Held'
<1> SUFFICES ASSUME NEW r \in Requests, owned'[r] # {}, r \notin abandoned',
                    OneStillIn(scenario)' \/ owned'[r] # {"jpeg"}
             PROVE  \E p \in Places : Place(p, r)'
  BY DEF Held
<1>1. scenario' = scenario
  BY ScenarioConstant DEF ScenarioStays
<1>2. CASE AcceptRequest /\ r = next
  BY <1>2, Accepting
<1>3. CASE ~(AcceptRequest /\ r = next)
  <2>1. r < next
    <3>1. owned[r] # {}
      BY <1>3, OwnedShrinks DEF OwnedShrink
    <3> QED
      BY <3>1 DEF OwnedAsked
  <2>2. owned'[r] \subseteq owned[r] /\ r \notin abandoned
    BY <2>1, OwnedShrinks, AbandonedGrows DEF OwnedShrink, AbandonedGrow
  <2>3. OneStillIn(scenario) \/ owned[r] # {"jpeg"}
    BY <1>1, <2>2 DEF OneStillIn
  <2>4. \E p \in Places : Place(p, r)
    BY <2>2, <2>3 DEF Held
  <2>5. r # None
    BY Outside
  <2>6. CASE Dropped(None)
    BY <2>4, <2>5, <2>6 DEF Dropped
  <2>7. ASSUME NEW x \in Requests, Dropped(x), x \in abandoned' \/ owned'[x] = {}
        PROVE  \E p \in Places : Place(p, r)'
    <3>1. x # r
      BY <2>7
    <3> QED
      BY <2>4, <2>7, <3>1 DEF Dropped
  <2>8. ASSUME NEW x \in Requests, NEW s \in Places, NEW q \in Places, Moved(x, s, q, None)
        PROVE  \E p \in Places : Place(p, r)'
    BY <2>4, <2>5, <2>8 DEF Moved
  <2>9. ASSUME NEW x \in Requests, NEW s \in Places, Moved(x, s, "pending", pendingJpeg),
               "jpeg" \in Outputs[x]
        PROVE  \E p \in Places : Place(p, r)'
    <3>1. "pending" \in Places
      BY DEF Places, Stages
    <3>2. CASE r = x
      BY <2>9, <3>1, <3>2 DEF Moved
    <3>3. CASE r # x /\ r # pendingJpeg
      BY <2>4, <2>9, <3>3 DEF Moved
    <3>4. CASE r # x /\ r = pendingJpeg
      <4>1. owned[r] \subseteq {"jpeg"}
        BY <3>4 DEF JpegOnly, JpegTurn
      <4>2. owned'[r] = {"jpeg"} /\ "jpeg" \in owned[r]
        BY <2>2, <4>1
      <4>3. x < next
        BY <2>9 DEF Moved, PlacedAreAccepted
      <4>4. r \in DOMAIN Outputs /\ x \in DOMAIN Outputs
        BY <2>1, <4>3, AcceptedAsked DEF Types
      <4>5. "jpeg" \in Outputs[r]
        BY <2>1, <4>2 DEF OwnedAsked
      <4>6. OneStillIn(scenario)
        BY <1>1, <4>2 DEF OneStillIn
      <4> QED
        BY <2>9, <3>4, <4>4, <4>5, <4>6 DEF OneStillIn, Outputs
    <3> QED
      BY <3>2, <3>3, <3>4
  <2>10. CASE AcceptRequest
    <3>1. PICK a \in Requests : a = next
      BY <2>10, Asking DEF AcceptRequest, Types
    <3> QED
      BY <2>4, <2>10, <3>1, Accepting
  <2>11. CASE FlushDrainJpeg \/ FlushResults \/ FlushResultIdle
    BY <2>4, <2>11, FlushTakes
  <2> QED
    BY <2>6, <2>7, <2>8, <2>9, <2>10, <2>11, Movements DEF Movement
<1> QED
  BY <1>2, <1>3

LEMMA ScratchIsInFlightKept ==
  ASSUME Types, ControlInv, ScratchIsInFlight, SessionStep
  PROVE  ScratchIsInFlight'
<1> USE DEF Types, ControlTypes, PcType, JobType, Threads, SlotTypes, ScratchIsInFlight
<1>1. CASE \/ RejectRawRequest \/ AcceptRequest \/ UpdateBackendParameters \/ Reserve
           \/ Enqueue \/ PostRequest \/ PopTask \/ StartPreviewCheck \/ StartPreview
           \/ TakePictureCheck \/ TakePictureFence \/ TakePicture \/ PictureStart
           \/ FinishWorker \/ TakePictureFinished \/ TakePictureClear
           \/ RestartAfterFailure \/ NextNativeFrame \/ DrainPreview \/ SourceFence
           \/ BlitPop \/ BlitRequeue \/ ResultPop \/ Deliver \/ ScheduleJpeg
           \/ PostTakePicture \/ PictureThread \/ PictureTaken \/ DataCallback
           \/ HandleJpeg \/ HandleJpegCheck \/ SendJpeg \/ RestartCheck
           \/ RestartPreview \/ FinishCallback \/ Flush \/ Close \/ CloseJoin
           \/ CloseFlush \/ FlushDrainJpeg \/ FlushLock \/ CancelPicture
           \/ PictureCancelled \/ FlushStopPreview \/ FlushResults \/ FlushResultIdle
           \/ FlushFail \/ FlushEnd \/ CloseEnd \/ Stutter
  <2>1. UNCHANGED <<inFlightPreview, scratchInUse>>
    BY <1>1
       DEF RejectRawRequest, preview, AcceptRequest, UpdateBackendParameters, Reserve,
          Enqueue, NeedsOrderedPreviewCapture, PostRequest, PopTask, StartPreviewCheck,
          StartPreview, TakePictureCheck, TakePictureFence, TakePicture, PictureStart,
          FinishWorker, TakePictureFinished, TakePictureClear, RestartAfterFailure,
          NextNativeFrame, DrainPreview, SourceFence, BlitPop, BlitRequeue, ResultPop,
          Deliver, ScheduleJpeg, PostTakePicture, PictureThread, PictureTaken,
          DataCallback, HandleJpeg, HandleJpegCheck, SendJpeg, RestartCheck,
          RestartPreview, FinishCallback, Flush, BeginFlush, Close, CloseJoin,
          CloseFlush, FlushDrainJpeg, FlushLock, CancelPicture, PictureCancelled,
          FlushStopPreview, FlushResults, FlushResultIdle, FlushFail, FlushEnd,
          CloseEnd, Stutter, vars
  <2> QED
    BY <2>1
<1>2. CASE DequeuePreview
  BY <1>2, Outside, QueueHeads DEF DequeuePreview
<1>3. CASE SourceFenceTimeout
  BY <1>3, Outside, JobsAreRequests DEF SourceFenceTimeout, At
<1>4. CASE DequeueRecheck
  BY <1>4, Outside, JobsAreRequests DEF DequeueRecheck, ReleaseScratch, preview, At
<1>5. CASE CopyPreview
  BY <1>5, Outside, JobsAreRequests DEF CopyPreview, Complete, ReleaseScratch, At
<1>6. CASE BlitComplete
  BY <1>6, Outside, JobsAreRequests DEF BlitComplete, Complete, ReleaseScratch, At
<1>7. CASE FlushCollect
  BY <1>7, Outside DEF FlushCollect
<1>8. ASSUME NEW t \in Threads, FailLook(t) PROVE ScratchIsInFlight'
  BY <1>8, Outside DEF FailLook, preview
<1>9. ASSUME NEW t \in Threads, FailReturn(t) PROVE ScratchIsInFlight'
  BY <1>9, Outside DEF FailReturn, preview
<1>10. ASSUME NEW t \in Threads, FailStill(t) PROVE ScratchIsInFlight'
  BY <1>10, Outside DEF FailStill, preview
<1> QED
  BY <1>1, <1>2, <1>3, <1>4, <1>5, <1>6, <1>7, <1>8, <1>9, <1>10 DEF SessionStep

-----------------------------------------------------------------------------
(* The inductive invariant.                                                *)
FramesInv ==
  /\ Types /\ ControlInv /\ LocksInv /\ CaptureRuns /\ CallsInv /\ BacklogOK
  /\ InFlightOK /\ OnePlace /\ NoneTwice /\ PlacedAreAccepted /\ NothingToCollect
  /\ TodoOK /\ WorkerAccepted /\ OwnedAsked /\ FailedEmpty /\ ScheduledStill
  /\ JpegOnly /\ Held /\ ScratchIsInFlight

LEMMA FramesInit == Init => FramesInv
<1> SUFFICES ASSUME Init PROVE FramesInv
  OBVIOUS
<1>1. Types
  <2>1. SessionTypes
    <3>1. scenario \in Scenarios /\ next = 1
      BY DEF Init
    <3>2. Outputs \in Seq((SUBSET Kinds) \ {{}})
      BY <3>1, ScenarioAssumption DEF Outputs
    <3>3. Len(Outputs) \in Nat
      BY <3>2, LenProperties
    <3> QED
      BY <3>1, <3>3 DEF SessionTypes
  <2>2. ControlTypes
    BY DEF Init, ControlTypes, PcType, JobType, FailingType, Points
  <2>3. QueueTypes
    BY EmptySequence DEF Init, QueueTypes
  <2>4. SlotTypes /\ FrameTypes
    BY DEF Init, SlotTypes, FrameTypes, OwnedType, ReturnedType, AnswerTypes, GenerationType
  <2>5. TaskTypes
    BY EmptySequence DEF Init, TaskTypes
  <2>6. FlagTypes
    BY DEF Init, FlagTypes
  <2> QED
    BY <2>1, <2>2, <2>3, <2>4, <2>5, <2>6 DEF Types
<1>2. ControlInv
  BY DEF Init, ControlInv, FrameworkOK, CaptureOK, BlitOK, ResultOK, PictureOK, FlusherOK,
     WorkerOK, Calling, FlushWork, Taking, Threads
<1>3. LocksInv /\ CaptureRuns
  BY Outside DEF Init, LocksInv, CaptureRuns, Calling, Taking, Threads
<1>4. CallsInv /\ BacklogOK
  <2>1. scenario.flushes \in Nat
    BY ScenarioAssumption DEF Init
  <2> QED
    BY <2>1, DepthAssumption DEF Init, CallsInv, BacklogOK, FlushWork, Threads
<1>5. \A r \in Requests, p \in Places : ~Place(p, r)
  BY Outside, EmptySequence DEF Init, Place, Places, Stages, Failers, Threads
<1>6. OnePlace /\ PlacedAreAccepted
  BY <1>5 DEF OnePlace, PlacedAreAccepted
<1>7. InFlightOK /\ NoneTwice /\ NothingToCollect /\ TodoOK
  BY Outside, EmptySequence DEF Init, InFlightOK, NoneTwice, NothingToCollect, TodoOK, Threads
<1>8. WorkerAccepted /\ OwnedAsked /\ FailedEmpty /\ ScheduledStill /\ JpegOnly /\ Held
      /\ ScratchIsInFlight
  BY DEF Init, WorkerAccepted, OwnedAsked, FailedEmpty, ScheduledStill, JpegOnly, Held,
     ScratchIsInFlight, Threads
<1> QED
  BY <1>1, <1>2, <1>3, <1>4, <1>6, <1>7, <1>8 DEF FramesInv

LEMMA FramesNext == FramesInv /\ [Next]_vars => FramesInv'
<1> SUFFICES ASSUME FramesInv, SessionStep PROVE FramesInv'
  BY Steps
<1> USE DEF FramesInv
<1>1. Types'
  BY SessionTypesKept, PcTypeKept, JobTypeKept, FailingTypeKept, QueueTypesKept,
     SlotTypesKept, OwnedTypeKept, ReturnedTypeKept, AnswerTypesKept,
     GenerationTypeKept, TaskTypesKept, FlagTypesKept
     DEF Types, ControlTypes, FrameTypes
<1>2. ControlInv'
  BY ControlInvKept
<1>3. LocksInv'
  BY LocksInvKept
<1>4. CaptureRuns'
  BY CaptureRunsKept
<1>5. CallsInv'
  BY CallsInvKept
<1>6. BacklogOK'
  BY BacklogOKKept
<1>7. InFlightOK'
  BY InFlightOKKept
<1>8. OnePlace'
  BY OnePlaceKept
<1>9. NoneTwice'
  BY NoneTwiceKept
<1>10. PlacedAreAccepted'
  BY PlacedAreAcceptedKept
<1>11. NothingToCollect'
  BY NothingToCollectKept
<1>12. TodoOK'
  BY TodoOKKept
<1>13. WorkerAccepted'
  BY WorkerAcceptedKept
<1>14. OwnedAsked'
  BY OwnedAskedKept
<1>15. FailedEmpty'
  BY FailedEmptyKept
<1>16. ScheduledStill'
  BY ScheduledStillKept
<1>17. JpegOnly'
  BY JpegOnlyKept
<1>18. Held'
  BY HeldKept
<1>19. ScratchIsInFlight'
  BY ScratchIsInFlightKept
<1> QED
  BY <1>1, <1>2, <1>3, <1>4, <1>5, <1>6, <1>7, <1>8, <1>9, <1>10, <1>11, <1>12, <1>13,
     <1>14, <1>15, <1>16, <1>17, <1>18, <1>19

LEMMA FramesAlways == Spec => []FramesInv
<1> QED
  BY FramesInit, FramesNext, PTL DEF Spec

(* Every variable keeps its type, whatever the scenarios and the queue depth:*)
(* the states of the seven threads, the queues, the counters.               *)
THEOREM TypeCorrect == Spec => []TypeOK
<1>1. FramesInv => TypeOK
  <2> SUFFICES ASSUME FramesInv PROVE TypeOK
    OBVIOUS
  <2> USE DEF FramesInv, Types
  <2>1. scenario \in Scenarios /\ next \in 1..(Len(Outputs) + 1)
    BY DEF SessionTypes
  <2>2. /\ pc \in [Threads -> Points] /\ job \in [Threads -> Requests \cup {None}]
        /\ failing \in [Threads -> Failures \cup {None}]
    BY DEF ControlTypes, PcType, JobType, FailingType
  <2>3. sessionGeneration \in 0..(MaxFlushes + 2) /\ flushes \in 0..MaxFlushes
    BY Asking DEF CallsInv
  <2>4. /\ {closing, flushing, previewAbort, stillQueued, jpegWorkerActive, previewStarted,
             preview_enabled, callbacksUser} \subseteq BOOLEAN
        /\ rc \in {"ok", "failed", "fence", "stale"} /\ node0 \in {"off", "preview", "picture"}
    BY DEF FlagTypes
  <2>5. /\ pendingJpeg \in Requests \cup {None} /\ scratchInUse \in Requests \cup {None}
        /\ inFlightPreview \subseteq Requests /\ abandoned \subseteq Requests
    BY DEF SlotTypes
  <2>6. {previewQueue, resultQueue, videoBlitQueue, todo, shutters} \subseteq Seq(Requests)
    BY DEF QueueTypes
  <2>7. Len(videoBlitQueue) <= QueueDepth
    BY LenProperties, DepthAssumption DEF BacklogOK, QueueTypes
  <2>8. workerTasks \in Seq([task : {"start", "take", "exit"}, gen : Nat]) /\ taskGeneration \in Nat
    BY DEF TaskTypes, Tasks
  <2>9. jpegCallbacksActive \in 0..1 /\ backendOps \in {None, "worker", "flusher"}
    BY DEF LocksInv
  <2>10. /\ generation \in [Requests -> Nat] /\ owned \in [Requests -> SUBSET Kinds]
         /\ metadataReturned \subseteq Requests /\ requestErrorNotified \subseteq Requests
         /\ returned \in [Requests -> [Kinds -> Nat]]
    BY DEF FrameTypes, OwnedType, ReturnedType, AnswerTypes, GenerationType
  <2>11. op \in {"none", "flush", "close"}
    BY DEF CallsInv
  <2> QED
    BY <2>1, <2>2, <2>3, <2>4, <2>5, <2>6, <2>7, <2>8, <2>9, <2>10, <2>11 DEF TypeOK
<1> QED
  BY <1>1, FramesAlways, PTL

LEMMA PlacedAreReferenced ==
  ASSUME NEW r \in Requests, NEW p \in Places, Place(p, r)
  PROVE  Referenced(r)
  BY DEF Place, Places, Stages, Failers, Threads, Referenced

(* A frame that still has a preview or a video buffer is never forgotten: a  *)
(* queue or a thread knows it, unless dequeuePreview dropped it.  With one   *)
(* still at most in the session the same holds of its JPEG buffer.          *)
THEOREM FramesAreHeld ==
  Spec => [](/\ \A r \in Requests :
                   owned[r] \notin {{}, {"jpeg"}} /\ r \notin abandoned => Referenced(r)
             /\ OneStillIn(scenario) => NothingLost)
<1>1. FramesInv => /\ \A r \in Requests :
                          owned[r] \notin {{}, {"jpeg"}} /\ r \notin abandoned => Referenced(r)
                   /\ OneStillIn(scenario) => NothingLost
  BY PlacedAreReferenced DEF FramesInv, Held, NothingLost
<1> QED
  BY <1>1, FramesAlways, PTL

(* The one scratch buffer belongs to a frame in flight, never to one that    *)
(* has left: dequeuePreview waits for it no longer than for that frame.      *)
THEOREM ScratchIsGivenBack == Spec => []ScratchIsInFlight
<1>1. FramesInv => ScratchIsInFlight
  BY DEF FramesInv
<1> QED
  BY <1>1, FramesAlways, PTL

=============================================================================
