---------------------------- MODULE CaptureNodes ----------------------------
(***************************************************************************)
(* The V4L2 capture nodes of the native backend, node 0 (preview and still)*)
(* and node 2 (movies), under the calls that share them: opening, closing  *)
(* and resetting the backend, starting and stopping the preview, the movie *)
(* stream that the preview thread arms, and stills, which a detached thread*)
(* per still reads, encodes and hands over.                                *)
(*                                                                         *)
(*   camera3/exynos_camera.c  init, deinit, preview_start/_stop,           *)
(*                            recording_start/_stop, picture,              *)
(*                            picture_thread, picture_start/_stop,         *)
(*                            backend_reset_capture_nodes                  *)
(*   camera3/exynos_v4l2.c    one ioctl per operation                      *)
(*   camera3/exynos_exif.c    through ExifLayout                           *)
(*                                                                         *)
(* A call is the sequence of operations it has still to do; each names what*)
(* its failure leads to.  The driver (external) refuses a format or buffers*)
(* while a node streams, STREAMON and QBUF without buffers, and everything *)
(* on a node that is not open.                                             *)
(***************************************************************************)
EXTENDS ExifLayout

CONSTANTS
  Stills,            \* numbers of the stills, 1..n (bound)
  StillAttributes,   \* what their attributes may be
  NodeFaults,        \* operations that may fail
  MaxNodeCalls, MaxNodeFaults

ASSUME StillNumbers == Stills \subseteq Nat \ {0}
(* Nobody looks at what api_jpeg_encode_deinit() and release() return.        *)
ASSUME ReleasesSucceed == NodeFaults \cap {"encoder_close", "release_data"} = {}

Nodes == {0, 2}
Caller == -1        \* the wrapper's calls, one at a time
PreviewLoop == 0    \* the preview thread
Actors == {Caller, PreviewLoop} \cup Stills

VARIABLES
  frontCamera,       \* which camera: its stills are encoded here, the rear's by the sensor
  movie,             \* native_recording_stream
  opened,            \* the wrapper has a backend
  fds,               \* v4l2_fds: "zero" (as calloc left it), "open" or "closed"
  driver,            \* of each node: streaming, buffers requested
  todo,              \* of each actor: the operations it has still to do
  preview_enabled, preview_thread_started, preview_buffers, preview_memory,
  previewStarted,    \* the wrapper has a preview: previewStarted_
  previewLocked,     \* preview_mutex is held by preview_stop()
  recording_enabled, recording_buffers, recording_memory,
  picture_enabled, picture_thread_started, picture_thread_running,
  picture_mutex,     \* who holds it, or "nobody"
  picture_memory,    \* the pointer: the still whose buffer it maps, or 0
  mapped,            \* the stills whose buffer is mapped
  picture,           \* of each still: taken, its memories, its encoder
  stillActive,       \* the wrapper has a still under way
  mishaps,           \* what has gone wrong since the nodes were opened (ghost)
  nodeBudget

previewFlags == <<preview_enabled, preview_thread_started, preview_buffers, preview_memory>>
recordingFlags == <<recording_enabled, recording_buffers, recording_memory>>
pictureFlags == <<picture_enabled, picture_thread_started, picture_thread_running>>
pictureMaps == <<picture_memory, mapped>>
nodesVars == <<frontCamera, movie, opened, fds, driver, todo, previewFlags, previewStarted,
               previewLocked, recordingFlags, pictureFlags, picture_mutex, pictureMaps, picture, stillActive,
               mishaps, nodeBudget>>

NoPicture == [made |-> FALSE, memories |-> {}, encoder |-> FALSE]
Quiet == [streaming |-> FALSE, buffers |-> FALSE]

NodesInit ==
  /\ frontCamera \in BOOLEAN /\ movie \in (IF frontCamera THEN {FALSE} ELSE BOOLEAN)
  /\ opened = FALSE
  /\ fds = [n \in Nodes |-> "zero"] /\ driver = [n \in Nodes |-> Quiet]
  /\ todo = [a \in Actors |-> << >>]
  /\ preview_enabled = FALSE /\ preview_thread_started = FALSE
  /\ preview_buffers = FALSE /\ preview_memory = FALSE /\ previewStarted = FALSE
  /\ previewLocked = FALSE
  /\ recording_enabled = FALSE /\ recording_buffers = FALSE /\ recording_memory = FALSE
  /\ picture_enabled = FALSE /\ picture_thread_started = FALSE
  /\ picture_thread_running = FALSE
  /\ picture_mutex = "nobody" /\ picture_memory = 0 /\ mapped = {}
  /\ picture = [s \in Stills |-> NoPicture]
  /\ stillActive = FALSE /\ mishaps = {}
  /\ nodeBudget = [calls |-> MaxNodeCalls, faults |-> MaxNodeFaults]

-----------------------------------------------------------------------------
(* The calls.                                                               *)
Op(name, node, onFailure) == [op |-> name, node |-> node, onFailure |-> onFailure]
Do(name) == Op(name, 0, "ignore")
Try(name, node) == Op(name, node, "ignore")
Each(names, node, onFailure) == [i \in DOMAIN names |-> Op(names[i], node, onFailure)]

SelectInput(n, onFailure) ==
  Each(<<"open", "querycap", "enum_input", "s_input">>, n, onFailure)
InitCall == SelectInput(0, "deinit") \o SelectInput(2, "deinit") \o <<Do("opened")>>
Deinit == <<Do("picture_stop"), Do("preview_stop"), Do("recording_stop"),
            Try("close", 0), Try("close", 2), Do("freed")>>
ResetCall == <<Try("close", 2), Try("close", 0)>>
             \o SelectInput(0, "return") \o SelectInput(2, "return")

(* The size of the buffers, one QBUF per buffer and the three orientation    *)
(* controls are one operation each.                                         *)
PreviewStartOps ==
  <<Try("reqbufs0", 0)>>
  \o Each(<<"enum_fmt", "s_fmt", "s_ctrl", "reqbufs", "s_parm", "querybuf", "memory",
            "qbuf", "s_ctrl", "streamon">>, 0, "preview_error")
  \o <<Op("preview_thread", 0, "preview_error_on"), Do("started")>>
PreviewError ==
  <<Do("preview_reset"), Do("recording_stop"), Try("release", 0), Try("reqbufs0", 0)>>
(* Mutant of PreviewErrorOn: as if STREAMON had not been reached.           *)
PreviewErrorStreams == PreviewError
PreviewErrorOn ==
  <<Do("preview_reset"), Do("recording_stop"), Try("streamoff", 0), Try("release", 0),
    Try("reqbufs0", 0)>>
PreviewStopOps ==
  <<Do("preview_disable"), Do("preview_lock"), Do("preview_wait"), Do("recording_stop"),
    Try("streamoff", 0), Try("release", 0), Try("reqbufs0", 0), Do("preview_unlock")>>

RecordingStartOps ==
  Each(<<"enum_fmt", "s_fmt", "s_ctrl", "reqbufs", "querybuf", "memory", "qbuf", "s_ctrl",
         "streamon">>, 2, "recording_error")
  \o <<Do("recording_on")>>
RecordingError ==
  <<Do("recording_off"), Try("release", 2), Try("reqbufs0", 2), Do("preview_failed")>>
RecordingStopOps ==
  <<Do("recording_off"), Try("streamoff", 2), Try("release", 2), Try("reqbufs0", 2)>>

PictureStart ==
  <<Do("preview_stop")>>
  \o Each(<<"enum_fmt", "s_fmt", "reqbufs1", "querybuf">>, 0, "return")
  \o <<Do("release_old")>>
  \o Each(<<"map_picture", "qbuf", "streamon", "capture", "picture_thread">>, 0, "return")
  \o <<Do("taken")>>
FlushCall == <<Do("picture_stop"), Do("preview_stop")>>
(* Mutant of PictureStop: the buffer is released before the thread is gone. *)
PictureStopReleases ==
  <<Do("picture_lock"), Do("picture_disable"), Do("picture_unlock"), Do("release_picture"),
    Do("clear_picture"), Do("picture_wait")>>
PictureStop ==
  <<Do("picture_lock"), Do("picture_disable"), Do("picture_unlock"), Do("picture_wait")>>

(* exynos_camera_picture() and the rest of its thread.  The sensor of the    *)
(* rear camera encodes; the encoder is opened and closed for each image of   *)
(* the front camera.                                                        *)
Encode(what) ==
  IF frontCamera
  THEN <<Op("encoder_open", 0, "picture_error"), Op("encode", 0, "encoder_error"),
         Op(what, 0, "encoder_error"), Do("encoder_close")>>
  ELSE <<Op(what, 0, "picture_error")>>
ThreadEnd ==
  <<Do("release_picture"), Do("clear_picture"), Do("picture_unlock"), Do("not_running"),
    Do("picture_disable"), Do("not_started")>>
PictureThread ==
  <<Do("picture_lock")>>
  \o Each(<<"poll", "streamoff", "dqbuf">>, 0, "picture_failed")
  \o (IF frontCamera THEN << >> ELSE <<Op("g_ctrl", 0, "picture_failed")>>)
  \o Encode("thumbnail") \o Encode("image")
  \o <<Op("exif", 0, "picture_error"), Op("data", 0, "picture_error"), Do("callbacks"),
       Do("release_data")>>
  \o ThreadEnd
(* Mutant of PictureError: the memories are released on success only.       *)
PictureErrorKeeps == <<Do("picture_disable")>> \o ThreadEnd
PictureError == <<Do("release_data"), Do("picture_disable")>> \o ThreadEnd

After(onFailure, rest) ==
  CASE onFailure = "ignore" -> rest
    [] onFailure = "return" -> <<Do("returned")>>
    [] onFailure = "deinit" -> Deinit
    [] onFailure = "preview_error" -> PreviewError
    [] onFailure = "preview_error_on" -> PreviewErrorOn
    [] onFailure = "recording_error" -> RecordingError
    [] onFailure = "picture_failed" -> <<Do("picture_disable")>> \o ThreadEnd
    [] onFailure = "picture_error" -> PictureError
    [] onFailure = "encoder_error" -> <<Do("encoder_close")>> \o PictureError

-----------------------------------------------------------------------------
(* What an actor is about to do, and a step of it.                          *)

(* The failures that nobody cleans up after: a picture that times out, a     *)
(* STREAMOFF refused, a picture_start() that stops after STREAMON, a picture *)
(* thread that is cancelled before it looks, overtaken or given up; and      *)
(* those of picture_start() between the mapping and STREAMON.               *)
Unclean == {"poll", "streamoff", "capture", "picture_thread", "overlapped", "cancelled",
            "outlived"}
Unmapped == {"qbuf", "streamon"}
At(a, ops) == todo[a] # << >> /\ Head(todo[a]).op \in ops
Goes(a) == todo' = [todo EXCEPT ![a] = Tail(@)]
GoesOn(a, first) == todo' = [todo EXCEPT ![a] = first \o Tail(@)]
Fails(a) == todo' = [todo EXCEPT ![a] = After(Head(@).onFailure, Tail(@))]
NodeFault(name) ==
  /\ name \in NodeFaults /\ nodeBudget.faults > 0
  /\ nodeBudget' = [nodeBudget EXCEPT !.faults = @ - 1]
  /\ mishaps' = mishaps \cup ({name} \cap (Unclean \cup Unmapped))
NoFault == UNCHANGED <<mishaps, nodeBudget>>

keptByNodes == <<frontCamera, movie>>
keptByFlags == <<keptByNodes, opened, fds, driver, pictureMaps, picture, mishaps, nodeBudget>>

-----------------------------------------------------------------------------
(* One V4L2 operation.                                                      *)
BufferIoctls == {"reqbufs", "reqbufs1", "reqbufs0", "querybuf", "qbuf", "dqbuf"}
StreamIoctls == {"streamon", "streamoff", "poll"}
FormatIoctls == {"enum_fmt", "s_fmt"}
InputIoctls == {"querycap", "enum_input", "s_input"}
ControlIoctls == {"s_ctrl", "g_ctrl", "s_parm", "capture"}
Ioctls == {"open", "close"} \cup BufferIoctls \cup StreamIoctls \cup FormatIoctls
          \cup InputIoctls \cup ControlIoctls
Accepts(o) ==
  /\ o.op \in {"open", "close"} \/ fds[o.node] = "open"
  /\ o.op \in {"s_fmt", "reqbufs", "reqbufs1", "reqbufs0"} => ~driver[o.node].streaming
  /\ o.op \in {"querybuf", "qbuf", "dqbuf", "streamon"} => driver[o.node].buffers
  /\ o.op = "poll" => driver[o.node].streaming

Reached(o) ==
  /\ driver' = [driver EXCEPT ![o.node] =
       CASE o.op \in {"open", "close"} -> Quiet
         [] o.op \in {"reqbufs", "reqbufs1"} -> [@ EXCEPT !.buffers = TRUE]
         [] o.op = "reqbufs0" -> [@ EXCEPT !.buffers = FALSE]
         [] o.op = "streamon" -> [@ EXCEPT !.streaming = TRUE]
         [] o.op = "streamoff" -> [@ EXCEPT !.streaming = FALSE]
         [] OTHER -> @]
  /\ fds' = [fds EXCEPT ![o.node] = CASE o.op = "open" -> "open"
                                      [] o.op = "close" -> "closed"
                                      [] OTHER -> @]

(* preview_buffers_count and recording_buffers_count: set to the number of   *)
(* a REQBUFS that succeeded, to 0 beside one for none whatever it returns.  *)
Counts(o, accepted) ==
  LET Counted(n, old) ==
        CASE o.node = n /\ o.op = "reqbufs" /\ accepted -> TRUE
          [] o.node = n /\ o.op = "reqbufs0" -> FALSE
          [] OTHER -> old IN
  /\ preview_buffers' = Counted(0, preview_buffers)
  /\ recording_buffers' = Counted(2, recording_buffers)

NodeOperation(a) ==
  LET o == Head(todo[a]) IN
  /\ At(a, Ioctls)
  /\ \/ Accepts(o) /\ Reached(o) /\ Counts(o, TRUE) /\ Goes(a) /\ NoFault
     \/ /\ Counts(o, FALSE) /\ Fails(a) /\ UNCHANGED <<fds, driver>>
        /\ IF Accepts(o) THEN NodeFault(o.op) ELSE NoFault
  /\ UNCHANGED <<keptByNodes, opened, preview_enabled, preview_thread_started, preview_memory,
                 previewStarted, previewLocked, recording_enabled, recording_memory,
                 pictureFlags, picture_mutex, pictureMaps, picture, stillActive>>

-----------------------------------------------------------------------------
(* The mappings of the buffers.                                             *)

(* request_memory() for the preview's or the movie's buffers, which releases *)
(* an old one first; their release.                                         *)
MapBuffers(a) ==
  LET n == Head(todo[a]).node IN
  /\ At(a, {"memory", "release"})
  /\ \/ /\ At(a, {"memory"}) /\ driver[n].buffers /\ Goes(a) /\ NoFault
        /\ IF n = 0 THEN preview_memory' = TRUE /\ UNCHANGED recording_memory
                    ELSE recording_memory' = TRUE /\ UNCHANGED preview_memory
     \/ /\ \/ At(a, {"memory"}) /\ NodeFault("memory") /\ Fails(a)
           \/ At(a, {"release"}) /\ Goes(a) /\ NoFault
        /\ IF n = 0 THEN preview_memory' = FALSE /\ UNCHANGED recording_memory
                    ELSE recording_memory' = FALSE /\ UNCHANGED preview_memory
  /\ UNCHANGED <<keptByNodes, opened, fds, driver, preview_enabled, preview_thread_started,
                 preview_buffers, previewStarted, previewLocked, recording_enabled,
                 recording_buffers, pictureFlags, picture_mutex, pictureMaps, picture,
                 stillActive>>

CurrentStill == Max({0} \cup { s \in Stills : picture[s].made })

(* picture_memory has no lock between picture_start() and a thread: the one   *)
(* releases and replaces it, the other releases it and clears the pointer.  *)
MapPicture(a) ==
  /\ At(a, {"release_old", "map_picture", "release_picture", "clear_picture"})
  /\ \/ /\ At(a, {"release_old"}) /\ Goes(a) /\ NoFault
        /\ mapped' = mapped \ {picture_memory} /\ UNCHANGED picture_memory
     \/ /\ At(a, {"map_picture"}) /\ Goes(a) /\ NoFault
        /\ picture_memory' = CurrentStill /\ mapped' = mapped \cup {CurrentStill}
     \/ /\ At(a, {"map_picture"}) /\ NodeFault("map_picture") /\ Fails(a)
        /\ picture_memory' = 0 /\ UNCHANGED mapped
     \/ /\ At(a, {"release_picture"}) /\ NoFault
        /\ mapped' = mapped \ {picture_memory} /\ UNCHANGED picture_memory
        /\ todo' = [todo EXCEPT ![a] = IF picture_memory = 0 THEN Tail(Tail(@)) ELSE Tail(@)]
     \/ /\ At(a, {"clear_picture"}) /\ Goes(a) /\ NoFault
        /\ picture_memory' = 0 /\ UNCHANGED mapped
  /\ UNCHANGED <<keptByNodes, opened, fds, driver, previewFlags, previewStarted, previewLocked,
                 recordingFlags, pictureFlags, picture_mutex, picture, stillActive>>

-----------------------------------------------------------------------------
(* Flags and locks.                                                         *)
Unless(a, ops, old) == old /\ ~At(a, ops)

SetFlags(a) ==
  /\ At(a, {"preview_reset", "preview_disable", "preview_failed", "started", "recording_on",
            "recording_off", "picture_disable", "not_running", "not_started", "taken",
            "returned"})
  /\ preview_enabled' =
       Unless(a, {"preview_reset", "preview_disable", "preview_failed"}, preview_enabled)
  /\ preview_thread_started' = Unless(a, {"preview_reset"}, preview_thread_started)
  /\ previewStarted' = (previewStarted \/ At(a, {"started"}))
  /\ recording_enabled' = (Unless(a, {"recording_off"}, recording_enabled)
                           \/ At(a, {"recording_on"}))
  /\ picture_enabled' = Unless(a, {"picture_disable"}, picture_enabled)
  /\ picture_thread_running' = Unless(a, {"not_running"}, picture_thread_running)
  /\ picture_thread_started' = Unless(a, {"not_started"}, picture_thread_started)
  /\ stillActive' = Unless(a, {"returned"}, stillActive)
  /\ Goes(a)
  /\ UNCHANGED <<keptByFlags, preview_buffers, preview_memory, previewLocked, recording_buffers,
                 recording_memory, picture_mutex>>

(* preview_mutex: the preview thread holds it while it arms node 2.          *)
PreviewLock(a) ==
  /\ At(a, {"preview_lock", "preview_unlock"})
  /\ At(a, {"preview_lock"}) => todo[PreviewLoop] = << >>
  /\ previewLocked' = At(a, {"preview_lock"})
  /\ Goes(a)
  /\ UNCHANGED <<keptByFlags, previewFlags, previewStarted, recordingFlags, pictureFlags,
                 picture_mutex, stillActive>>
PictureLock(a) ==
  /\ At(a, {"picture_lock", "picture_unlock"})
  /\ IF At(a, {"picture_lock"}) THEN picture_mutex = "nobody" /\ picture_mutex' = "held"
                                ELSE picture_mutex' = "nobody"
  /\ Goes(a)
  /\ UNCHANGED <<keptByFlags, previewFlags, previewStarted, previewLocked, recordingFlags,
                 pictureFlags, stillActive>>

(* The stops wait for their thread, for 3 s and for 1 s.                     *)
Wait(a) ==
  /\ At(a, {"preview_wait", "picture_wait"})
  /\ mishaps' = IF At(a, {"picture_wait"}) /\ (picture_thread_running \/ picture_thread_started)
                THEN mishaps \cup {"outlived"} ELSE mishaps
  /\ Goes(a)
  /\ UNCHANGED <<keptByNodes, opened, fds, driver, previewFlags, previewStarted, previewLocked,
                 recordingFlags, pictureFlags, picture_mutex, pictureMaps, picture, stillActive,
                 nodeBudget>>

(* A stop within a call looks first whether there is anything to stop.       *)
HasPreview == \/ preview_enabled \/ preview_thread_started \/ preview_memory
              \/ preview_buffers \/ recording_enabled
HasRecording == recording_enabled \/ recording_memory \/ recording_buffers
HasPicture == picture_enabled \/ picture_thread_started
Nested(a) ==
  /\ \/ At(a, {"preview_stop"}) /\ GoesOn(a, IF HasPreview THEN PreviewStopOps ELSE << >>)
     \/ At(a, {"recording_stop"}) /\ GoesOn(a, IF HasRecording THEN RecordingStopOps ELSE << >>)
     \/ At(a, {"picture_stop"}) /\ GoesOn(a, IF HasPicture THEN PictureStop ELSE << >>)
  /\ UNCHANGED <<keptByFlags, previewFlags, previewStarted, previewLocked, recordingFlags,
                 pictureFlags, picture_mutex, stillActive>>
-----------------------------------------------------------------------------
(* The threads.                                                             *)
PreviewThread(a) ==
  /\ At(a, {"preview_thread"})
  /\ \/ /\ preview_enabled' = TRUE /\ preview_thread_started' = TRUE /\ Goes(a) /\ NoFault
     \/ /\ NodeFault("preview_thread") /\ Fails(a)
        /\ UNCHANGED <<preview_enabled, preview_thread_started>>
  /\ UNCHANGED <<keptByNodes, opened, fds, driver, preview_buffers, preview_memory,
                 previewStarted, previewLocked, recordingFlags, pictureFlags, picture_mutex,
                 pictureMaps, picture, stillActive>>

(* The check for a running thread comes after CAPTURE; one that has not run  *)
(* yet, or is past it, is not noticed.                                      *)
PictureThreadStarts(a) ==
  /\ At(a, {"picture_thread"})
  /\ \/ /\ ~picture_thread_running /\ NoFault
        /\ picture_enabled' = TRUE /\ picture_thread_started' = TRUE
        /\ todo' = [todo EXCEPT ![a] = Tail(@), ![CurrentStill] = <<Do("picture_begin")>>]
     \/ /\ IF picture_thread_running THEN NoFault ELSE NodeFault("picture_thread")
        /\ Fails(a) /\ UNCHANGED <<picture_enabled, picture_thread_started>>
  /\ UNCHANGED <<keptByNodes, opened, fds, driver, previewFlags, previewStarted, previewLocked,
                 recordingFlags, picture_thread_running, picture_mutex, pictureMaps, picture,
                 stillActive>>
PictureThreadBegins(s) ==
  /\ At(s, {"picture_begin"})
  /\ picture_thread_running' = TRUE
  /\ IF picture_enabled
     THEN GoesOn(s, PictureThread) /\ UNCHANGED mishaps
     ELSE /\ GoesOn(s, <<Do("not_running"), Do("picture_disable"), Do("not_started")>>)
          /\ mishaps' = mishaps \cup {"cancelled"}
  /\ UNCHANGED <<keptByNodes, opened, fds, driver, previewFlags, previewStarted, previewLocked,
                 recordingFlags, picture_enabled, picture_thread_started, picture_mutex,
                 pictureMaps, picture, stillActive, nodeBudget>>

(* The encoder, and the memories the wrapper gives as long as it has a        *)
(* backend: the thumbnail, the image, the EXIF header and all of it.        *)
Memories == {"thumbnail", "image", "exif", "data"}
Fill(s) ==
  /\ At(s, Memories \cup {"encoder_open", "encode", "encoder_close", "release_data"})
  /\ LET name == Head(todo[s]).op IN
     \/ /\ name \in Memories => opened
        /\ picture' = [picture EXCEPT
             ![s].memories = IF name \in Memories THEN @ \cup {name}
                             ELSE IF name = "release_data" THEN {} ELSE @,
             ![s].encoder = (@ \/ name = "encoder_open") /\ name # "encoder_close"]
        /\ Goes(s) /\ NoFault
     \/ /\ IF name \in Memories /\ ~opened THEN NoFault ELSE NodeFault(name)
        /\ Fails(s) /\ UNCHANGED picture
  /\ UNCHANGED <<keptByNodes, opened, fds, driver, previewFlags, previewStarted, previewLocked,
                 recordingFlags, pictureFlags, picture_mutex, pictureMaps, stillActive>>
Callbacks(s) ==
  /\ At(s, {"callbacks"})
  /\ stillActive' = FALSE
  /\ Goes(s)
  /\ UNCHANGED <<keptByFlags, previewFlags, previewStarted, previewLocked, recordingFlags,
                 pictureFlags, picture_mutex>>

PreviewIsOn == preview_enabled /\ preview_thread_started /\ todo[PreviewLoop] = << >>
PreviewArms ==
  /\ PreviewIsOn /\ movie /\ ~recording_enabled /\ ~previewLocked
  /\ todo' = [todo EXCEPT ![PreviewLoop] = RecordingStartOps]
  /\ recording_buffers' = FALSE
  /\ UNCHANGED <<keptByFlags, previewFlags, previewStarted, previewLocked, recording_enabled,
                 recording_memory, pictureFlags, picture_mutex, stillActive>>
PreviewThreadFails ==
  /\ PreviewIsOn /\ NodeFault("preview")
  /\ preview_enabled' = FALSE
  /\ UNCHANGED <<keptByNodes, opened, fds, driver, todo, preview_thread_started,
                 preview_buffers, preview_memory, previewStarted, previewLocked,
                 recordingFlags, pictureFlags, picture_mutex, pictureMaps, picture, stillActive>>
PreviewThreadEnds ==
  /\ preview_thread_started /\ ~preview_enabled /\ todo[PreviewLoop] = << >>
  /\ preview_thread_started' = FALSE
  /\ UNCHANGED <<keptByFlags, todo, preview_enabled, preview_buffers, preview_memory,
                 previewStarted, previewLocked, recordingFlags, pictureFlags, picture_mutex,
                 stillActive>>

-----------------------------------------------------------------------------
(* The wrapper's calls, one at a time.                                      *)
NoCall == todo[Caller] = << >>
Calls(ops) ==
  /\ NoCall /\ nodeBudget.calls > 0
  /\ nodeBudget' = [nodeBudget EXCEPT !.calls = @ - 1]
  /\ todo' = [todo EXCEPT ![Caller] = ops]
keptByCalls == <<keptByNodes, fds, driver, previewFlags, previewLocked, recordingFlags,
                 pictureFlags, picture_mutex, pictureMaps>>
NoThreads ==
  /\ ~preview_thread_started /\ \A s \in Stills : todo[s] = << >>

OpenBackend ==
  /\ ~opened /\ NoThreads
  /\ Calls(InitCall)
  /\ UNCHANGED <<keptByCalls, opened, previewStarted, picture, stillActive, mishaps>>
(* Closing flushes; then the callbacks are taken away, before the threads    *)
(* are stopped once more.                                                   *)
CloseBackend ==
  /\ opened /\ Calls(FlushCall \o <<Do("silenced")>> \o Deinit)
  /\ previewStarted' = FALSE /\ stillActive' = FALSE
  /\ UNCHANGED <<keptByCalls, opened, picture, mishaps>>
(* backend_open() has a backend; backend_close() and an open that fails free *)
(* it, but nothing unmaps picture_memory.                                   *)
OpenedOrFreed ==
  /\ At(Caller, {"opened", "silenced", "freed"})
  /\ Goes(Caller)
  /\ opened' = At(Caller, {"opened"})
  /\ IF ~At(Caller, {"freed"})
     THEN UNCHANGED <<fds, previewFlags, recordingFlags, pictureFlags, picture_memory>>
     ELSE /\ fds' = [n \in Nodes |-> "zero"]
          /\ preview_enabled' = FALSE /\ preview_thread_started' = FALSE
          /\ preview_buffers' = FALSE /\ preview_memory' = FALSE
          /\ recording_enabled' = FALSE /\ recording_buffers' = FALSE
          /\ recording_memory' = FALSE
          /\ picture_enabled' = FALSE /\ picture_thread_started' = FALSE
          /\ picture_thread_running' = FALSE /\ picture_memory' = 0
  /\ UNCHANGED <<keptByNodes, driver, previewStarted, previewLocked, picture_mutex, mapped,
                 picture, stillActive, mishaps, nodeBudget>>
ResetNodes ==
  /\ opened /\ ~preview_enabled /\ ~preview_thread_started /\ ~recording_enabled
  /\ Calls(ResetCall)
  /\ UNCHANGED <<keptByCalls, opened, previewStarted, picture, stillActive, mishaps>>

(* A second preview thread beside one that outlived its stop is the subject  *)
(* of RecordingBuffers.                                                     *)
StartPreview ==
  /\ opened /\ ~preview_enabled /\ ~preview_thread_started
  /\ ~previewStarted /\ ~stillActive
  /\ Calls(PreviewStartOps)
  /\ UNCHANGED <<keptByCalls, opened, previewStarted, picture, stillActive, mishaps>>
Flush ==
  /\ opened /\ Calls(FlushCall)
  /\ stillActive' = FALSE /\ previewStarted' = FALSE
  /\ UNCHANGED <<keptByCalls, opened, picture, mishaps>>

TakePicture ==
  /\ opened /\ ~stillActive /\ CurrentStill + 1 \in Stills
  /\ Calls(PictureStart)
  /\ picture' = [picture EXCEPT ![CurrentStill + 1].made = TRUE]
  /\ stillActive' = TRUE /\ previewStarted' = FALSE
  /\ mishaps' = IF \A s \in Stills : todo[s] = << >> THEN mishaps ELSE mishaps \cup {"overlapped"}
  /\ UNCHANGED <<keptByCalls, opened>>

NodesNext ==
  \/ \E a \in Actors :
       \/ NodeOperation(a) \/ MapBuffers(a) \/ MapPicture(a) \/ SetFlags(a)
       \/ PreviewLock(a) \/ PictureLock(a) \/ Wait(a) \/ Nested(a)
       \/ PreviewThread(a) \/ PictureThreadStarts(a)
  \/ \E s \in Stills : PictureThreadBegins(s) \/ Fill(s) \/ Callbacks(s)
  \/ PreviewArms \/ PreviewThreadFails \/ PreviewThreadEnds
  \/ OpenBackend \/ CloseBackend \/ OpenedOrFreed \/ ResetNodes
  \/ StartPreview \/ Flush \/ TakePicture

NodesSpec == NodesInit /\ [][NodesNext]_nodesVars

-----------------------------------------------------------------------------
(* A call that failed anywhere, or succeeded, has given everything back: with*)
(* no call under way and no preview, no node streams and nothing is mapped. *)
(* The failures that nobody cleans up after are named above.                *)
NodesAreFree ==
  (\A a \in Actors : todo[a] = << >>) /\ ~previewStarted =>
    /\ (driver[0].streaming \/ driver[2].streaming) => mishaps \cap Unclean # {}
    /\ ~preview_memory /\ ~recording_memory
    /\ mapped # {} => mishaps \cap (Unclean \cup Unmapped) # {}

Reads(s) == At(s, IF frontCamera THEN {"encode"} ELSE {"thumbnail", "image"})

(* A picture thread reads the buffer of its own still, which is still mapped,*)
(* whatever the calls do beside it (exynos_camera_picture), unless a second  *)
(* still was taken or the backend closed before it was through.             *)
PictureReadsItsOwn ==
  \A s \in Stills : Reads(s) =>
    \/ picture_memory = s /\ s \in mapped
    \/ mishaps \cap {"outlived", "overlapped"} # {}

LaidOut == [a \in StillAttributes |-> WellFormed(a)]

(* What the application gets is a whole picture, its EXIF header within the  *)
(* bounds of what it was laid out in, and a thread that is through holds     *)
(* neither memory nor the encoder, wherever it failed.                      *)
StillIsWhole ==
  \A s \in Stills :
    /\ At(s, {"callbacks"}) =>
         picture[s].memories = Memories /\ ~picture[s].encoder
         /\ \A a \in StillAttributes : LaidOut[a]
    /\ todo[s] = << >> => picture[s].memories = {} /\ ~picture[s].encoder
=============================================================================
