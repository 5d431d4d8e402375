--------------------------- MODULE StillProofs ------------------------------
(***************************************************************************)
(* Proofs about CaptureNodes, for any number of stills, calls and failures. *)
(* An actor's todo is always what is left of one of a few programs: of the  *)
(* six a picture thread can be in (On), of the ten of the wrapper's call,   *)
(* after what is left of the stops within it (CallOn).  The place in the    *)
(* program says what the thread has allocated and whether it still needs    *)
(* its buffer; the place in the call says when a thread may start (Fresh)   *)
(* and that the backend is freed only when none is left, unless the stop    *)
(* gave up on one (Bad).                                                    *)
(***************************************************************************)
EXTENDS CaptureNodes, SequenceTheorems, TLAPS

(* What an operation can be, and what follows its failure.                   *)
OpNames ==
  Ioctls \cup Memories
  \cup {"memory", "release", "release_old", "map_picture", "release_picture", "clear_picture",
        "preview_reset", "preview_disable", "preview_failed", "started", "recording_on",
        "recording_off", "picture_disable", "not_running", "not_started", "taken", "returned",
        "preview_lock", "preview_unlock", "picture_lock", "picture_unlock", "preview_wait",
        "picture_wait", "preview_stop", "recording_stop", "picture_stop", "preview_thread",
        "picture_thread", "picture_begin", "encoder_open", "encode", "encoder_close",
        "release_data", "callbacks", "opened", "silenced", "freed"}
Outcomes == {"ignore", "return", "deinit", "preview_error", "preview_error_on",
             "recording_error", "picture_failed", "picture_error", "encoder_error"}
Ops == [op : OpNames, node : Nodes, onFailure : Outcomes]

(* What is left of P from its k-th operation on.                             *)
Rest(P, k) == SubSeq(P, k, Len(P))

LEMMA RestGoes ==
  ASSUME NEW P \in Seq(Ops), NEW k \in 1..Len(P)
  PROVE  /\ Rest(P, k) # << >> /\ Head(Rest(P, k)) = P[k] /\ P[k] \in Ops
         /\ Tail(Rest(P, k)) = Rest(P, k + 1)
<1>1. Len(P) \in Nat /\ Len(P) \in k..Len(P)
  OBVIOUS
<1>2. Len(Rest(P, k)) = Len(P) - k + 1
  BY <1>1, SubSeqProperties, ElementOfSeq DEF Rest
<1>3. Head(SubSeq(P, k, Len(P))) = P[k] /\ Tail(SubSeq(P, k, Len(P))) = SubSeq(P, k + 1, Len(P))
  BY <1>1, HeadTailOfSubSeq
<1>4. Rest(P, k) # << >>
  BY <1>1, <1>2
<1> QED
  BY <1>3, <1>4, ElementOfSeq DEF Rest

LEMMA RestEnds ==
  ASSUME NEW P \in Seq(Ops)
  PROVE  Rest(P, 1) = P /\ Rest(P, Len(P) + 1) = << >> /\ Len(P) \in Nat
  BY SubSeqFull, SubSeqEmpty DEF Rest

(* u is s followed by t, operation by operation.                             *)
Joins(s, t, u) ==
  /\ s \in Seq(Ops) /\ t \in Seq(Ops) /\ u \in Seq(Ops)
  /\ Len(u) = Len(s) + Len(t)
  /\ \A i \in 1..Len(s) : u[i] = s[i]
  /\ \A i \in 1..Len(t) : u[Len(s) + i] = t[i]

LEMMA Joined ==
  ASSUME NEW s, NEW t, NEW u, Joins(s, t, u)
  PROVE  s \o t = u
<1> USE DEF Joins
<1>1. /\ s \o t \in Seq(Ops) /\ Len(s \o t) = Len(s) + Len(t)
      /\ \A i \in 1..Len(s) + Len(t) : (s \o t)[i] = IF i <= Len(s) THEN s[i] ELSE t[i - Len(s)]
  BY ConcatProperties
<1>2. Len(s) \in Nat /\ Len(t) \in Nat
  OBVIOUS
<1>3. ASSUME NEW i \in 1..Len(u) PROVE (s \o t)[i] = u[i]
  <2>1. CASE i <= Len(s)
    BY <1>1, <1>2, <2>1
  <2>2. CASE ~(i <= Len(s))
    <3>1. i - Len(s) \in 1..Len(t) /\ Len(s) + (i - Len(s)) = i
      BY <1>2, <2>2
    <3>2. u[Len(s) + (i - Len(s))] = t[i - Len(s)]
      BY <3>1
    <3> QED
      BY <1>1, <1>2, <2>2, <3>1, <3>2
  <2> QED
    BY <2>1, <2>2
<1> QED
  BY <1>1, <1>3, SeqEqual

-----------------------------------------------------------------------------
(* The programs of a picture thread, operation by operation.                 *)
Failing(name) == Op(name, 0, "picture_failed")
Erring(name) == Op(name, 0, "picture_error")
Closing(name) == Op(name, 0, "encoder_error")

FrontThread ==
  <<Do("picture_lock"), Failing("poll"), Failing("streamoff"), Failing("dqbuf"),
    Erring("encoder_open"), Closing("encode"), Closing("thumbnail"), Do("encoder_close"),
    Erring("encoder_open"), Closing("encode"), Closing("image"), Do("encoder_close"),
    Erring("exif"), Erring("data"), Do("callbacks"), Do("release_data"),
    Do("release_picture"), Do("clear_picture"), Do("picture_unlock"), Do("not_running"),
    Do("picture_disable"), Do("not_started")>>
RearThread ==
  <<Do("picture_lock"), Failing("poll"), Failing("streamoff"), Failing("dqbuf"),
    Failing("g_ctrl"), Erring("thumbnail"), Erring("image"),
    Erring("exif"), Erring("data"), Do("callbacks"), Do("release_data"),
    Do("release_picture"), Do("clear_picture"), Do("picture_unlock"), Do("not_running"),
    Do("picture_disable"), Do("not_started")>>
FailedThread ==
  <<Do("picture_disable"), Do("release_picture"), Do("clear_picture"), Do("picture_unlock"),
    Do("not_running"), Do("picture_disable"), Do("not_started")>>
ErringThread ==
  <<Do("release_data"), Do("picture_disable"), Do("release_picture"), Do("clear_picture"),
    Do("picture_unlock"), Do("not_running"), Do("picture_disable"), Do("not_started")>>
ClosingThread ==
  <<Do("encoder_close"), Do("release_data"), Do("picture_disable"), Do("release_picture"),
    Do("clear_picture"), Do("picture_unlock"), Do("not_running"), Do("picture_disable"),
    Do("not_started")>>

Each3 == <<Failing("poll"), Failing("streamoff"), Failing("dqbuf")>>

LEMMA EndOfThread ==
  /\ <<Do("picture_disable")>> \o ThreadEnd = FailedThread
  /\ PictureError = ErringThread
  /\ <<Do("encoder_close")>> \o PictureError = ClosingThread
<1> USE DEF Joins, Ops, OpNames, Outcomes, Nodes, Op, Do, Ioctls, BufferIoctls, StreamIoctls, Memories
<1>1. Joins(<<Do("picture_disable")>>, ThreadEnd, FailedThread)
  BY DEF ThreadEnd, FailedThread
<1>2. Joins(<<Do("release_data"), Do("picture_disable")>>, ThreadEnd, ErringThread)
  BY DEF ThreadEnd, ErringThread
<1>3. Joins(<<Do("encoder_close")>>, ErringThread, ClosingThread)
  BY DEF ErringThread, ClosingThread
<1> HIDE DEF Joins, Do
<1>4. PictureError = ErringThread
  BY <1>2, Joined DEF PictureError
<1> QED
  BY <1>1, <1>3, <1>4, Joined

LEMMA FrontIs ==
  ASSUME frontCamera
  PROVE  PictureThread = FrontThread
<1> DEFINE A1 == <<Do("picture_lock"), Failing("poll"), Failing("streamoff"), Failing("dqbuf")>>
           E1 == <<Erring("encoder_open"), Closing("encode"), Closing("thumbnail"), Do("encoder_close")>>
           A2 == <<Do("picture_lock"), Failing("poll"), Failing("streamoff"), Failing("dqbuf"),
                   Erring("encoder_open"), Closing("encode"), Closing("thumbnail"), Do("encoder_close")>>
           E2 == <<Erring("encoder_open"), Closing("encode"), Closing("image"), Do("encoder_close")>>
           A3 == <<Do("picture_lock"), Failing("poll"), Failing("streamoff"), Failing("dqbuf"),
                   Erring("encoder_open"), Closing("encode"), Closing("thumbnail"), Do("encoder_close"),
                   Erring("encoder_open"), Closing("encode"), Closing("image"), Do("encoder_close")>>
           E3 == <<Erring("exif"), Erring("data"), Do("callbacks"), Do("release_data")>>
           A4 == <<Do("picture_lock"), Failing("poll"), Failing("streamoff"), Failing("dqbuf"),
                   Erring("encoder_open"), Closing("encode"), Closing("thumbnail"), Do("encoder_close"),
                   Erring("encoder_open"), Closing("encode"), Closing("image"), Do("encoder_close"),
                   Erring("exif"), Erring("data"), Do("callbacks"), Do("release_data")>>
<1>1. Each(<<"poll", "streamoff", "dqbuf">>, 0, "picture_failed") = Each3
  BY DEF Each, Each3, Failing
<1>2. Encode("thumbnail") = E1 /\ Encode("image") = E2
  BY DEF Encode, Erring, Closing
<1>3. Joins(<<Do("picture_lock")>>, Each3, A1) /\ Joins(A1, E1, A2)
  BY DEF Joins, Ops, OpNames, Outcomes, Nodes, Op, Do, Ioctls, BufferIoctls, StreamIoctls, Memories,
         Each3, Failing, Erring, Closing
<1>4. Joins(A2, E2, A3) /\ Joins(A3, E3, A4)
  BY DEF Joins, Ops, OpNames, Outcomes, Nodes, Op, Do, Ioctls, BufferIoctls, StreamIoctls, Memories,
         Failing, Erring, Closing
<1>5. Joins(A4, ThreadEnd, FrontThread)
  BY DEF Joins, Ops, OpNames, Outcomes, Nodes, Op, Do, Ioctls, BufferIoctls, StreamIoctls, Memories,
         Failing, Erring, Closing, FrontThread, ThreadEnd
<1>6. PictureThread = ((((<<Do("picture_lock")>> \o Each3) \o << >>) \o E1) \o E2) \o E3 \o ThreadEnd
  BY <1>1, <1>2 DEF PictureThread, Erring
<1> HIDE DEF A1, A2, A3, A4, E1, E2, E3
<1>7. A1 \o << >> = A1
  BY <1>3, ConcatEmptySeq DEF Joins
<1>8. <<Do("picture_lock")>> \o Each3 = A1 /\ A1 \o E1 = A2 /\ A2 \o E2 = A3
  BY <1>3, <1>4, Joined
<1>9. A3 \o E3 = A4 /\ A4 \o ThreadEnd = FrontThread
  BY <1>4, <1>5, Joined
<1> QED
  BY <1>6, <1>7, <1>8, <1>9

LEMMA RearIs ==
  ASSUME ~frontCamera
  PROVE  PictureThread = RearThread
<1> DEFINE A1 == <<Do("picture_lock"), Failing("poll"), Failing("streamoff"), Failing("dqbuf")>>
           A2 == <<Do("picture_lock"), Failing("poll"), Failing("streamoff"), Failing("dqbuf"),
                   Failing("g_ctrl")>>
           A3 == <<Do("picture_lock"), Failing("poll"), Failing("streamoff"), Failing("dqbuf"),
                   Failing("g_ctrl"), Erring("thumbnail")>>
           A4 == <<Do("picture_lock"), Failing("poll"), Failing("streamoff"), Failing("dqbuf"),
                   Failing("g_ctrl"), Erring("thumbnail"), Erring("image")>>
           E5 == <<Erring("exif"), Erring("data"), Do("callbacks"), Do("release_data")>>
           A5 == <<Do("picture_lock"), Failing("poll"), Failing("streamoff"), Failing("dqbuf"),
                   Failing("g_ctrl"), Erring("thumbnail"), Erring("image"),
                   Erring("exif"), Erring("data"), Do("callbacks"), Do("release_data")>>
<1>1. Each(<<"poll", "streamoff", "dqbuf">>, 0, "picture_failed") = Each3
  BY DEF Each, Each3, Failing
<1>2. Encode("thumbnail") = <<Erring("thumbnail")>> /\ Encode("image") = <<Erring("image")>>
  BY DEF Encode, Erring
<1>3. Joins(<<Do("picture_lock")>>, Each3, A1) /\ Joins(A1, <<Failing("g_ctrl")>>, A2)
  BY DEF Joins, Ops, OpNames, Outcomes, Nodes, Op, Do, Ioctls, BufferIoctls, StreamIoctls, ControlIoctls, Memories,
         Each3, Failing, Erring
<1>4. Joins(A2, <<Erring("thumbnail")>>, A3) /\ Joins(A3, <<Erring("image")>>, A4)
  BY DEF Joins, Ops, OpNames, Outcomes, Nodes, Op, Do, Ioctls, BufferIoctls, StreamIoctls, ControlIoctls, Memories,
         Failing, Erring
<1>5. Joins(A4, E5, A5) /\ Joins(A5, ThreadEnd, RearThread)
  BY DEF Joins, Ops, OpNames, Outcomes, Nodes, Op, Do, Ioctls, BufferIoctls, StreamIoctls, ControlIoctls, Memories,
         Failing, Erring, RearThread, ThreadEnd
<1>6. PictureThread = ((((<<Do("picture_lock")>> \o Each3) \o <<Failing("g_ctrl")>>)
                         \o <<Erring("thumbnail")>>) \o <<Erring("image")>>) \o E5 \o ThreadEnd
  BY <1>1, <1>2 DEF PictureThread, Erring, Failing
<1> HIDE DEF A1, A2, A3, A4, A5, E5
<1>7. <<Do("picture_lock")>> \o Each3 = A1 /\ A1 \o <<Failing("g_ctrl")>> = A2
  BY <1>3, Joined
<1>8. A2 \o <<Erring("thumbnail")>> = A3 /\ A3 \o <<Erring("image")>> = A4
  BY <1>4, Joined
<1>9. A4 \o E5 = A5 /\ A5 \o ThreadEnd = RearThread
  BY <1>5, Joined
<1> QED
  BY <1>6, <1>7, <1>8, <1>9

-----------------------------------------------------------------------------
(* What the thread of a still has at each operation.                         *)
ThreadPrograms == {"begin", "cancelled", "thread", "failed", "erring", "closing"}
BeginThread == <<Do("picture_begin")>>
CancelledThread == <<Do("not_running"), Do("picture_disable"), Do("not_started")>>
Thread(P) ==
  CASE P = "begin" -> BeginThread
    [] P = "cancelled" -> CancelledThread
    [] P = "thread" -> IF frontCamera THEN FrontThread ELSE RearThread
    [] P = "failed" -> FailedThread
    [] P = "erring" -> ErringThread
    [] P = "closing" -> ClosingThread

FrontMemories(k) ==
  CASE k \in 1..7 -> {}
    [] k \in 8..11 -> {"thumbnail"}
    [] k \in 12..13 -> {"thumbnail", "image"}
    [] k = 14 -> {"thumbnail", "image", "exif"}
    [] k \in 15..16 -> Memories
    [] k > 16 -> {}
RearMemories(k) ==
  CASE k \in 1..6 -> {}
    [] k = 7 -> {"thumbnail"}
    [] k = 8 -> {"thumbnail", "image"}
    [] k = 9 -> {"thumbnail", "image", "exif"}
    [] k \in 10..11 -> Memories
    [] k > 11 -> {}
Owns(P, k, memories, encoder) ==
  CASE P = "thread" -> IF frontCamera THEN /\ memories = FrontMemories(k)
                                           /\ encoder <=> k \in {6, 7, 8, 10, 11, 12}
                                      ELSE memories = RearMemories(k) /\ ~encoder
    [] P = "erring" -> ~encoder /\ (k > 1 => memories = {})
    [] P = "closing" -> (k > 1 => ~encoder) /\ (k > 2 => memories = {})
    [] OTHER -> memories = {} /\ ~encoder

(* The k-th operation of P for a still that has the memories and the encoder.*)
FillOps == Memories \cup {"encoder_open", "encode", "encoder_close", "release_data"}
ThreadOps ==
  FillOps \cup {"picture_begin", "picture_lock", "poll", "streamoff", "dqbuf", "g_ctrl", "callbacks",
                "release_picture", "clear_picture", "picture_unlock", "not_running",
                "picture_disable", "not_started"}
Filled(name, memories) ==
  IF name \in Memories THEN memories \cup {name} ELSE IF name = "release_data" THEN {} ELSE memories
FilledEncoder(name, encoder) == (encoder \/ name = "encoder_open") /\ name # "encoder_close"
Goes1(P, k, o, memories, encoder) ==
  /\ o.op \in ThreadOps
  /\ o.op = "picture_begin" <=> P = "begin"
  /\ o.op \notin FillOps => Owns(P, k + 1, memories, encoder)
  /\ o.op \in FillOps => Owns(P, k + 1, Filled(o.op, memories), FilledEncoder(o.op, encoder))
  /\ o.op = "release_picture" =>
       k + 1 <= Len(Thread(P)) /\ Owns(P, k + 2, memories, encoder)
  /\ o.op = "callbacks" => memories = Memories /\ ~encoder
Fails1(o, memories, encoder) ==
  \/ o.onFailure = "ignore" /\ (o.op \in FillOps => o.op \in {"encoder_close", "release_data"})
  \/ o.onFailure = "picture_failed" /\ memories = {} /\ ~encoder
  \/ o.onFailure = "picture_error" /\ ~encoder
  \/ o.onFailure = "encoder_error"

LEMMA ThreadsAre ==
  ASSUME NEW P \in ThreadPrograms
  PROVE  Thread(P) \in Seq(Ops) /\ Len(Thread(P)) \in 1..22
<1> USE DEF Ops, OpNames, Outcomes, Nodes, Op, Do, Ioctls, BufferIoctls, StreamIoctls, ControlIoctls,
            Memories, Failing, Erring, Closing
<1>1. FrontThread \in Seq(Ops) /\ Len(FrontThread) = 22
  BY DEF FrontThread
<1>2. RearThread \in Seq(Ops) /\ Len(RearThread) = 17
  BY DEF RearThread
<1>3. FailedThread \in Seq(Ops) /\ Len(FailedThread) = 7
  BY DEF FailedThread
<1>4. ErringThread \in Seq(Ops) /\ Len(ErringThread) = 8
  BY DEF ErringThread
<1>5. ClosingThread \in Seq(Ops) /\ Len(ClosingThread) = 9
  BY DEF ClosingThread
<1>6. BeginThread \in Seq(Ops) /\ Len(BeginThread) = 1
  BY DEF BeginThread
<1>7. CancelledThread \in Seq(Ops) /\ Len(CancelledThread) = 3
  BY DEF CancelledThread
<1> HIDE DEF Ops
<1> QED
  BY <1>1, <1>2, <1>3, <1>4, <1>5, <1>6, <1>7 DEF Thread, ThreadPrograms

LEMMA FrontGoes ==
  ASSUME frontCamera, NEW k \in 1..22, NEW memories, NEW encoder \in BOOLEAN,
         Owns("thread", k, memories, encoder)
  PROVE  /\ Goes1("thread", k, FrontThread[k], memories, encoder)
         /\ Fails1(FrontThread[k], memories, encoder)
<1>1. Thread("thread") = FrontThread /\ Len(FrontThread) = 22
  BY DEF Thread, FrontThread
<1>2. FrontThread[k] = CASE k = 1 -> Do("picture_lock") [] k = 2 -> Failing("poll")
    [] k = 3 -> Failing("streamoff") [] k = 4 -> Failing("dqbuf") [] k = 5 -> Erring("encoder_open")
    [] k = 6 -> Closing("encode") [] k = 7 -> Closing("thumbnail") [] k = 8 -> Do("encoder_close")
    [] k = 9 -> Erring("encoder_open") [] k = 10 -> Closing("encode") [] k = 11 -> Closing("image")
    [] k = 12 -> Do("encoder_close") [] k = 13 -> Erring("exif") [] k = 14 -> Erring("data")
    [] k = 15 -> Do("callbacks") [] k = 16 -> Do("release_data") [] k = 17 -> Do("release_picture")
    [] k = 18 -> Do("clear_picture") [] k = 19 -> Do("picture_unlock") [] k = 20 -> Do("not_running")
    [] k = 21 -> Do("picture_disable") [] k = 22 -> Do("not_started")
  BY DEF FrontThread
<1> DEFINE o == FrontThread[k]
<1>3. /\ o.op = CASE k = 1 -> "picture_lock" [] k = 2 -> "poll" [] k = 3 -> "streamoff"
                 [] k = 4 -> "dqbuf" [] k \in {5, 9} -> "encoder_open"
                 [] k \in {6, 10} -> "encode" [] k = 7 -> "thumbnail"
                 [] k \in {8, 12} -> "encoder_close" [] k = 11 -> "image" [] k = 13 -> "exif"
                 [] k = 14 -> "data" [] k = 15 -> "callbacks" [] k = 16 -> "release_data"
                 [] k = 17 -> "release_picture" [] k = 18 -> "clear_picture"
                 [] k = 19 -> "picture_unlock" [] k = 20 -> "not_running"
                 [] k = 21 -> "picture_disable" [] k = 22 -> "not_started"
      /\ o.onFailure = CASE k \in {2, 3, 4} -> "picture_failed"
                         [] k \in {5, 9, 13, 14} -> "picture_error"
                         [] k \in {6, 7, 10, 11} -> "encoder_error"
                         [] k \in {1, 8, 12} \cup (15..22) -> "ignore"
  BY <1>2 DEF Do, Op, Failing, Erring, Closing
<1> HIDE DEF o
<1>4. Goes1("thread", k, o, memories, encoder)
  <2>1. o.op \in ThreadOps /\ o.op # "picture_begin"
    <3>1. o.op \in {"picture_lock", "poll", "streamoff", "dqbuf", "encoder_open", "encode", "encoder_close", "thumbnail", "image", "exif", "data",
                   "callbacks", "release_data", "release_picture", "clear_picture", "picture_unlock",
                   "not_running", "picture_disable", "not_started"}
      BY <1>3
    <3> QED
      BY <3>1 DEF ThreadOps, FillOps, Memories
  <2>2. o.op \notin FillOps => Owns("thread", k + 1, memories, encoder)
    BY <1>3 DEF Owns, FrontMemories, FillOps, Memories
  <2>3. o.op \in FillOps =>
          Owns("thread", k + 1, Filled(o.op, memories), FilledEncoder(o.op, encoder))
    BY <1>3 DEF Owns, FrontMemories, Filled, FilledEncoder, FillOps, Memories
  <2>4. o.op = "release_picture" => k + 1 <= 22 /\ Owns("thread", k + 2, memories, encoder)
    BY <1>3 DEF Owns, FrontMemories
  <2>5. o.op = "callbacks" => memories = Memories /\ ~encoder
    BY <1>3 DEF Owns, FrontMemories
  <2> QED
    BY <1>1, <2>1, <2>2, <2>3, <2>4, <2>5 DEF Goes1
<1>5. Fails1(o, memories, encoder)
  BY <1>3 DEF Owns, FrontMemories, Fails1, FillOps, Memories
<1> QED
  BY <1>4, <1>5 DEF o

LEMMA RearGoes ==
  ASSUME ~frontCamera, NEW k \in 1..17, NEW memories, NEW encoder \in BOOLEAN,
         Owns("thread", k, memories, encoder)
  PROVE  /\ Goes1("thread", k, RearThread[k], memories, encoder)
         /\ Fails1(RearThread[k], memories, encoder)
<1>1. Thread("thread") = RearThread /\ Len(RearThread) = 17
  BY DEF Thread, RearThread
<1>2. RearThread[k] = CASE k = 1 -> Do("picture_lock") [] k = 2 -> Failing("poll")
    [] k = 3 -> Failing("streamoff") [] k = 4 -> Failing("dqbuf") [] k = 5 -> Failing("g_ctrl")
    [] k = 6 -> Erring("thumbnail") [] k = 7 -> Erring("image")
    [] k = 8 -> Erring("exif") [] k = 9 -> Erring("data")
    [] k = 10 -> Do("callbacks") [] k = 11 -> Do("release_data") [] k = 12 -> Do("release_picture")
    [] k = 13 -> Do("clear_picture") [] k = 14 -> Do("picture_unlock") [] k = 15 -> Do("not_running")
    [] k = 16 -> Do("picture_disable") [] k = 17 -> Do("not_started")
  BY DEF RearThread
<1> DEFINE o == RearThread[k]
<1>3. /\ o.op = CASE k = 1 -> "picture_lock" [] k = 2 -> "poll" [] k = 3 -> "streamoff"
                 [] k = 4 -> "dqbuf" [] k = 5 -> "g_ctrl"
                 [] k = 6 -> "thumbnail" [] k = 7 -> "image" [] k = 8 -> "exif"
                 [] k = 9 -> "data" [] k = 10 -> "callbacks" [] k = 11 -> "release_data"
                 [] k = 12 -> "release_picture"
                 [] k = 13 -> "clear_picture" [] k = 14 -> "picture_unlock"
                 [] k = 15 -> "not_running"
                 [] k = 16 -> "picture_disable" [] k = 17 -> "not_started"
      /\ o.onFailure = CASE k \in {2, 3, 4, 5} -> "picture_failed"
                         [] k \in {6, 7, 8, 9} -> "picture_error"
                         [] k \in {1} \cup (10..17) -> "ignore"
  BY <1>2 DEF Do, Op, Failing, Erring
<1> HIDE DEF o
<1>4. Goes1("thread", k, o, memories, encoder)
  <2>1. o.op \in ThreadOps /\ o.op # "picture_begin"
    <3>1. o.op \in {"picture_lock", "poll", "streamoff", "dqbuf", "g_ctrl", "thumbnail", "image", "exif", "data",
                   "callbacks", "release_data", "release_picture", "clear_picture", "picture_unlock",
                   "not_running", "picture_disable", "not_started"}
      BY <1>3
    <3> QED
      BY <3>1 DEF ThreadOps, FillOps, Memories
  <2>2. o.op \notin FillOps => Owns("thread", k + 1, memories, encoder)
    BY <1>3 DEF Owns, RearMemories, FillOps, Memories
  <2>3. o.op \in FillOps =>
          Owns("thread", k + 1, Filled(o.op, memories), FilledEncoder(o.op, encoder))
    BY <1>3 DEF Owns, RearMemories, Filled, FilledEncoder, FillOps, Memories
  <2>4. o.op = "release_picture" => k + 1 <= 17 /\ Owns("thread", k + 2, memories, encoder)
    BY <1>3 DEF Owns, RearMemories
  <2>5. o.op = "callbacks" => memories = Memories /\ ~encoder
    BY <1>3 DEF Owns, RearMemories
  <2> QED
    BY <1>1, <2>1, <2>2, <2>3, <2>4, <2>5 DEF Goes1
<1>5. Fails1(o, memories, encoder)
  BY <1>3 DEF Owns, RearMemories, Fails1, FillOps, Memories
<1> QED
  BY <1>4, <1>5 DEF o

LEMMA ThreadGoes ==
  ASSUME NEW P \in ThreadPrograms, NEW k \in 1..Len(Thread(P)), NEW memories, NEW encoder \in BOOLEAN,
         Owns(P, k, memories, encoder)
  PROVE  /\ Goes1(P, k, Thread(P)[k], memories, encoder)
         /\ Fails1(Thread(P)[k], memories, encoder)
<1>1. CASE P = "thread" /\ frontCamera
  <2>1. Thread(P) = FrontThread /\ Len(FrontThread) = 22
    BY <1>1 DEF Thread, FrontThread
  <2> QED
    BY <1>1, <2>1, FrontGoes
<1>2. CASE P = "thread" /\ ~frontCamera
  <2>1. Thread(P) = RearThread /\ Len(RearThread) = 17
    BY <1>2 DEF Thread, RearThread
  <2> QED
    BY <1>2, <2>1, RearGoes
<1>3. CASE P = "begin"
  BY <1>3 DEF Thread, BeginThread, Owns, Goes1, Fails1, Do, Op, FillOps, ThreadOps, Memories
<1>4. CASE P = "cancelled"
  BY <1>4 DEF Thread, CancelledThread, Owns, Goes1, Fails1, Do, Op, FillOps, ThreadOps, Memories
<1>5. CASE P = "failed"
  BY <1>5 DEF Thread, FailedThread, Owns, Goes1, Fails1, Do, Op, FillOps, ThreadOps, Memories
<1>6. CASE P = "erring"
  BY <1>6 DEF Thread, ErringThread, Owns, Goes1, Fails1, Do, Op, FillOps, ThreadOps, Memories,
              Filled, FilledEncoder
<1>7. CASE P = "closing"
  BY <1>7 DEF Thread, ClosingThread, Owns, Goes1, Fails1, Do, Op, FillOps, ThreadOps, Memories,
              Filled, FilledEncoder
<1> QED
  BY <1>1, <1>2, <1>3, <1>4, <1>5, <1>6, <1>7 DEF ThreadPrograms

-----------------------------------------------------------------------------
(* The programs of the wrapper's calls, and what a stop within one adds.     *)
CallPrograms == {"init", "close", "deinit", "reset", "start", "error", "errorOn", "flush",
                 "picture", "returned"}
InitOps ==
  <<Op("open", 0, "deinit"), Op("querycap", 0, "deinit"), Op("enum_input", 0, "deinit"),
    Op("s_input", 0, "deinit"), Op("open", 2, "deinit"), Op("querycap", 2, "deinit"),
    Op("enum_input", 2, "deinit"), Op("s_input", 2, "deinit"), Do("opened")>>
CloseOps ==
  <<Do("picture_stop"), Do("preview_stop"), Do("silenced"), Do("picture_stop"),
    Do("preview_stop"), Do("recording_stop"), Try("close", 0), Try("close", 2), Do("freed")>>
ResetOps ==
  <<Try("close", 2), Try("close", 0),
    Op("open", 0, "return"), Op("querycap", 0, "return"), Op("enum_input", 0, "return"),
    Op("s_input", 0, "return"), Op("open", 2, "return"), Op("querycap", 2, "return"),
    Op("enum_input", 2, "return"), Op("s_input", 2, "return")>>
Starting(name) == Op(name, 0, "preview_error")
StartOps ==
  <<Try("reqbufs0", 0), Starting("enum_fmt"), Starting("s_fmt"), Starting("s_ctrl"),
    Starting("reqbufs"), Starting("s_parm"), Starting("querybuf"), Starting("memory"),
    Starting("qbuf"), Starting("s_ctrl"), Starting("streamon"),
    Op("preview_thread", 0, "preview_error_on"), Do("started")>>
Taking(name) == Op(name, 0, "return")
PictureOps ==
  <<Do("preview_stop"), Taking("enum_fmt"), Taking("s_fmt"), Taking("reqbufs1"),
    Taking("querybuf"), Do("release_old"), Taking("map_picture"), Taking("qbuf"),
    Taking("streamon"), Taking("capture"), Taking("picture_thread"), Do("taken")>>
Program(P) ==
  CASE P = "init" -> InitOps [] P = "close" -> CloseOps [] P = "deinit" -> Deinit
    [] P = "reset" -> ResetOps [] P = "start" -> StartOps [] P = "error" -> PreviewError
    [] P = "errorOn" -> PreviewErrorOn [] P = "flush" -> FlushCall
    [] P = "picture" -> PictureOps [] P = "returned" -> <<Do("returned")>>

Allowed == {"picture_lock", "picture_disable", "picture_unlock", "picture_wait",
            "preview_disable", "preview_lock", "preview_wait", "recording_stop",
            "streamoff", "release", "reqbufs0", "preview_unlock", "recording_off"}
NestedOps == { o \in Ops : o.op \in Allowed /\ o.onFailure = "ignore" }
LoopOps == { o \in Ops : /\ o.op \in Ioctls \cup {"memory", "release", "recording_on", "recording_off",
                                                   "preview_failed"}
                         /\ o.onFailure \in {"ignore", "recording_error"} }

LEMMA CallsAre ==
  /\ InitCall = InitOps /\ ResetCall = ResetOps
  /\ FlushCall \o <<Do("silenced")>> \o Deinit = CloseOps
  /\ PreviewStartOps = StartOps /\ PictureStart = PictureOps
<1> DEFINE I0 == <<Op("open", 0, "deinit"), Op("querycap", 0, "deinit"),
                   Op("enum_input", 0, "deinit"), Op("s_input", 0, "deinit")>>
           I2 == <<Op("open", 2, "deinit"), Op("querycap", 2, "deinit"),
                   Op("enum_input", 2, "deinit"), Op("s_input", 2, "deinit")>>
           I == <<Op("open", 0, "deinit"), Op("querycap", 0, "deinit"),
                  Op("enum_input", 0, "deinit"), Op("s_input", 0, "deinit"),
                  Op("open", 2, "deinit"), Op("querycap", 2, "deinit"),
                  Op("enum_input", 2, "deinit"), Op("s_input", 2, "deinit")>>
           R0 == <<Op("open", 0, "return"), Op("querycap", 0, "return"),
                   Op("enum_input", 0, "return"), Op("s_input", 0, "return")>>
           R2 == <<Op("open", 2, "return"), Op("querycap", 2, "return"),
                   Op("enum_input", 2, "return"), Op("s_input", 2, "return")>>
           R == <<Try("close", 2), Try("close", 0),
                  Op("open", 0, "return"), Op("querycap", 0, "return"),
                  Op("enum_input", 0, "return"), Op("s_input", 0, "return")>>
           F == <<Do("picture_stop"), Do("preview_stop"), Do("silenced")>>
           B == <<Starting("enum_fmt"), Starting("s_fmt"), Starting("s_ctrl"),
                  Starting("reqbufs"), Starting("s_parm"), Starting("querybuf"),
                  Starting("memory"), Starting("qbuf"), Starting("s_ctrl"), Starting("streamon")>>
           C == <<Try("reqbufs0", 0), Starting("enum_fmt"), Starting("s_fmt"), Starting("s_ctrl"),
                  Starting("reqbufs"), Starting("s_parm"), Starting("querybuf"),
                  Starting("memory"), Starting("qbuf"), Starting("s_ctrl"), Starting("streamon")>>
           G == <<Taking("enum_fmt"), Taking("s_fmt"), Taking("reqbufs1"), Taking("querybuf")>>
           H == <<Do("preview_stop"), Taking("enum_fmt"), Taking("s_fmt"), Taking("reqbufs1"),
                  Taking("querybuf")>>
           J == <<Do("preview_stop"), Taking("enum_fmt"), Taking("s_fmt"), Taking("reqbufs1"),
                  Taking("querybuf"), Do("release_old")>>
           K == <<Taking("map_picture"), Taking("qbuf"), Taking("streamon"), Taking("capture"),
                  Taking("picture_thread")>>
           L == <<Do("preview_stop"), Taking("enum_fmt"), Taking("s_fmt"), Taking("reqbufs1"),
                  Taking("querybuf"), Do("release_old"),
                  Taking("map_picture"), Taking("qbuf"), Taking("streamon"), Taking("capture"),
                  Taking("picture_thread")>>
           T == <<Op("preview_thread", 0, "preview_error_on"), Do("started")>>
<1>1. /\ SelectInput(0, "deinit") = I0 /\ SelectInput(2, "deinit") = I2
      /\ SelectInput(0, "return") = R0 /\ SelectInput(2, "return") = R2
  BY DEF SelectInput, Each
<1>2. Each(<<"enum_fmt", "s_fmt", "s_ctrl", "reqbufs", "s_parm", "querybuf", "memory",
             "qbuf", "s_ctrl", "streamon">>, 0, "preview_error") = B
  BY DEF Each, Starting
<1>3. /\ Each(<<"enum_fmt", "s_fmt", "reqbufs1", "querybuf">>, 0, "return") = G
      /\ Each(<<"map_picture", "qbuf", "streamon", "capture", "picture_thread">>, 0, "return") = K
  BY DEF Each, Taking
<1>4. Joins(I0, I2, I) /\ Joins(I, <<Do("opened")>>, InitOps)
  BY DEF Joins, Ops, OpNames, Outcomes, Nodes, Op, Do, Ioctls, InputIoctls, InitOps
<1>5. Joins(<<Try("close", 2), Try("close", 0)>>, R0, R) /\ Joins(R, R2, ResetOps)
  BY DEF Joins, Ops, OpNames, Outcomes, Nodes, Op, Try, Ioctls, InputIoctls, ResetOps
<1>6. Joins(FlushCall, <<Do("silenced")>>, F) /\ Joins(F, Deinit, CloseOps)
  BY DEF Joins, Ops, OpNames, Outcomes, Nodes, Op, Do, Try, Ioctls, FlushCall, Deinit, CloseOps
<1>7. Joins(<<Try("reqbufs0", 0)>>, B, C) /\ Joins(C, T, StartOps)
  BY DEF Joins, Ops, OpNames, Outcomes, Nodes, Op, Do, Try, Ioctls, BufferIoctls, StreamIoctls,
         FormatIoctls, ControlIoctls, Starting, StartOps
<1>8. Joins(<<Do("preview_stop")>>, G, H) /\ Joins(H, <<Do("release_old")>>, J)
  BY DEF Joins, Ops, OpNames, Outcomes, Nodes, Op, Do, Ioctls, BufferIoctls, FormatIoctls, Taking
<1>9. Joins(J, K, L) /\ Joins(L, <<Do("taken")>>, PictureOps)
  BY DEF Joins, Ops, OpNames, Outcomes, Nodes, Op, Do, Ioctls, BufferIoctls, StreamIoctls,
         FormatIoctls, ControlIoctls, Taking, PictureOps
<1>10. /\ InitCall = (I0 \o I2) \o <<Do("opened")>>
       /\ ResetCall = (<<Try("close", 2), Try("close", 0)>> \o R0) \o R2
       /\ PreviewStartOps = (<<Try("reqbufs0", 0)>> \o B) \o T
       /\ PictureStart = (((<<Do("preview_stop")>> \o G) \o <<Do("release_old")>>) \o K)
                         \o <<Do("taken")>>
  BY <1>1, <1>2, <1>3 DEF InitCall, ResetCall, PreviewStartOps, PictureStart
<1> HIDE DEF I0, I2, I, R0, R2, R, F, B, C, G, H, J, K, L, T
<1>11. I0 \o I2 = I /\ I \o <<Do("opened")>> = InitOps
  BY <1>4, Joined
<1>12. <<Try("close", 2), Try("close", 0)>> \o R0 = R /\ R \o R2 = ResetOps
  BY <1>5, Joined
<1>13. FlushCall \o <<Do("silenced")>> = F /\ F \o Deinit = CloseOps
  BY <1>6, Joined
<1>14. <<Try("reqbufs0", 0)>> \o B = C /\ C \o T = StartOps
  BY <1>7, Joined
<1>15. <<Do("preview_stop")>> \o G = H /\ H \o <<Do("release_old")>> = J
  BY <1>8, Joined
<1>16. J \o K = L /\ L \o <<Do("taken")>> = PictureOps
  BY <1>9, Joined
<1> QED
  BY <1>10, <1>11, <1>12, <1>13, <1>14, <1>15, <1>16

LEMMA StopsAreNested ==
  /\ PictureStop \in Seq(NestedOps) /\ PreviewStopOps \in Seq(NestedOps)
  /\ RecordingStopOps \in Seq(NestedOps) /\ NestedOps \subseteq Ops
  BY DEF PictureStop, PreviewStopOps, RecordingStopOps, NestedOps, Allowed, Ops, OpNames, Outcomes,
         Nodes, Op, Do, Try, Ioctls, BufferIoctls, StreamIoctls

LEMMA LoopIs ==
  /\ RecordingStartOps \in Seq(LoopOps) /\ RecordingError \in Seq(LoopOps) /\ LoopOps \subseteq Ops
<1> DEFINE names == <<"enum_fmt", "s_fmt", "s_ctrl", "reqbufs", "querybuf", "memory", "qbuf",
                      "s_ctrl", "streamon">>
<1> USE DEF LoopOps, Ops, OpNames, Outcomes, Nodes, Op, Do, Try, Ioctls, BufferIoctls, StreamIoctls,
            FormatIoctls, ControlIoctls
<1>1. RecordingError \in Seq(LoopOps)
  BY DEF RecordingError
<1>2. Each(names, 2, "recording_error") \in Seq(LoopOps)
  BY DEF Each
<1>3. <<Do("recording_on")>> \in Seq(LoopOps)
  OBVIOUS
<1>4. RecordingStartOps = Each(names, 2, "recording_error") \o <<Do("recording_on")>>
  BY DEF RecordingStartOps
<1> HIDE DEF LoopOps, names, Do
<1> QED
  BY <1>1, <1>2, <1>3, <1>4, ConcatProperties DEF LoopOps

-----------------------------------------------------------------------------
(* Where each operation of a call stands, and what its failure leads to.     *)
CallOps ==
  Ioctls \cup {"memory", "release", "release_old", "map_picture", "preview_reset", "preview_disable",
        "preview_failed", "started", "recording_on", "recording_off", "picture_disable", "taken",
        "returned", "preview_lock", "preview_unlock", "picture_lock", "picture_unlock",
        "preview_wait", "picture_wait", "preview_stop", "recording_stop", "picture_stop",
        "preview_thread", "picture_thread", "opened", "silenced", "freed"}
Freeing(P, k) == (P = "deinit" /\ k > 1) \/ (P = "close" /\ k > 4)
CallGoes1(P, k, o) ==
  /\ o.op \in CallOps
  /\ o.op = "release_old" => P = "picture" /\ k = 6
  /\ o.op = "map_picture" <=> P = "picture" /\ k = 7
  /\ o.op = "picture_thread" <=> P = "picture" /\ k = 11
  /\ o.op = "freed" => Freeing(P, k)
  /\ Freeing(P, k + 1) => Freeing(P, k) \/ o.op = "picture_stop"
  /\ o.op = "picture_wait" => FALSE
  /\ o.onFailure \in {"ignore", "return", "deinit", "preview_error", "preview_error_on"}
  /\ o.op = "map_picture" => o.onFailure = "return"

LEMMA CallProgramsAre ==
  ASSUME NEW P \in CallPrograms
  PROVE  Program(P) \in Seq(Ops)
<1> USE DEF Ops, OpNames, Outcomes, Nodes, Op, Do, Try, Ioctls, BufferIoctls, StreamIoctls,
            FormatIoctls, InputIoctls, ControlIoctls, Starting, Taking
<1>1. InitOps \in Seq(Ops) /\ CloseOps \in Seq(Ops)
  BY DEF InitOps, CloseOps
<1>2. Deinit \in Seq(Ops) /\ ResetOps \in Seq(Ops)
  BY DEF Deinit, ResetOps
<1>3. StartOps \in Seq(Ops) /\ PreviewError \in Seq(Ops) /\ PreviewErrorOn \in Seq(Ops)
  BY DEF StartOps, PreviewError, PreviewErrorOn
<1>4. FlushCall \in Seq(Ops) /\ PictureOps \in Seq(Ops) /\ <<Do("returned")>> \in Seq(Ops)
  BY DEF FlushCall, PictureOps
<1> HIDE DEF Ops
<1> QED
  BY <1>1, <1>2, <1>3, <1>4 DEF Program, CallPrograms

LEMMA CallGoes ==
  ASSUME NEW P \in CallPrograms, NEW k \in 1..Len(Program(P))
  PROVE  CallGoes1(P, k, Program(P)[k])
<1> USE DEF Op, Do, Try, Starting, Taking, CallGoes1, CallOps, Freeing, Ioctls, BufferIoctls,
            StreamIoctls, FormatIoctls, InputIoctls, ControlIoctls
<1>1. CASE P = "init"
  BY <1>1 DEF Program, InitOps
<1>2. CASE P = "close"
  BY <1>2 DEF Program, CloseOps
<1>3. CASE P = "deinit"
  BY <1>3 DEF Program, Deinit
<1>4. CASE P = "reset"
  BY <1>4 DEF Program, ResetOps
<1>5. CASE P = "start"
  BY <1>5 DEF Program, StartOps
<1>6. CASE P = "error"
  BY <1>6 DEF Program, PreviewError
<1>7. CASE P = "errorOn"
  BY <1>7 DEF Program, PreviewErrorOn
<1>8. CASE P = "flush"
  BY <1>8 DEF Program, FlushCall
<1>9. CASE P = "picture"
  BY <1>9 DEF Program, PictureOps
<1>10. CASE P = "returned"
  BY <1>10 DEF Program
<1> QED
  BY <1>1, <1>2, <1>3, <1>4, <1>5, <1>6, <1>7, <1>8, <1>9, <1>10 DEF CallPrograms

LEMMA CallLengths ==
  /\ Len(Program("picture")) = 12 /\ Len(Program("deinit")) = 6 /\ Len(Program("close")) = 9
  BY DEF Program, PictureOps, CloseOps, Deinit

-----------------------------------------------------------------------------
(* The steps, by what they do to the programs, the stills and their buffer.  *)
PlainOps ==
  Ioctls \cup {"memory", "release", "preview_reset", "preview_disable", "preview_failed", "started",
        "recording_on", "recording_off", "picture_disable", "not_running", "taken", "returned",
        "preview_lock", "preview_unlock", "picture_lock", "picture_unlock", "preview_wait",
        "preview_thread", "callbacks", "opened", "silenced"}
Kept ==
  /\ UNCHANGED <<frontCamera, picture, pictureMaps>> /\ mishaps \subseteq mishaps'
  /\ picture_thread_started => picture_thread_started'
IdleStep == UNCHANGED todo /\ Kept
PlainStep(a) == At(a, PlainOps) /\ (Goes(a) \/ Fails(a)) /\ Kept
StuckStep(a) == At(a, {"picture_thread"}) /\ Fails(a) /\ Kept
StartStep(a) ==
  /\ At(a, {"picture_thread"}) /\ picture_thread_started' /\ Kept
  /\ todo' = [todo EXCEPT ![a] = Tail(@), ![CurrentStill] = <<Do("picture_begin")>>]
MapStep(a) == MapPicture(a) /\ mishaps \subseteq mishaps'
EndStep(a) ==
  /\ At(a, {"not_started"}) /\ Goes(a)
  /\ UNCHANGED <<frontCamera, picture, pictureMaps>> /\ mishaps \subseteq mishaps'
WaitStep(a) ==
  /\ At(a, {"picture_wait"}) /\ Goes(a) /\ Kept
  /\ "outlived" \in mishaps' \/ ~picture_thread_started
StopStep(a) ==
  /\ At(a, {"preview_stop", "recording_stop", "picture_stop"}) /\ Kept
  /\ \E q \in Seq(NestedOps) :
       /\ GoesOn(a, q)
       /\ At(a, {"picture_stop"}) => q = PictureStop \/ ~picture_thread_started
BeginStep(s) ==
  /\ At(s, {"picture_begin"}) /\ Kept
  /\ GoesOn(s, PictureThread) \/ GoesOn(s, CancelledThread)
FillStep(s) ==
  /\ At(s, FillOps)
  /\ UNCHANGED <<frontCamera, pictureMaps, picture_thread_started>> /\ mishaps \subseteq mishaps'
  /\ \/ /\ Goes(s)
        /\ picture' = [picture EXCEPT ![s].memories = Filled(Head(todo[s]).op, @),
                                      ![s].encoder = FilledEncoder(Head(todo[s]).op, @)]
     \/ Fails(s) /\ Head(todo[s]).op \notin {"encoder_close", "release_data"} /\ UNCHANGED picture
ArmStep == todo' = [todo EXCEPT ![PreviewLoop] = RecordingStartOps] /\ Kept
CallStep ==
  /\ todo[Caller] = << >> /\ Kept
  /\ \E P \in {"init", "close", "reset", "start", "flush"} : todo' = [todo EXCEPT ![Caller] = Program(P)]
FreedStep ==
  /\ At(Caller, {"freed"}) /\ Goes(Caller)
  /\ UNCHANGED <<frontCamera, picture, mapped>> /\ mishaps \subseteq mishaps'
TakeStep ==
  /\ todo[Caller] = << >> /\ CurrentStill + 1 \in Stills
  /\ todo' = [todo EXCEPT ![Caller] = PictureOps]
  /\ picture' = [picture EXCEPT ![CurrentStill + 1].made = TRUE]
  /\ UNCHANGED <<frontCamera, pictureMaps, picture_thread_started>> /\ mishaps \subseteq mishaps'
  /\ (\A s \in Stills : todo[s] = << >>) \/ "overlapped" \in mishaps'
NodeStep ==
  \/ IdleStep \/ ArmStep \/ CallStep \/ FreedStep \/ TakeStep
  \/ \E a \in Actors : PlainStep(a) \/ StuckStep(a) \/ StartStep(a) \/ MapStep(a) \/ EndStep(a)
                       \/ WaitStep(a) \/ StopStep(a)
  \/ \E s \in Stills : BeginStep(s) \/ FillStep(s)

LEMMA NodeSteps == [NodesNext]_nodesVars => NodeStep
<1> SUFFICES ASSUME [NodesNext]_nodesVars PROVE NodeStep
  OBVIOUS
<1> USE DEF keptByNodes, keptByFlags, keptByCalls, previewFlags, recordingFlags, pictureFlags,
            pictureMaps, Kept
<1>1. CASE UNCHANGED nodesVars
  BY <1>1 DEF nodesVars, NodeStep, IdleStep
<1>2. ASSUME NEW a \in Actors, NodeOperation(a) PROVE NodeStep
  <2>1. PlainStep(a)
    BY <1>2 DEF NodeOperation, At, PlainOps, PlainStep, NodeFault, NoFault
  <2> QED
    BY <2>1 DEF NodeStep
<1>3. ASSUME NEW a \in Actors, MapBuffers(a) PROVE NodeStep
  <2>1. PlainStep(a)
    BY <1>3 DEF MapBuffers, At, PlainOps, PlainStep, NodeFault, NoFault
  <2> QED
    BY <2>1 DEF NodeStep
<1>4. ASSUME NEW a \in Actors, MapPicture(a) PROVE NodeStep
  <2>1. mishaps \subseteq mishaps'
    BY <1>4 DEF MapPicture, NodeFault, NoFault
  <2> QED
    BY <1>4, <2>1 DEF NodeStep, MapStep
<1>5. ASSUME NEW a \in Actors, SetFlags(a) PROVE NodeStep
  <2>1. CASE At(a, {"not_started"})
    BY <1>5, <2>1 DEF SetFlags, NodeStep, EndStep
  <2>2. CASE ~At(a, {"not_started"})
    <3>1. At(a, PlainOps)
      BY <1>5, <2>2 DEF SetFlags, At, PlainOps
    <3>2. PlainStep(a)
      BY <1>5, <2>2, <3>1 DEF SetFlags, PlainStep, Unless
    <3> QED
      BY <3>2 DEF NodeStep
  <2> QED
    BY <2>1, <2>2
<1>6. ASSUME NEW a \in Actors, PreviewLock(a) \/ PictureLock(a) PROVE NodeStep
  <2>1. PlainStep(a)
    BY <1>6 DEF PreviewLock, PictureLock, At, PlainOps, PlainStep
  <2> QED
    BY <2>1 DEF NodeStep
<1>7. ASSUME NEW a \in Actors, Wait(a) PROVE NodeStep
  <2>1. CASE At(a, {"picture_wait"})
    <3>1. WaitStep(a)
      BY <1>7, <2>1 DEF Wait, WaitStep
    <3> QED
      BY <3>1 DEF NodeStep
  <2>2. CASE ~At(a, {"picture_wait"})
    <3>1. PlainStep(a)
      BY <1>7, <2>2 DEF Wait, PlainStep, At, PlainOps
    <3> QED
      BY <3>1 DEF NodeStep
  <2> QED
    BY <2>1, <2>2
<1>8. ASSUME NEW a \in Actors, Nested(a) PROVE NodeStep
  <2>1. << >> \in Seq(NestedOps)
    OBVIOUS
  <2>2. StopStep(a)
    <3>1. CASE At(a, {"preview_stop"}) /\ GoesOn(a, IF HasPreview THEN PreviewStopOps ELSE << >>)
      <4>1. ~At(a, {"picture_stop"})
        BY <3>1 DEF At
      <4> QED
        BY <1>8, <2>1, <3>1, <4>1, StopsAreNested DEF Nested, StopStep, At
    <3>2. CASE At(a, {"recording_stop"}) /\ GoesOn(a, IF HasRecording THEN RecordingStopOps ELSE << >>)
      <4>1. ~At(a, {"picture_stop"})
        BY <3>2 DEF At
      <4> QED
        BY <1>8, <2>1, <3>2, <4>1, StopsAreNested DEF Nested, StopStep, At
    <3>3. CASE At(a, {"picture_stop"}) /\ GoesOn(a, IF HasPicture THEN PictureStop ELSE << >>)
      BY <1>8, <2>1, <3>3, StopsAreNested DEF Nested, StopStep, At, HasPicture
    <3> QED
      BY <1>8, <3>1, <3>2, <3>3 DEF Nested
  <2> QED
    BY <2>2 DEF NodeStep
<1>9. ASSUME NEW a \in Actors, PreviewThread(a) PROVE NodeStep
  <2>1. PlainStep(a)
    BY <1>9 DEF PreviewThread, At, PlainOps, PlainStep, NodeFault, NoFault
  <2> QED
    BY <2>1 DEF NodeStep
<1>10. ASSUME NEW a \in Actors, PictureThreadStarts(a) PROVE NodeStep
  <2>1. StartStep(a) \/ StuckStep(a)
    BY <1>10 DEF PictureThreadStarts, StartStep, StuckStep, NodeFault, NoFault
  <2> QED
    BY <2>1 DEF NodeStep
<1>11. ASSUME NEW s \in Stills, PictureThreadBegins(s) PROVE NodeStep
  <2>1. BeginStep(s)
    BY <1>11 DEF PictureThreadBegins, BeginStep, CancelledThread
  <2> QED
    BY <2>1 DEF NodeStep
<1>12. ASSUME NEW s \in Stills, Fill(s) PROVE NodeStep
  <2>1. FillStep(s)
    BY <1>12, ReleasesSucceed DEF Fill, FillStep, FillOps, Filled, FilledEncoder, NodeFault, NoFault, At, Memories
  <2> QED
    BY <2>1 DEF NodeStep
<1>13. ASSUME NEW s \in Stills, Callbacks(s) PROVE NodeStep
  <2>1. PlainStep(s) /\ s \in Actors
    BY <1>13 DEF Callbacks, At, PlainOps, PlainStep, Actors
  <2> QED
    BY <2>1 DEF NodeStep
<1>14. CASE PreviewArms
  BY <1>14 DEF PreviewArms, NodeStep, ArmStep
<1>15. CASE PreviewThreadFails \/ PreviewThreadEnds
  BY <1>15 DEF PreviewThreadFails, PreviewThreadEnds, NodeStep, IdleStep, NodeFault
<1>16. CASE OpenBackend \/ CloseBackend \/ ResetNodes \/ StartPreview \/ Flush
  <2>1. CallStep
    BY <1>16, CallsAre DEF OpenBackend, CloseBackend, ResetNodes, StartPreview, Flush, Calls, NoCall,
                           CallStep, Program
  <2> QED
    BY <2>1 DEF NodeStep
<1>17. CASE OpenedOrFreed
  <2>1. CASE At(Caller, {"freed"})
    BY <1>17, <2>1 DEF OpenedOrFreed, FreedStep, NodeStep
  <2>2. CASE ~At(Caller, {"freed"})
    <3>1. PlainStep(Caller) /\ Caller \in Actors
      BY <1>17, <2>2 DEF OpenedOrFreed, PlainStep, At, PlainOps, Actors
    <3> QED
      BY <3>1 DEF NodeStep
  <2> QED
    BY <2>1, <2>2
<1>18. CASE TakePicture
  <2>1. TakeStep
    BY <1>18, CallsAre DEF TakePicture, Calls, NoCall, TakeStep
  <2> QED
    BY <2>1 DEF NodeStep
<1> QED
  BY <1>1, <1>2, <1>3, <1>4, <1>5, <1>6, <1>7, <1>8, <1>9, <1>10, <1>11, <1>12, <1>13, <1>14, <1>15,
     <1>16, <1>17, <1>18 DEF NodesNext

-----------------------------------------------------------------------------
(* The inductive invariant.                                                 *)
Overlapped == "overlapped" \in mishaps
Bad == "outlived" \in mishaps \/ Overlapped
Mine(s) == picture_memory = s /\ s \in mapped
Alone == \A s \in Stills : todo[s] = << >>
Waits(p) == \E i \in 1..Len(p) : p[i].op = "picture_wait"

PictureType ==
  picture \in [Stills -> [made : BOOLEAN, memories : SUBSET Memories, encoder : BOOLEAN]]
TodoType == todo \in [Actors -> Seq(Ops)]

(* The stills are made in order, and only a made one has a thread, by itself *)
(* but for an overlap; picture_thread_started is true as long as it lives.  *)
Made ==
  \E n \in Stills \cup {0} : CurrentStill = n /\ \A s \in Stills : picture[s].made <=> s <= n
Running ==
  \A s \in Stills : todo[s] # << >> =>
    /\ picture[s].made /\ (picture_thread_started \/ Bad)
    /\ \A t \in Stills : todo[t] # << >> /\ t # s => Overlapped

(* Where a still's thread is in its program, with what it has by then, and   *)
(* until it releases the buffer, with its own.                              *)
Reading(P, k) ==
  (P = "begin" /\ k = 1) \/ (P = "thread" /\ k <= (IF frontCamera THEN 16 ELSE 11))
On(s, P, k) ==
  /\ todo[s] = Rest(Thread(P), k)
  /\ Owns(P, k, picture[s].memories, picture[s].encoder)
  /\ Reading(P, k) => Mine(s) \/ Bad
StillOK(s) == \E P \in ThreadPrograms : \E k \in 1..(Len(Thread(P)) + 1) : On(s, P, k)

(* Where a call is in its program p \o Rest(Program(P), k), p what is left of*)
(* the stops within it.                                                     *)
Fresh ==
  /\ CurrentStill \in Stills /\ todo[CurrentStill] = << >>
  /\ Alone \/ Overlapped
CallOn(P, k, p) ==
  /\ todo[Caller] = p \o Rest(Program(P), k)
  /\ P = "picture" /\ k < 12 => Fresh
  /\ P = "picture" /\ k \in 8..11 => Mine(CurrentStill) \/ Overlapped
  /\ Freeing(P, k) => Alone \/ Bad \/ Waits(p)
CallOK ==
  \E P \in CallPrograms : \E k \in 1..(Len(Program(P)) + 1) : \E p \in Seq(NestedOps) : CallOn(P, k, p)
LoopOK == todo[PreviewLoop] \in Seq(LoopOps)

NodesInv ==
  /\ PictureType /\ TodoType /\ Made /\ Running /\ (\A s \in Stills : StillOK(s)) /\ CallOK /\ LoopOK

LEMMA ActorsAre ==
  /\ Caller \in Actors /\ PreviewLoop \in Actors /\ Stills \subseteq Actors
  /\ Caller \notin Stills /\ PreviewLoop \notin Stills /\ Caller # PreviewLoop
  /\ \A a \in Actors : a = Caller \/ a = PreviewLoop \/ a \in Stills
  BY StillNumbers DEF Actors, Caller, PreviewLoop

(* What follows an operation of each program.                                *)
LEMMA TailsAre ==
  ASSUME NEW S, NEW q \in Seq(S), q # << >>
  PROVE  Head(q) \in S /\ Tail(q) \in Seq(S) /\ Head(q) = q[1]
         /\ Len(Tail(q)) = Len(q) - 1 /\ \A i \in 1..Len(Tail(q)) : Tail(q)[i] = q[i + 1]
<1>1. Len(q) \in Nat \ {0}
  BY EmptySeq
<1> QED
  BY <1>1, HeadTailProperties

LEMMA StillHead ==
  ASSUME NEW s \in Stills, NEW P \in ThreadPrograms, NEW k \in 1..(Len(Thread(P)) + 1), On(s, P, k),
         PictureType
  PROVE  /\ todo[s] = << >> => k = Len(Thread(P)) + 1
         /\ todo[s] # << >> =>
              /\ k \in 1..Len(Thread(P))
              /\ Head(todo[s]) = Thread(P)[k] /\ Tail(todo[s]) = Rest(Thread(P), k + 1)
              /\ Goes1(P, k, Head(todo[s]), picture[s].memories, picture[s].encoder)
              /\ Fails1(Head(todo[s]), picture[s].memories, picture[s].encoder)
<1>1. Thread(P) \in Seq(Ops) /\ Len(Thread(P)) \in Nat
  BY ThreadsAre
<1>2. CASE k = Len(Thread(P)) + 1
  BY <1>1, <1>2, RestEnds DEF On
<1>3. CASE k # Len(Thread(P)) + 1
  <2>1. k \in 1..Len(Thread(P))
    BY <1>1, <1>3
  <2>2. /\ todo[s] # << >> /\ Head(todo[s]) = Thread(P)[k]
        /\ Tail(todo[s]) = Rest(Thread(P), k + 1)
    BY <1>1, <2>1, RestGoes DEF On
  <2>3. picture[s].encoder \in BOOLEAN /\ Owns(P, k, picture[s].memories, picture[s].encoder)
    BY DEF On, PictureType
  <2> QED
    BY <2>1, <2>2, <2>3, ThreadGoes
<1> QED
  BY <1>2, <1>3

LEMMA EndOwns ==
  ASSUME NEW s \in Stills, StillOK(s), PictureType, todo[s] = << >>
  PROVE  picture[s].memories = {} /\ ~picture[s].encoder
<1>0. PICK P \in ThreadPrograms : \E k \in 1..(Len(Thread(P)) + 1) : On(s, P, k)
  BY DEF StillOK
<1>1. PICK k \in 1..(Len(Thread(P)) + 1) : On(s, P, k)
  BY <1>0
<1>2. k = Len(Thread(P)) + 1
  BY <1>1, StillHead
<1>3. Owns(P, k, picture[s].memories, picture[s].encoder)
  BY <1>1 DEF On
<1>4. CASE P = "thread"
  BY <1>2, <1>3, <1>4 DEF Owns, Thread, FrontThread, RearThread, FrontMemories, RearMemories
<1>5. CASE P = "erring" \/ P = "closing"
  BY <1>2, <1>3, <1>5 DEF Owns, Thread, ErringThread, ClosingThread
<1>6. CASE P \in {"begin", "cancelled", "failed"}
  BY <1>3, <1>6 DEF Owns
<1> QED
  BY <1>4, <1>5, <1>6 DEF ThreadPrograms

LEMMA HeadTailOfConcat ==
  ASSUME NEW S, NEW p \in Seq(S), NEW r \in Seq(S), p # << >>
  PROVE  Head(p \o r) = Head(p) /\ Tail(p \o r) = Tail(p) \o r
<1>1. Len(p) \in Nat \ {0} /\ Len(r) \in Nat
  BY EmptySeq
<1>2. /\ p \o r \in Seq(S) /\ Len(p \o r) = Len(p) + Len(r)
      /\ \A i \in 1..Len(p) + Len(r) : (p \o r)[i] = IF i <= Len(p) THEN p[i] ELSE r[i - Len(p)]
  BY ConcatProperties
<1>3. p \o r # << >>
  BY <1>1, <1>2
<1>4. /\ Tail(p \o r) \in Seq(S) /\ Len(Tail(p \o r)) = Len(p) + Len(r) - 1
      /\ Head(p \o r) = (p \o r)[1] /\ Head(p) = p[1]
      /\ \A i \in 1..(Len(p) + Len(r) - 1) : Tail(p \o r)[i] = (p \o r)[i + 1]
  BY <1>2, <1>3, TailsAre
<1>5. /\ Tail(p) \in Seq(S) /\ Len(Tail(p)) = Len(p) - 1
      /\ \A i \in 1..(Len(p) - 1) : Tail(p)[i] = p[i + 1]
  BY TailsAre
<1>6. /\ Tail(p) \o r \in Seq(S) /\ Len(Tail(p) \o r) = Len(p) - 1 + Len(r)
      /\ \A i \in 1..(Len(p) - 1 + Len(r)) :
           (Tail(p) \o r)[i] = IF i <= Len(p) - 1 THEN Tail(p)[i] ELSE r[i - (Len(p) - 1)]
  BY <1>5, ConcatProperties
<1>7. ASSUME NEW i \in 1..(Len(p) + Len(r) - 1) PROVE Tail(p \o r)[i] = (Tail(p) \o r)[i]
  <2>1. i + 1 \in 1..(Len(p) + Len(r)) /\ (i + 1) - Len(p) = i - (Len(p) - 1)
    BY <1>1
  <2>2. Tail(p \o r)[i] = IF i + 1 <= Len(p) THEN p[i + 1] ELSE r[(i + 1) - Len(p)]
    BY <1>2, <1>4, <2>1
  <2>3. i + 1 <= Len(p) <=> i <= Len(p) - 1
    BY <1>1
  <2>4. i <= Len(p) - 1 => Tail(p)[i] = p[i + 1]
    BY <1>1, <1>5
  <2>5. i \in 1..(Len(p) - 1 + Len(r))
    BY <1>1
  <2> QED
    BY <1>6, <2>1, <2>2, <2>3, <2>4, <2>5
<1>8. Len(p) + Len(r) - 1 = Len(p) - 1 + Len(r)
  BY <1>1
<1>9. Tail(p \o r) = Tail(p) \o r
  BY <1>4, <1>6, <1>7, <1>8, SeqEqual
<1>10. (p \o r)[1] = p[1]
  BY <1>1, <1>2
<1> QED
  BY <1>4, <1>9, <1>10

LEMMA CallHead ==
  ASSUME NEW P \in CallPrograms, NEW k \in 1..(Len(Program(P)) + 1), NEW p \in Seq(NestedOps),
         todo[Caller] = p \o Rest(Program(P), k), todo[Caller] # << >>
  PROVE  \/ /\ p # << >> /\ Head(todo[Caller]) = Head(p) /\ Head(p) \in NestedOps
            /\ Tail(p) \in Seq(NestedOps)
            /\ Tail(todo[Caller]) = Tail(p) \o Rest(Program(P), k)
            /\ \A q \in Seq(NestedOps) :
                 /\ q \o Tail(p) \in Seq(NestedOps)
                 /\ q \o Tail(todo[Caller]) = (q \o Tail(p)) \o Rest(Program(P), k)
         \/ /\ p = << >> /\ k \in 1..Len(Program(P)) /\ Head(todo[Caller]) = Program(P)[k]
            /\ CallGoes1(P, k, Head(todo[Caller]))
            /\ Tail(todo[Caller]) = Rest(Program(P), k + 1)
            /\ Tail(todo[Caller]) = << >> \o Rest(Program(P), k + 1)
<1> DEFINE R == Rest(Program(P), k)
<1>1. Program(P) \in Seq(Ops) /\ Len(Program(P)) \in Nat
  BY CallProgramsAre, LenProperties
<1>2. R \in Seq(Ops) /\ Rest(Program(P), k + 1) \in Seq(Ops)
  <2>1. \A i \in 1..Len(Program(P)) : Program(P)[i] \in Ops
    BY <1>1
  <2>2. k \in Int /\ k + 1 \in Int /\ Len(Program(P)) \in Int /\ k >= 1
    BY <1>1
  <2> QED
    BY <2>1, <2>2, SubSeqProperties DEF Rest
<1>3. p \in Seq(Ops)
  BY StopsAreNested, SeqMonotonic
<1>4. CASE p # << >>
  <2>1. Head(p) \in NestedOps /\ Tail(p) \in Seq(NestedOps) /\ Tail(p) \in Seq(Ops)
    BY <1>4, StopsAreNested, SeqMonotonic, TailsAre
  <2>2. Head(p \o R) = Head(p) /\ Tail(p \o R) = Tail(p) \o R
    BY <1>2, <1>3, <1>4, HeadTailOfConcat
  <2>3. ASSUME NEW q \in Seq(NestedOps)
        PROVE  q \o Tail(p) \in Seq(NestedOps) /\ q \o (Tail(p) \o R) = (q \o Tail(p)) \o R
    <3>1. q \in Seq(Ops)
      BY StopsAreNested, SeqMonotonic
    <3>2. q \o Tail(p) \in Seq(NestedOps)
      BY <2>1, ConcatProperties
    <3>3. (q \o Tail(p)) \o R = q \o (Tail(p) \o R)
      <4> DEFINE t == Tail(p)
      <4>1. t \in Seq(Ops) /\ R \in Seq(Ops)
        BY <1>2, <2>1
      <4> HIDE DEF R, t
      <4>2. (q \o t) \o R = q \o (t \o R)
        BY <3>1, <4>1, ConcatAssociative
      <4> QED
        BY <4>2 DEF t
    <3> QED
      BY <3>2, <3>3
  <2> QED
    BY <1>4, <2>1, <2>2, <2>3
<1>5. CASE p = << >>
  <2>1. todo[Caller] = R
    BY <1>2, <1>5, ConcatEmptySeq
  <2>2. k # Len(Program(P)) + 1
    BY <1>1, <2>1, RestEnds
  <2>3. k \in 1..Len(Program(P))
    BY <1>1, <2>2
  <2>4. Head(R) = Program(P)[k] /\ Tail(R) = Rest(Program(P), k + 1)
    BY <1>1, <2>3, RestGoes
  <2>5. CallGoes1(P, k, Program(P)[k])
    BY <2>3, CallGoes
  <2> QED
    BY <1>2, <1>5, <2>1, <2>3, <2>4, <2>5, ConcatEmptySeq
<1> QED
  BY <1>4, <1>5

-----------------------------------------------------------------------------
(* Each part of the invariant is kept.                                       *)
LEMMA AfterIs ==
  /\ \A rest : After("ignore", rest) = rest
  /\ \A rest : After("return", rest) = Program("returned") /\ After("deinit", rest) = Program("deinit")
  /\ \A rest : /\ After("preview_error", rest) = Program("error")
               /\ After("preview_error_on", rest) = Program("errorOn")
  /\ \A rest : After("recording_error", rest) = RecordingError
  /\ \A rest : /\ After("picture_failed", rest) = Thread("failed")
               /\ After("picture_error", rest) = Thread("erring")
               /\ After("encoder_error", rest) = Thread("closing")
<1> USE EndOfThread
<1>1. \A rest : After("ignore", rest) = rest /\ After("recording_error", rest) = RecordingError
  BY DEF After
<1>2. \A rest : After("return", rest) = Program("returned") /\ After("deinit", rest) = Program("deinit")
  BY DEF After, Program
<1>3. \A rest : /\ After("preview_error", rest) = Program("error")
               /\ After("preview_error_on", rest) = Program("errorOn")
  BY DEF After, Program
<1>4. \A rest : /\ After("picture_failed", rest) = Thread("failed")
               /\ After("picture_error", rest) = Thread("erring")
               /\ After("encoder_error", rest) = Thread("closing")
  BY DEF After, Thread
<1> QED
  BY <1>1, <1>2, <1>3, <1>4

LEMMA MaxOfMade ==
  ASSUME NEW f, NEW n \in Stills \cup {0}, \A s \in Stills : f[s].made <=> s <= n
  PROVE  Max({0} \cup { s \in Stills : f[s].made }) = n
<1> DEFINE S == {0} \cup { s \in Stills : f[s].made }
<1>1. n \in S /\ \A x \in S : x \in Nat /\ x <= n
  BY StillNumbers
<1>2. \A m \in S : (\A y \in S : m >= y) => m = n
  BY <1>1
<1>3. n \in S /\ \A y \in S : n >= y
  BY <1>1
<1> HIDE DEF S
<1>4. Max(S) = n
  BY <1>2, <1>3 DEF Max
<1> QED
  BY <1>4 DEF S

LEMMA CallFacts ==
  ASSUME CallOK
  PROVE  /\ At(Caller, {"release_old", "map_picture", "picture_thread"}) => Fresh
         /\ At(Caller, {"picture_thread"}) => Mine(CurrentStill) \/ Overlapped
         /\ At(Caller, {"freed"}) => Alone \/ Bad
         /\ todo[Caller] # << >> => Head(todo[Caller]).op \in CallOps
<1>1. PICK P \in CallPrograms : \E k \in 1..(Len(Program(P)) + 1) : \E p \in Seq(NestedOps) : CallOn(P, k, p)
  BY DEF CallOK
<1>2. PICK k \in 1..(Len(Program(P)) + 1) : \E p \in Seq(NestedOps) : CallOn(P, k, p)
  BY <1>1
<1>3. PICK p \in Seq(NestedOps) : CallOn(P, k, p)
  BY <1>2
<1> DEFINE o == Head(todo[Caller])
<1>4. SUFFICES ASSUME todo[Caller] # << >>
      PROVE  /\ o.op \in {"release_old", "map_picture", "picture_thread"} => Fresh
             /\ o.op = "picture_thread" => Mine(CurrentStill) \/ Overlapped
             /\ o.op = "freed" => Alone \/ Bad
             /\ o.op \in CallOps
  BY DEF At
<1>5. CASE p # << >> /\ o = Head(p) /\ Head(p) \in NestedOps
  BY <1>5 DEF NestedOps, Allowed, CallOps, Ioctls, StreamIoctls, BufferIoctls
<1>6. CASE p = << >> /\ CallGoes1(P, k, o)
  <2>1. ~Waits(p)
    BY <1>6 DEF Waits
  <2> HIDE DEF o
  <2>2. k \in Nat
    OBVIOUS
  <2>3. o.op \in {"release_old", "map_picture", "picture_thread"} => Fresh
    BY <1>3, <1>6, <2>2 DEF CallOn, CallGoes1
  <2>4. o.op = "picture_thread" => Mine(CurrentStill) \/ Overlapped
    BY <1>3, <1>6, <2>2 DEF CallOn, CallGoes1
  <2>5. o.op = "freed" => Alone \/ Bad
    BY <1>3, <1>6, <2>1 DEF CallOn, CallGoes1
  <2> QED
    BY <1>6, <2>3, <2>4, <2>5 DEF CallGoes1
<1>7. todo[Caller] = p \o Rest(Program(P), k)
  BY <1>3 DEF CallOn
<1> QED
  BY <1>4, <1>5, <1>6, <1>7, CallHead

LEMMA LoopFacts ==
  ASSUME LoopOK, todo[PreviewLoop] # << >>
  PROVE  /\ Head(todo[PreviewLoop]) \in LoopOps /\ Tail(todo[PreviewLoop]) \in Seq(LoopOps)
         /\ Head(todo[PreviewLoop]).op \in
              Ioctls \cup {"memory", "release", "recording_on", "recording_off", "preview_failed"}
         /\ Head(todo[PreviewLoop]).onFailure \in {"ignore", "recording_error"}
<1>1. Head(todo[PreviewLoop]) \in LoopOps /\ Tail(todo[PreviewLoop]) \in Seq(LoopOps)
  BY TailsAre DEF LoopOK
<1> QED
  BY <1>1 DEF LoopOps

LEMMA StillFacts ==
  ASSUME PictureType, NEW s \in Stills, StillOK(s), todo[s] # << >>
  PROVE  Head(todo[s]).op \in ThreadOps
<1>1. PICK P \in ThreadPrograms : \E k \in 1..(Len(Thread(P)) + 1) : On(s, P, k)
  BY DEF StillOK
<1>2. PICK k \in 1..(Len(Thread(P)) + 1) : On(s, P, k)
  BY <1>1
<1> QED
  BY <1>2, StillHead DEF Goes1

(* Who is at an operation that only one kind of program has.                 *)
LEMMA OnlyCalls ==
  ASSUME NodesInv, NEW a \in Actors
  PROVE  /\ At(a, {"picture_thread", "release_old", "map_picture", "picture_wait", "preview_stop",
                   "recording_stop", "picture_stop", "freed"}) => a = Caller
         /\ At(a, {"not_started", "release_picture", "clear_picture"}) => a \in Stills
<1>1. CASE a = Caller
  BY <1>1, CallFacts DEF NodesInv, At, CallOps, Ioctls, BufferIoctls, StreamIoctls, FormatIoctls,
                         InputIoctls, ControlIoctls
<1>2. CASE a = PreviewLoop
  BY <1>2, LoopFacts DEF NodesInv, At, Ioctls, BufferIoctls, StreamIoctls, FormatIoctls,
                         InputIoctls, ControlIoctls
<1>3. CASE a \in Stills
  BY <1>3, StillFacts DEF NodesInv, At, ThreadOps, FillOps, Memories
<1> QED
  BY <1>1, <1>2, <1>3, ActorsAre

LEMMA PictureTypeKept == ASSUME NodesInv, NodeStep PROVE PictureType'
<1> USE DEF PictureType, NodesInv
<1>1. CASE UNCHANGED picture
  BY <1>1
<1>2. CASE TakeStep
  BY <1>2 DEF TakeStep
<1>3. ASSUME NEW s \in Stills, FillStep(s) PROVE PictureType'
  BY <1>3 DEF FillStep, Filled, FilledEncoder
<1> QED
  BY <1>1, <1>2, <1>3 DEF NodeStep, IdleStep, ArmStep, CallStep, FreedStep, PlainStep, StuckStep,
     StartStep, MapStep, EndStep, WaitStep, StopStep, BeginStep, Kept, MapPicture

LEMMA MadeKept == ASSUME NodesInv, NodeStep PROVE Made' /\ (UNCHANGED CurrentStill \/ TakeStep)
<1> USE DEF NodesInv
<1>1. PICK n \in Stills \cup {0} : CurrentStill = n /\ \A s \in Stills : picture[s].made <=> s <= n
  BY DEF Made
<1>2. CASE UNCHANGED picture
  BY <1>2 DEF Made, CurrentStill
<1>3. CASE TakeStep
  <2>1. n + 1 \in Stills /\ n \in Nat /\ \A s \in Stills : s \in Nat
    BY <1>1, <1>3, StillNumbers DEF TakeStep
  <2>2. \A s \in Stills : picture'[s].made <=> s <= n + 1
    BY <1>1, <1>3, <2>1 DEF TakeStep, PictureType
  <2>3. Max({0} \cup { s \in Stills : picture'[s].made }) = n + 1
    BY <2>1, <2>2, MaxOfMade
  <2> QED
    BY <1>3, <2>1, <2>2, <2>3 DEF Made, CurrentStill
<1>4. ASSUME NEW s \in Stills, FillStep(s) PROVE Made' /\ UNCHANGED CurrentStill
  <2>1. \A t \in Stills : picture'[t].made = picture[t].made
    BY <1>4 DEF FillStep, PictureType
  <2>2. \A t \in Stills : picture'[t].made <=> t <= n
    BY <1>1, <2>1
  <2>3. Max({0} \cup { t \in Stills : picture'[t].made }) = n
    BY <2>2, MaxOfMade
  <2> QED
    BY <1>1, <2>2, <2>3 DEF Made, CurrentStill
<1> QED
  BY <1>2, <1>3, <1>4 DEF NodeStep, IdleStep, ArmStep, CallStep, FreedStep, PlainStep, StuckStep,
     StartStep, MapStep, EndStep, WaitStep, StopStep, BeginStep, Kept, MapPicture

(* Marks of the thread's programs: where it reads, releases and ends.        *)
LEMMA ThreadMarks ==
  ASSUME NEW P \in ThreadPrograms, NEW k \in 1..Len(Thread(P))
  PROVE  /\ Thread(P)[k].op \in {"release_picture", "clear_picture"} => ~Reading(P, k)
         /\ Thread(P)[k].op = "not_started" => k = Len(Thread(P))
         /\ Thread(P)[k].op \in (IF frontCamera THEN {"encode"} ELSE {"thumbnail", "image"}) =>
              Reading(P, k)
<1> USE DEF Reading, Do, Op, Failing, Erring, Closing
<1>1. CASE P = "thread" /\ frontCamera
  BY <1>1 DEF Thread, FrontThread
<1>2. CASE P = "thread" /\ ~frontCamera
  BY <1>2 DEF Thread, RearThread
<1>3. CASE P = "begin" \/ P = "cancelled"
  BY <1>3 DEF Thread, BeginThread, CancelledThread
<1>4. CASE P = "failed"
  BY <1>4 DEF Thread, FailedThread
<1>5. CASE P = "erring"
  BY <1>5 DEF Thread, ErringThread
<1>6. CASE P = "closing"
  BY <1>6 DEF Thread, ClosingThread
<1> QED
  BY <1>1, <1>2, <1>3, <1>4, <1>5, <1>6 DEF ThreadPrograms

(* A step moves one actor, and a still's thread that starts.                 *)
StillMoves(s) ==
  \/ PlainStep(s) \/ MapStep(s) \/ EndStep(s) \/ BeginStep(s) \/ FillStep(s)
  \/ StartStep(Caller) /\ CurrentStill = s
CallMoves ==
  \/ PlainStep(Caller) \/ StuckStep(Caller) \/ StartStep(Caller) \/ MapStep(Caller)
  \/ WaitStep(Caller) \/ StopStep(Caller) \/ CallStep \/ FreedStep \/ TakeStep

LEMMA WhoMoves ==
  ASSUME NodesInv, NodeStep
  PROVE  /\ todo'[PreviewLoop] = todo[PreviewLoop] \/ PlainStep(PreviewLoop) \/ ArmStep
         /\ UNCHANGED todo[Caller] \/ CallMoves
         /\ \A s \in Stills : UNCHANGED todo[s] \/ StillMoves(s)
         /\ DOMAIN todo' = Actors
         /\ StartStep(Caller) => CurrentStill \in Stills /\ todo[CurrentStill] = << >>
<1> DEFINE Who ==
         /\ todo'[PreviewLoop] = todo[PreviewLoop] \/ PlainStep(PreviewLoop) \/ ArmStep
         /\ todo'[Caller] = todo[Caller] \/ CallMoves
         /\ \A s \in Stills : todo'[s] = todo[s] \/ StillMoves(s)
         /\ DOMAIN todo' = Actors
<1> USE ActorsAre DEF TodoType
<1>0. TodoType /\ \A x \in Stills : x \in Actors /\ x # Caller /\ x # PreviewLoop
  BY DEF NodesInv
<1>1. ASSUME IdleStep PROVE Who
  BY <1>0, <1>1 DEF IdleStep
<1>2. ASSUME ArmStep PROVE Who
  <2>1. DOMAIN todo' = Actors /\ \A b \in Actors : b # PreviewLoop => todo'[b] = todo[b]
    BY <1>0, <1>2 DEF ArmStep
  <2> QED
    BY <1>0, <1>2, <2>1
<1>3. ASSUME CallStep \/ FreedStep \/ TakeStep PROVE Who
  <2>1. DOMAIN todo' = Actors /\ \A b \in Actors : b # Caller => todo'[b] = todo[b]
    BY <1>0, <1>3 DEF CallStep, FreedStep, TakeStep, Goes
  <2> QED
    BY <1>0, <1>3, <2>1 DEF CallMoves
<1>4. ASSUME NEW a \in Actors, PlainStep(a) PROVE Who
  <2>1. DOMAIN todo' = Actors /\ \A b \in Actors : b # a => todo'[b] = todo[b]
    BY <1>0, <1>4 DEF PlainStep, Goes, Fails
  <2> QED
    BY <1>0, <1>4, <2>1 DEF CallMoves, StillMoves
<1>5. ASSUME NEW a \in Actors, StuckStep(a) \/ WaitStep(a) \/ StopStep(a) PROVE Who
  <2>1. DOMAIN todo' = Actors /\ \A b \in Actors : b # a => todo'[b] = todo[b]
    BY <1>0, <1>5 DEF StuckStep, WaitStep, StopStep, Goes, Fails, GoesOn
  <2>2. a = Caller
    BY <1>5, OnlyCalls DEF StuckStep, WaitStep, StopStep, At
  <2> QED
    BY <1>0, <1>5, <2>1, <2>2 DEF CallMoves
<1>6. ASSUME NEW a \in Actors, MapStep(a) PROVE Who
  <2>1. DOMAIN todo' = Actors /\ \A b \in Actors : b # a => todo'[b] = todo[b]
    BY <1>0, <1>6 DEF MapStep, MapPicture, Goes, Fails
  <2>2. a = Caller \/ a \in Stills
    BY <1>6, OnlyCalls DEF MapStep, MapPicture, At
  <2> QED
    BY <1>0, <1>6, <2>1, <2>2 DEF CallMoves, StillMoves
<1>7. ASSUME NEW a \in Actors, EndStep(a) PROVE Who
  <2>1. DOMAIN todo' = Actors /\ \A b \in Actors : b # a => todo'[b] = todo[b]
    BY <1>0, <1>7 DEF EndStep, Goes
  <2>2. a \in Stills
    BY <1>7, OnlyCalls DEF EndStep, At
  <2> QED
    BY <1>0, <1>7, <2>1, <2>2 DEF StillMoves
<1>8. ASSUME NEW a \in Actors, StartStep(a) PROVE Who
  <2>1. a = Caller
    BY <1>8, OnlyCalls DEF StartStep, At
  <2>2. CurrentStill \in Stills
    BY <1>8, <2>1, CallFacts DEF StartStep, At, NodesInv, Fresh
  <2>3. DOMAIN todo' = Actors /\ \A b \in Actors : b # a /\ b # CurrentStill => todo'[b] = todo[b]
    BY <1>0, <1>8 DEF StartStep
  <2> QED
    BY <1>0, <1>8, <2>1, <2>2, <2>3 DEF CallMoves, StillMoves
<1>9. ASSUME NEW s \in Stills, BeginStep(s) \/ FillStep(s) PROVE Who
  <2>1. DOMAIN todo' = Actors /\ \A b \in Actors : b # s => todo'[b] = todo[b]
    BY <1>0, <1>9 DEF BeginStep, FillStep, Goes, Fails, GoesOn
  <2> QED
    BY <1>0, <1>9, <2>1 DEF StillMoves
<1>10. Who
  BY <1>1, <1>2, <1>3, <1>4, <1>5, <1>6, <1>7, <1>8, <1>9 DEF NodeStep
<1>11. StartStep(Caller) => CurrentStill \in Stills /\ todo[CurrentStill] = << >>
  BY CallFacts DEF StartStep, At, NodesInv, Fresh
<1> QED
  BY <1>10, <1>11

LEMMA LoopKept == ASSUME NodesInv, NodeStep PROVE LoopOK'
<1>1. CASE todo'[PreviewLoop] = todo[PreviewLoop]
  BY <1>1 DEF NodesInv, LoopOK
<1>2. CASE PlainStep(PreviewLoop)
  <2>1. todo[PreviewLoop] # << >> /\ PreviewLoop \in DOMAIN todo
    BY <1>2, ActorsAre DEF PlainStep, At, NodesInv, TodoType
  <2>2. todo'[PreviewLoop] \in {Tail(todo[PreviewLoop]),
           After(Head(todo[PreviewLoop]).onFailure, Tail(todo[PreviewLoop]))}
    BY <1>2, <2>1 DEF PlainStep, Goes, Fails
  <2>3. Head(todo[PreviewLoop]).onFailure \in {"ignore", "recording_error"} 
        /\ Tail(todo[PreviewLoop]) \in Seq(LoopOps)
    BY <2>1, LoopFacts DEF NodesInv
  <2> QED
    BY <2>2, <2>3, AfterIs, LoopIs DEF LoopOK
<1>3. CASE ArmStep
  BY <1>3, LoopIs, ActorsAre DEF ArmStep, LoopOK, NodesInv, TodoType
<1> QED
  BY <1>1, <1>2, <1>3, WhoMoves

LEMMA Monotone ==
  ASSUME NodesInv, NodeStep
  PROVE  UNCHANGED frontCamera /\ mishaps \subseteq mishaps' /\ (Bad => Bad') /\ (Overlapped => Overlapped')
<1>1. UNCHANGED frontCamera /\ mishaps \subseteq mishaps'
  BY DEF NodeStep, IdleStep, ArmStep, CallStep, FreedStep, PlainStep, StuckStep, TakeStep, FillStep,
     StartStep, MapStep, EndStep, WaitStep, StopStep, BeginStep, Kept, MapPicture, keptByNodes
<1> QED
  BY <1>1 DEF Bad, Overlapped

-----------------------------------------------------------------------------
(* The threads of the stills.                                                *)
LEMMA ReadingIsEarly ==
  ASSUME NEW P \in ThreadPrograms, NEW k \in Nat, k > 0
  PROVE  /\ Reading(P, k) => k \in 1..Len(Thread(P))
         /\ Reading(P, k + 1) => Reading(P, k)
<1>1. frontCamera => Len(FrontThread) = 22
  BY DEF FrontThread
<1>2. Len(RearThread) = 17 /\ Len(BeginThread) = 1
  BY DEF RearThread, BeginThread
<1>3. CASE P = "thread"
  <2>1. Len(Thread(P)) = IF frontCamera THEN 22 ELSE 17
    BY <1>1, <1>2, <1>3 DEF Thread
  <2>2. Reading(P, k) <=> k <= IF frontCamera THEN 16 ELSE 11
    BY <1>3 DEF Reading
  <2>3. Reading(P, k + 1) <=> k + 1 <= IF frontCamera THEN 16 ELSE 11
    BY <1>3 DEF Reading
  <2>4. CASE frontCamera
    BY <2>1, <2>2, <2>3, <2>4
  <2>5. CASE ~frontCamera
    BY <2>1, <2>2, <2>3, <2>5
  <2> QED
    BY <2>4, <2>5
<1>4. CASE P = "begin"
  <2>1. Len(Thread(P)) = 1
    BY <1>2, <1>4 DEF Thread
  <2> QED
    BY <1>4, <2>1 DEF Reading
<1> QED
  BY <1>3, <1>4 DEF Reading

LEMMA StillIsAt ==
  ASSUME NEW s \in Stills, NEW P \in ThreadPrograms, NEW n \in 1..(Len(Thread(P)) + 1),
         UNCHANGED frontCamera, todo'[s] = Rest(Thread(P), n),
         Owns(P, n, picture'[s].memories, picture'[s].encoder),
         Reading(P, n) => Mine(s)' \/ Bad'
  PROVE  StillOK(s)'
<1>1. Thread(P)' = Thread(P) /\ Reading(P, n)' = Reading(P, n)
  BY DEF Thread, Reading
<1>2. Owns(P, n, picture[s].memories, picture[s].encoder)'
  BY DEF Owns
<1>3. On(s, P, n)'
  BY <1>1, <1>2 DEF On
<1> QED
  BY <1>1, <1>3 DEF StillOK

(* Nobody but the thread of s takes its buffer away, unless it is overtaken. *)
LEMMA MineStays ==
  ASSUME NodesInv, NodeStep, NEW s \in Stills, todo[s] # << >>, ~MapStep(s), Mine(s)
  PROVE  Mine(s)' \/ Bad'
<1>1. Bad => Bad'
  BY Monotone
<1>2. Alone => FALSE
  BY DEF Alone
<1>3. ASSUME NEW a \in Actors, MapStep(a) PROVE Bad
  <2>1. At(a, {"release_old", "map_picture", "release_picture", "clear_picture"})
    BY <1>3 DEF MapStep, MapPicture
  <2>2. CASE a = Caller
    <3>1. At(Caller, {"release_old", "map_picture", "picture_thread"})
      BY <2>1, <2>2, OnlyCalls, ActorsAre DEF At
    <3> QED
      BY <1>2, <3>1, CallFacts DEF NodesInv, Fresh, Bad
  <2>3. CASE a \in Stills
    BY <1>3, <2>1, <2>3 DEF NodesInv, Running, At, Bad
  <2>4. CASE a = PreviewLoop
    BY <2>1, <2>4, OnlyCalls, ActorsAre DEF At
  <2> QED
    BY <2>2, <2>3, <2>4, ActorsAre
<1>4. ASSUME FreedStep PROVE Bad
  BY <1>2, <1>4, CallFacts DEF FreedStep, NodesInv
<1>5. ASSUME UNCHANGED pictureMaps PROVE Mine(s)'
  BY <1>5 DEF pictureMaps, Mine
<1> QED
  BY <1>1, <1>3, <1>4, <1>5 DEF NodeStep, IdleStep, ArmStep, CallStep, PlainStep, StuckStep, TakeStep,
     FillStep, StartStep, EndStep, WaitStep, StopStep, BeginStep, Kept

LEMMA PictureStays ==
  ASSUME NodesInv, NodeStep, NEW s \in Stills, ~FillStep(s)
  PROVE  picture'[s].memories = picture[s].memories /\ picture'[s].encoder = picture[s].encoder
<1> USE DEF NodesInv, PictureType
<1>1. CASE UNCHANGED picture
  BY <1>1
<1>2. CASE TakeStep
  BY <1>2 DEF TakeStep
<1>3. ASSUME NEW t \in Stills, FillStep(t)
      PROVE  picture'[s].memories = picture[s].memories /\ picture'[s].encoder = picture[s].encoder
  BY <1>3 DEF FillStep
<1> QED
  BY <1>1, <1>2, <1>3 DEF NodeStep, IdleStep, ArmStep, CallStep, FreedStep, PlainStep, StuckStep,
     StartStep, MapStep, EndStep, WaitStep, StopStep, BeginStep, Kept, MapPicture

LEMMA StillKept == ASSUME NodesInv, NodeStep, NEW s \in Stills PROVE StillOK(s)'
<1> USE DEF NodesInv
<1>0. PICK P \in ThreadPrograms : \E k \in 1..(Len(Thread(P)) + 1) : On(s, P, k)
  BY DEF StillOK
<1>1. PICK k \in 1..(Len(Thread(P)) + 1) : On(s, P, k)
  BY <1>0
<1>2. /\ UNCHANGED frontCamera /\ (Bad => Bad') /\ (Overlapped => Overlapped')
  BY Monotone
<1>3. /\ Thread(P) \in Seq(Ops) /\ Len(Thread(P)) \in Nat /\ k \in Nat /\ k > 0
      /\ s \in Actors /\ s \in DOMAIN todo /\ s # Caller
  BY ThreadsAre, ActorsAre DEF TodoType
<1>4. /\ Reading(P, k) => k \in 1..Len(Thread(P))
      /\ Reading(P, k + 1) => Reading(P, k)
      /\ Reading(P, k + 2) => Reading(P, k + 1)
  BY <1>3, ReadingIsEarly
<1>5. Reading(P, k) => todo[s] # << >>
  BY <1>1, <1>3, <1>4, RestGoes DEF On
<1>6. ~MapStep(s) => (Reading(P, k) => Mine(s)' \/ Bad')
  BY <1>1, <1>2, <1>5, MineStays DEF On
<1>7. ASSUME todo'[s] = todo[s], ~StillMoves(s) PROVE StillOK(s)'
  <2>1. ~FillStep(s) /\ ~MapStep(s)
    BY <1>7 DEF StillMoves
  <2>2. Owns(P, k, picture'[s].memories, picture'[s].encoder)
    BY <1>1, <2>1, PictureStays DEF On
  <2> QED
    BY <1>1, <1>2, <1>6, <1>7, <2>1, <2>2, StillIsAt DEF On
<1>8. todo[s] # << >> =>
        /\ k \in 1..Len(Thread(P)) /\ k + 1 \in 1..(Len(Thread(P)) + 1)
        /\ Head(todo[s]) = Thread(P)[k] /\ Tail(todo[s]) = Rest(Thread(P), k + 1)
        /\ Goes1(P, k, Head(todo[s]), picture[s].memories, picture[s].encoder)
        /\ Fails1(Head(todo[s]), picture[s].memories, picture[s].encoder)
  <2>1. todo[s] # << >> =>
          /\ k \in 1..Len(Thread(P))
          /\ Head(todo[s]) = Thread(P)[k] /\ Tail(todo[s]) = Rest(Thread(P), k + 1)
          /\ Goes1(P, k, Head(todo[s]), picture[s].memories, picture[s].encoder)
          /\ Fails1(Head(todo[s]), picture[s].memories, picture[s].encoder)
    BY <1>1, StillHead
  <2> QED
    BY <1>3, <2>1
(* An operation goes on to the next, or fails and leaves the still as it is.  *)
<1>9. ASSUME todo[s] # << >>, Goes(s), Head(todo[s]).op \notin FillOps, UNCHANGED picture,
             Reading(P, k) => Mine(s)' \/ Bad'
      PROVE  StillOK(s)'
  <2>1. todo'[s] = Rest(Thread(P), k + 1)
    BY <1>3, <1>8, <1>9 DEF Goes
  <2>2. Owns(P, k + 1, picture'[s].memories, picture'[s].encoder)
    BY <1>8, <1>9 DEF Goes1
  <2> QED
    BY <1>2, <1>4, <1>8, <1>9, <2>1, <2>2, StillIsAt
<1>10. ASSUME todo[s] # << >>, Fails(s), Head(todo[s]).op \notin {"encoder_close", "release_data"},
              UNCHANGED picture, Reading(P, k) => Mine(s)' \/ Bad'
       PROVE  StillOK(s)'
  <2> DEFINE o == Head(todo[s])
  <2>1. todo'[s] = After(o.onFailure, Tail(todo[s]))
    BY <1>3, <1>10 DEF Fails
  <2>2. CASE o.onFailure = "ignore" /\ (o.op \in FillOps => o.op \in {"encoder_close", "release_data"})
    <3>1. Goes(s)
      BY <1>10, <2>2, AfterIs DEF Goes, Fails
    <3> QED
      BY <1>9, <1>10, <2>2, <3>1
  <2>3. CASE o.onFailure # "ignore"
    <3>1. PICK Q \in {"failed", "erring", "closing"} :
            /\ todo'[s] = Thread(Q)
            /\ Owns(Q, 1, picture[s].memories, picture[s].encoder)
      BY <1>8, <1>10, <2>1, <2>3, AfterIs DEF Fails1, Owns
    <3>2. Q \in ThreadPrograms /\ ~Reading(Q, 1)
      BY DEF ThreadPrograms, Reading
    <3>3. todo'[s] = Rest(Thread(Q), 1) /\ 1 \in 1..(Len(Thread(Q)) + 1)
      BY <3>1, <3>2, ThreadsAre, RestEnds
    <3> QED
      BY <1>2, <1>10, <3>1, <3>2, <3>3, StillIsAt
  <2> QED
    BY <1>8, <1>10, <2>2, <2>3 DEF Fails1
<1>11. ASSUME PlainStep(s) PROVE StillOK(s)'
  <2>1. todo[s] # << >> /\ Head(todo[s]).op \notin FillOps /\ UNCHANGED picture
    BY <1>11 DEF PlainStep, At, PlainOps, FillOps, Memories, Ioctls, BufferIoctls, StreamIoctls,
                FormatIoctls, InputIoctls, ControlIoctls, Kept
  <2>2. ~MapStep(s)
    BY <1>11 DEF PlainStep, MapStep, MapPicture, At, PlainOps, Ioctls, BufferIoctls, StreamIoctls,
                FormatIoctls, InputIoctls, ControlIoctls
  <2>3. Head(todo[s]).op \notin {"encoder_close", "release_data"}
    BY <2>1 DEF FillOps
  <2> QED
    BY <1>6, <1>9, <1>10, <1>11, <2>1, <2>2, <2>3 DEF PlainStep
<1>12. ASSUME EndStep(s) PROVE StillOK(s)'
  <2>1. todo[s] # << >> /\ Head(todo[s]).op \notin FillOps /\ UNCHANGED picture /\ ~MapStep(s)
    BY <1>12 DEF EndStep, At, FillOps, Memories, MapStep, MapPicture
  <2> QED
    BY <1>6, <1>9, <1>12, <2>1 DEF EndStep
<1>13. ASSUME MapStep(s) PROVE StillOK(s)'
  <2>1. At(s, {"release_picture", "clear_picture"}) /\ UNCHANGED picture
    <3>1. At(s, {"release_old", "map_picture", "release_picture", "clear_picture"}) /\ UNCHANGED picture
      BY <1>13 DEF MapStep, MapPicture
    <3> QED
      BY <1>3, <3>1, OnlyCalls DEF At
  <2>2. todo[s] # << >> /\ Head(todo[s]).op \notin FillOps /\ ~Reading(P, k)
    BY <1>8, <2>1, ThreadMarks DEF At, FillOps, Memories
  <2>3. Goes(s) \/ (At(s, {"release_picture"}) /\ todo' = [todo EXCEPT ![s] = Tail(Tail(@))])
    <3>1. ~At(s, {"release_old"}) /\ ~At(s, {"map_picture"})
      BY <2>1 DEF At
    <3>2. CASE picture_memory = 0
      BY <1>13, <3>1, <3>2 DEF MapStep, MapPicture, Goes
    <3>3. CASE picture_memory # 0
      BY <1>13, <3>1, <3>3 DEF MapStep, MapPicture, Goes
    <3> QED
      BY <3>2, <3>3
  <2>4. ASSUME At(s, {"release_picture"}), todo' = [todo EXCEPT ![s] = Tail(Tail(@))]
        PROVE  StillOK(s)'
    <3>1. k + 1 <= Len(Thread(P)) /\ Owns(P, k + 2, picture[s].memories, picture[s].encoder)
      BY <1>8, <2>2, <2>4 DEF Goes1, At
    <3>2. k + 1 \in 1..Len(Thread(P)) /\ k + 2 \in 1..(Len(Thread(P)) + 1) /\ (k + 1) + 1 = k + 2
      BY <1>3, <3>1
    <3>3. Tail(Tail(todo[s])) = Rest(Thread(P), k + 2)
      BY <1>3, <1>8, <2>2, <3>2, RestGoes
    <3>4. todo'[s] = Rest(Thread(P), k + 2)
      BY <1>3, <2>4, <3>3
    <3> QED
      BY <1>2, <1>4, <2>1, <2>2, <3>1, <3>2, <3>4, StillIsAt
  <2> QED
    BY <1>9, <2>1, <2>2, <2>3, <2>4
<1>14. ASSUME BeginStep(s) PROVE StillOK(s)'
  <2>1. todo[s] # << >> /\ Head(todo[s]).op = "picture_begin" /\ UNCHANGED picture /\ ~MapStep(s)
    BY <1>14 DEF BeginStep, At, Kept, MapStep, MapPicture
  <2>2. P = "begin"
    BY <1>8, <2>1 DEF Goes1
  <2>3. Len(Thread(P)) = 1
    BY <2>2 DEF Thread, BeginThread
  <2>4. k = 1 /\ Tail(todo[s]) = << >>
    <3>1. k = 1
      BY <1>8, <2>1, <2>3
    <3> QED
      BY <1>3, <1>8, <2>1, <2>3, <3>1, RestEnds
  <2>5. picture[s].memories = {} /\ ~picture[s].encoder /\ (Mine(s)' \/ Bad')
    BY <1>1, <1>6, <2>1, <2>2, <2>4 DEF On, Owns, Reading
  <2>6. PICK Q \in {"thread", "cancelled"} : todo'[s] = Thread(Q)
    <3>1. PictureThread = Thread("thread") /\ CancelledThread = Thread("cancelled")
      BY FrontIs, RearIs DEF Thread
    <3>2. Thread("thread") \in Seq(Ops) /\ Thread("cancelled") \in Seq(Ops)
      BY ThreadsAre DEF ThreadPrograms
    <3>3. /\ Thread("thread") \o << >> = Thread("thread")
          /\ Thread("cancelled") \o << >> = Thread("cancelled")
      BY <3>2, ConcatEmptySeq
    <3>4. todo'[s] = PictureThread \o Tail(todo[s]) \/ todo'[s] = CancelledThread \o Tail(todo[s])
      BY <1>3, <1>14 DEF BeginStep, GoesOn
    <3> QED
      BY <2>4, <3>1, <3>3, <3>4
  <2>7. Owns(Q, 1, picture'[s].memories, picture'[s].encoder)
    BY <2>1, <2>5 DEF Owns, FrontMemories, RearMemories
  <2>8. Q \in ThreadPrograms /\ todo'[s] = Rest(Thread(Q), 1) /\ 1 \in 1..(Len(Thread(Q)) + 1)
    BY <2>6, ThreadsAre, RestEnds DEF ThreadPrograms
  <2> QED
    BY <1>2, <2>5, <2>7, <2>8, StillIsAt
<1>15. ASSUME FillStep(s) PROVE StillOK(s)'
  <2> DEFINE o == Head(todo[s])
  <2>1. todo[s] # << >> /\ o.op \in FillOps /\ UNCHANGED <<pictureMaps>> /\ ~MapStep(s)
    BY <1>15 DEF FillStep, At, MapStep, MapPicture, FillOps, Memories
  <2>2. CASE /\ Goes(s)
             /\ picture' = [picture EXCEPT ![s].memories = Filled(o.op, @),
                                           ![s].encoder = FilledEncoder(o.op, @)]
    <3>1. /\ picture'[s].memories = Filled(o.op, picture[s].memories)
          /\ picture'[s].encoder = FilledEncoder(o.op, picture[s].encoder)
      BY <2>2 DEF PictureType
    <3>2. Owns(P, k + 1, picture'[s].memories, picture'[s].encoder)
      BY <1>8, <2>1, <3>1 DEF Goes1
    <3>3. todo'[s] = Rest(Thread(P), k + 1)
      BY <1>3, <1>8, <2>1, <2>2 DEF Goes
    <3> QED
      BY <1>2, <1>4, <1>6, <1>8, <2>1, <3>2, <3>3, StillIsAt
  <2>3. CASE Fails(s) /\ o.op \notin {"encoder_close", "release_data"} /\ UNCHANGED picture
    BY <1>6, <1>10, <2>1, <2>3
  <2> QED
    BY <1>15, <2>2, <2>3 DEF FillStep
<1>16. ASSUME StartStep(Caller), CurrentStill = s PROVE StillOK(s)'
  <2>1. todo[s] = << >> /\ UNCHANGED <<picture, pictureMaps>> /\ At(Caller, {"picture_thread"})
    BY <1>16, WhoMoves DEF StartStep, Kept
  <2>2. picture[s].memories = {} /\ ~picture[s].encoder
    BY <2>1, EndOwns
  <2>3. Mine(s)' \/ Bad'
    <3>1. Mine(s) \/ Overlapped
      BY <1>16, <2>1, CallFacts
    <3> QED
      BY <1>2, <2>1, <3>1 DEF Mine, pictureMaps, Bad
  <2>4. todo'[s] = Thread("begin")
    BY <1>3, <1>16 DEF StartStep, Thread, BeginThread
  <2>5. "begin" \in ThreadPrograms /\ todo'[s] = Rest(Thread("begin"), 1)
        /\ 1 \in 1..(Len(Thread("begin")) + 1)
    BY <2>4, ThreadsAre, RestEnds DEF ThreadPrograms
  <2>6. Owns("begin", 1, picture'[s].memories, picture'[s].encoder)
    BY <2>1, <2>2 DEF Owns
  <2> QED
    BY <1>2, <2>3, <2>5, <2>6, StillIsAt
<1> QED
  BY <1>7, <1>11, <1>12, <1>13, <1>14, <1>15, <1>16, WhoMoves DEF StillMoves

-----------------------------------------------------------------------------
(* Who has a thread.                                                         *)
LEMMA OnlyStarts ==
  ASSUME NodesInv, NodeStep, NEW s \in Stills, todo'[s] # << >>
  PROVE  todo[s] # << >> \/ (StartStep(Caller) /\ CurrentStill = s)
<1>1. CASE todo'[s] = todo[s]
  BY <1>1
<1>2. CASE StillMoves(s)
  BY <1>2 DEF StillMoves, PlainStep, MapStep, MapPicture, EndStep, BeginStep, FillStep, At
<1> QED
  BY <1>1, <1>2, WhoMoves

LEMMA AloneStays ==
  ASSUME NodesInv, NodeStep, Alone, ~StartStep(Caller)
  PROVE  Alone'
  BY OnlyStarts DEF Alone

LEMMA FreshStays ==
  ASSUME NodesInv, NodeStep, Fresh, ~StartStep(Caller), ~TakeStep
  PROVE  Fresh'
<1>1. UNCHANGED CurrentStill
  BY MadeKept
<1>2. Alone => Alone'
  BY AloneStays
<1>3. Overlapped => Overlapped'
  BY Monotone
<1>4. todo'[CurrentStill] = << >>
  BY OnlyStarts DEF Fresh
<1> QED
  BY <1>1, <1>2, <1>3, <1>4 DEF Fresh

LEMMA MadeStays ==
  ASSUME NodesInv, NodeStep, NEW s \in Stills, picture[s].made
  PROVE  picture'[s].made
<1> USE DEF NodesInv, PictureType
<1>1. CASE UNCHANGED picture
  BY <1>1
<1>2. CASE TakeStep
  BY <1>2 DEF TakeStep
<1>3. ASSUME NEW t \in Stills, FillStep(t) PROVE picture'[s].made
  BY <1>3 DEF FillStep
<1> QED
  BY <1>1, <1>2, <1>3 DEF NodeStep, IdleStep, ArmStep, CallStep, FreedStep, PlainStep, StuckStep,
     StartStep, MapStep, EndStep, WaitStep, StopStep, BeginStep, Kept, MapPicture

LEMMA EndIsLast ==
  ASSUME NodesInv, NEW s \in Stills, EndStep(s)
  PROVE  todo'[s] = << >>
<1>0. PICK P \in ThreadPrograms : \E k \in 1..(Len(Thread(P)) + 1) : On(s, P, k)
  BY DEF NodesInv, StillOK
<1>1. PICK k \in 1..(Len(Thread(P)) + 1) : On(s, P, k)
  BY <1>0
<1>2. todo[s] # << >> /\ Head(todo[s]).op = "not_started" /\ todo'[s] = Tail(todo[s])
  BY ActorsAre DEF EndStep, At, Goes, NodesInv, TodoType
<1>3. k \in 1..Len(Thread(P)) /\ Head(todo[s]) = Thread(P)[k] /\ Tail(todo[s]) = Rest(Thread(P), k + 1)
  BY <1>1, <1>2, StillHead DEF NodesInv
<1>4. k = Len(Thread(P))
  BY <1>2, <1>3, ThreadMarks
<1> QED
  BY <1>2, <1>3, <1>4, ThreadsAre, RestEnds

LEMMA RunningKept == ASSUME NodesInv, NodeStep PROVE Running'
<1> SUFFICES ASSUME NEW s \in Stills, todo'[s] # << >>
             PROVE  /\ picture'[s].made /\ (picture_thread_started' \/ Bad')
                    /\ \A t \in Stills : todo'[t] # << >> /\ t # s => Overlapped'
  BY DEF Running, Bad, Overlapped
<1> USE DEF NodesInv
<1>1. (Bad => Bad') /\ (Overlapped => Overlapped') /\ (Overlapped => Bad)
  BY Monotone DEF Bad
<1>2. StartStep(Caller) => Fresh /\ picture_thread_started'
  BY CallFacts DEF StartStep, At
<1>3. picture'[s].made
  <2>1. CASE todo[s] # << >>
    BY <2>1, MadeStays DEF Running
  <2>2. CASE StartStep(Caller) /\ CurrentStill = s
    <3>1. picture[s].made
      BY <2>2, StillNumbers DEF Made
    <3> QED
      BY <3>1, MadeStays
  <2> QED
    BY <2>1, <2>2, OnlyStarts
<1>4. picture_thread_started' \/ Bad'
  <2>1. CASE todo[s] = << >>
    BY <1>2, <2>1, OnlyStarts
  <2>2. CASE todo[s] # << >>
    <3>1. picture_thread_started \/ Bad
      BY <2>2 DEF Running
    <3>2. ASSUME FreedStep PROVE Bad
      BY <2>2, <3>2, CallFacts DEF FreedStep, Alone
    <3>3. ASSUME NEW a \in Actors, EndStep(a) PROVE Bad
      <4>1. a \in Stills /\ todo[a] # << >>
        BY <3>3, OnlyCalls DEF EndStep, At
      <4>2. a # s
        BY <3>3, <4>1, EndIsLast
      <4> QED
        BY <1>1, <2>2, <4>1, <4>2 DEF Running
    <3>4. \/ picture_thread_started => picture_thread_started'
          \/ FreedStep \/ \E a \in Actors : EndStep(a)
      BY DEF NodeStep, IdleStep, ArmStep, CallStep, PlainStep, StuckStep, TakeStep, FillStep,
             StartStep, MapStep, WaitStep, StopStep, BeginStep, Kept, MapPicture, pictureFlags
    <3> QED
      BY <1>1, <3>1, <3>2, <3>3, <3>4
  <2> QED
    BY <2>1, <2>2
<1>5. ASSUME NEW t \in Stills, todo'[t] # << >>, t # s PROVE Overlapped'
  <2>1. CASE todo[s] # << >> /\ todo[t] # << >>
    BY <1>1, <1>5, <2>1 DEF Running
  <2>2. CASE todo[s] = << >>
    <3>1. StartStep(Caller) /\ CurrentStill = s
      BY <2>2, OnlyStarts
    <3>2. todo[t] # << >>
      BY <1>5, <3>1, OnlyStarts
    <3> QED
      BY <1>1, <1>2, <3>1, <3>2 DEF Fresh, Alone
  <2>3. CASE todo[t] = << >>
    <3>1. StartStep(Caller) /\ CurrentStill = t
      BY <1>5, <2>3, OnlyStarts
    <3>2. todo[s] # << >>
      BY <1>5, <3>1, OnlyStarts
    <3> QED
      BY <1>1, <1>2, <3>1, <3>2 DEF Fresh, Alone
  <2> QED
    BY <2>1, <2>2, <2>3
<1> QED
  BY <1>3, <1>4, <1>5

-----------------------------------------------------------------------------
(* The wrapper's call.                                                       *)
LEMMA CallStarts ==
  ASSUME NEW P \in CallPrograms, P # "picture" \/ Fresh', todo'[Caller] = Program(P)
  PROVE  CallOK'
<1>1. Program(P) \in Seq(Ops) /\ Len(Program(P)) \in Nat
  BY CallProgramsAre, LenProperties
<1>2. Rest(Program(P), 1) = Program(P) /\ << >> \o Program(P) = Program(P)
  BY <1>1, RestEnds, ConcatEmptySeq
<1>3. 1 \in 1..(Len(Program(P)) + 1) /\ << >> \in Seq(NestedOps)
  BY <1>1
<1>4. CallOn(P, 1, << >>)'
  BY <1>2 DEF CallOn, Freeing
<1> QED
  BY <1>3, <1>4 DEF CallOK

LEMMA AloneUnless ==
  ASSUME NodesInv, NodeStep, ~picture_thread_started, ~StartStep(Caller)
  PROVE  Alone' \/ Bad'
<1>1. Alone \/ Bad
  BY DEF NodesInv, Running, Alone
<1> QED
  BY <1>1, AloneStays, Monotone


(* What is left of its program, from the n-th operation on, after q.          *)
LEMMA CallIsAt ==
  ASSUME NEW P \in CallPrograms, NEW n \in 1..(Len(Program(P)) + 1), NEW q \in Seq(NestedOps),
         todo'[Caller] = q \o Rest(Program(P), n),
         P = "picture" /\ n < 12 => Fresh',
         P = "picture" /\ n \in 8..11 => Mine(CurrentStill)' \/ Overlapped',
         Freeing(P, n) => Alone' \/ Bad' \/ Waits(q)
  PROVE  CallOK'
<1>1. CallOn(P, n, q)'
  BY DEF CallOn, Freeing
<1> QED
  BY <1>1 DEF CallOK

LEMMA MineOfCall ==
  ASSUME NodesInv, NodeStep, Fresh, ~CallMoves, Mine(CurrentStill) \/ Overlapped
  PROVE  Mine(CurrentStill)' \/ Overlapped'
<1>1. UNCHANGED CurrentStill
  BY MadeKept DEF CallMoves
<1>2. Overlapped => Overlapped'
  BY Monotone
<1>3. ASSUME NEW a \in Actors, MapStep(a) PROVE Overlapped
  <2>1. a # Caller /\ todo[a] # << >>
    BY <1>3 DEF CallMoves, MapStep, MapPicture, At
  <2>2. a \in Stills
    BY <1>3, <2>1, OnlyCalls DEF MapStep, MapPicture, At
  <2> QED
    BY <2>1, <2>2 DEF Fresh, Alone
<1>4. ~FreedStep
  BY DEF CallMoves
<1>5. UNCHANGED pictureMaps \/ \E a \in Actors : MapStep(a)
  BY <1>4 DEF NodeStep, IdleStep, ArmStep, CallStep, PlainStep, StuckStep, TakeStep,
     FillStep, StartStep, EndStep, WaitStep, StopStep, BeginStep, Kept
<1> QED
  BY <1>1, <1>2, <1>3, <1>5 DEF Mine, pictureMaps

LEMMA CallRests ==
  ASSUME NodesInv, NodeStep, todo'[Caller] = todo[Caller], ~CallMoves
  PROVE  CallOK'
<1>1. PICK P \in CallPrograms : \E k \in 1..(Len(Program(P)) + 1) : \E p \in Seq(NestedOps) : CallOn(P, k, p)
  BY DEF NodesInv, CallOK
<1>2. PICK k \in 1..(Len(Program(P)) + 1) : \E p \in Seq(NestedOps) : CallOn(P, k, p)
  BY <1>1
<1>3. PICK p \in Seq(NestedOps) : CallOn(P, k, p)
  BY <1>2
<1>4. ~StartStep(Caller) /\ ~TakeStep
  BY DEF CallMoves
<1>5. k \in Nat
  OBVIOUS
<1>6. P = "picture" /\ k < 12 => Fresh /\ Fresh'
  BY <1>3, <1>4, FreshStays DEF CallOn
<1>7. P = "picture" /\ k \in 8..11 => Mine(CurrentStill)' \/ Overlapped'
  BY <1>3, <1>6, MineOfCall DEF CallOn
<1>8. Freeing(P, k) => Alone' \/ Bad' \/ Waits(p)
  BY <1>3, <1>4, AloneStays, Monotone DEF CallOn
<1>9. todo'[Caller] = p \o Rest(Program(P), k)
  BY <1>3 DEF CallOn
<1> QED
  BY <1>6, <1>7, <1>8, <1>9, CallIsAt

LEMMA WaitsIn ==
  ASSUME NEW p \in Seq(NestedOps), p # << >>, Waits(p), Head(p).op # "picture_wait",
         NEW q \in Seq(NestedOps)
  PROVE  Waits(Tail(p)) /\ Waits(q \o Tail(p))
<1>1. PICK i \in 1..Len(p) : p[i].op = "picture_wait"
  BY DEF Waits
<1>2. /\ Tail(p) \in Seq(NestedOps) /\ Head(p) = p[1] /\ Len(Tail(p)) = Len(p) - 1
      /\ \A j \in 1..Len(Tail(p)) : Tail(p)[j] = p[j + 1]
  BY TailsAre
<1>3. Len(p) \in Nat /\ Len(q) \in Nat
  BY LenProperties
<1>4. i # 1
  BY <1>1, <1>2
<1>5. i - 1 \in 1..Len(Tail(p)) /\ (i - 1) + 1 = i
  BY <1>2, <1>3, <1>4
<1>6. Tail(p)[i - 1].op = "picture_wait"
  BY <1>1, <1>2, <1>5
<1>7. /\ Len(q \o Tail(p)) = Len(q) + Len(Tail(p))
      /\ \A j \in 1..Len(q) + Len(Tail(p)) :
           (q \o Tail(p))[j] = IF j <= Len(q) THEN q[j] ELSE Tail(p)[j - Len(q)]
  BY <1>2, ConcatProperties
<1>8. Len(q) + (i - 1) \in 1..Len(q) + Len(Tail(p)) /\ ~(Len(q) + (i - 1) <= Len(q))
      /\ (Len(q) + (i - 1)) - Len(q) = i - 1
  BY <1>2, <1>3, <1>5
<1>9. (q \o Tail(p))[Len(q) + (i - 1)].op = "picture_wait"
  BY <1>6, <1>7, <1>8
<1> QED
  BY <1>5, <1>6, <1>7, <1>8, <1>9 DEF Waits

(* It has done an operation, whose rest q it does next if it was a stop.     *)
LEMMA CallGoesOn ==
  ASSUME NodesInv, NodeStep, todo[Caller] # << >>, NEW q \in Seq(NestedOps),
         todo'[Caller] = q \o Tail(todo[Caller]),
         Head(todo[Caller]).op # "map_picture",
         Head(todo[Caller]).op = "picture_wait" => Alone' \/ Bad',
         Head(todo[Caller]).op = "picture_stop" => Alone' \/ Bad' \/ Waits(q),
         UNCHANGED pictureMaps \/ Head(todo[Caller]).op \in {"release_old", "freed"}
  PROVE  CallOK'
<1>1. PICK P \in CallPrograms : \E k \in 1..(Len(Program(P)) + 1) : \E p \in Seq(NestedOps) : CallOn(P, k, p)
  BY DEF NodesInv, CallOK
<1>2. PICK k \in 1..(Len(Program(P)) + 1) : \E p \in Seq(NestedOps) : CallOn(P, k, p)
  BY <1>1
<1>3. PICK p \in Seq(NestedOps) : CallOn(P, k, p)
  BY <1>2
<1> DEFINE o == Head(todo[Caller])
<1>4. o.op # "picture_thread" => ~StartStep(Caller)
  BY DEF StartStep, At
<1>5. ~TakeStep /\ (Overlapped => Overlapped') /\ (Bad => Bad')
  BY Monotone DEF TakeStep
<1>6. k \in Nat /\ k + 1 \in Nat /\ k >= 1 /\ Len(Program(P)) \in Nat
  BY CallProgramsAre, LenProperties
<1>7. P = "picture" /\ k < 12 => Fresh /\ (o.op # "picture_thread" => Fresh')
  BY <1>3, <1>4, <1>5, FreshStays DEF CallOn
<1>8. P = "picture" /\ k < 12 /\ UNCHANGED pictureMaps => (Mine(CurrentStill) => Mine(CurrentStill)')
  BY <1>5, MadeKept DEF Mine, pictureMaps
<1>9. Freeing(P, k) => Alone' \/ Bad' \/ Waits(p)
  <2>1. Freeing(P, k) => P # "picture"
    BY DEF Freeing
  <2>2. ASSUME StartStep(Caller), Freeing(P, k) PROVE Bad \/ Alone' \/ Waits(p)
    <3>1. o.op = "picture_thread"
      BY <2>2 DEF StartStep, At
    <3>2. o.op \notin Allowed
      BY <3>1 DEF Allowed
    <3>3. ~(P = "picture") => o.op # "picture_thread"
      <4>1. todo[Caller] = p \o Rest(Program(P), k)
        BY <1>3 DEF CallOn
      <4> QED
        BY <3>2, <4>1, CallHead DEF CallGoes1, NestedOps
    <3> QED
      BY <2>1, <2>2, <3>1, <3>3
  <2> QED
    BY <1>3, <1>5, <2>2, AloneStays DEF CallOn
<1>10. todo[Caller] = p \o Rest(Program(P), k)
  BY <1>3 DEF CallOn
<1>11. CASE /\ p # << >> /\ o = Head(p) /\ Head(p) \in NestedOps
            /\ q \o Tail(p) \in Seq(NestedOps)
            /\ todo'[Caller] = (q \o Tail(p)) \o Rest(Program(P), k)
  <2>1. o.op \in Allowed
    BY <1>11 DEF NestedOps
  <2>2. o.op \notin {"picture_thread", "release_old", "freed", "picture_stop"}
    BY <2>1 DEF Allowed
  <2>3. P = "picture" /\ k < 12 => Fresh'
    BY <1>7, <2>2
  <2>4. P = "picture" /\ k \in 8..11 => Mine(CurrentStill)' \/ Overlapped'
    BY <1>3, <1>5, <1>6, <1>8, <2>2 DEF CallOn
  <2>5. Freeing(P, k) => Alone' \/ Bad' \/ Waits(q \o Tail(p))
    BY <1>9, <1>11, WaitsIn
  <2> QED
    BY <1>11, <2>3, <2>4, <2>5, CallIsAt
<1>12. CASE /\ p = << >> /\ k \in 1..Len(Program(P)) /\ CallGoes1(P, k, o)
            /\ todo'[Caller] = q \o Rest(Program(P), k + 1)
  <2> HIDE DEF o
  <2>1. k + 1 \in 1..(Len(Program(P)) + 1)
    BY <1>6, <1>12
  <2>2. ~Waits(p)
    BY <1>12 DEF Waits
  <2>3. P = "picture" /\ k + 1 < 12 => Fresh'
    BY <1>6, <1>7, <1>12 DEF CallGoes1
  <2>4. P = "picture" /\ k + 1 \in 8..11 => Mine(CurrentStill)' \/ Overlapped'
    <3>1. SUFFICES ASSUME P = "picture", k + 1 \in 8..11 PROVE Mine(CurrentStill)' \/ Overlapped'
      OBVIOUS
    <3>2. k # 7
      BY <1>12, <3>1 DEF CallGoes1, o
    <3>3. k \in 8..11 /\ k < 12
      BY <1>6, <3>1, <3>2
    <3>4. o.op \notin {"release_old", "freed"}
      BY <1>12, <3>1, <3>3 DEF CallGoes1, Freeing
    <3> QED
      BY <1>3, <1>5, <1>8, <3>1, <3>3, <3>4 DEF CallOn, o
  <2>5. Freeing(P, k + 1) => Alone' \/ Bad' \/ Waits(q)
    BY <1>9, <1>12, <2>2 DEF CallGoes1, o
  <2> QED
    BY <1>12, <2>1, <2>3, <2>4, <2>5, CallIsAt
<1>13. ASSUME NEW r \in Seq(Ops), Tail(todo[Caller]) = << >> \o r PROVE Tail(todo[Caller]) = r
  BY <1>13, ConcatEmptySeq
<1> QED
  BY <1>10, <1>11, <1>12, CallHead

LEMMA CallFails ==
  ASSUME NodesInv, NodeStep, todo[Caller] # << >>, Fails(Caller),
         UNCHANGED pictureMaps \/ Head(todo[Caller]).op = "map_picture",
         Head(todo[Caller]).op \notin {"picture_wait", "picture_stop"}
  PROVE  CallOK'
<1>1. PICK P \in CallPrograms : \E k \in 1..(Len(Program(P)) + 1) : \E p \in Seq(NestedOps) : CallOn(P, k, p)
  BY DEF NodesInv, CallOK
<1>2. PICK k \in 1..(Len(Program(P)) + 1) : \E p \in Seq(NestedOps) : CallOn(P, k, p)
  BY <1>1
<1>3. PICK p \in Seq(NestedOps) : CallOn(P, k, p)
  BY <1>2
<1> DEFINE o == Head(todo[Caller])
<1>4. todo[Caller] = p \o Rest(Program(P), k)
  BY <1>3 DEF CallOn
<1>5. todo'[Caller] = After(o.onFailure, Tail(todo[Caller]))
  BY ActorsAre DEF Fails, NodesInv, TodoType
<1>6. ASSUME o.onFailure = "ignore", o.op # "map_picture" PROVE CallOK'
  <2>1. Tail(todo[Caller]) \in Seq(Ops)
    BY ActorsAre, TailsAre DEF NodesInv, TodoType
  <2>2. << >> \in Seq(NestedOps) /\ todo'[Caller] = << >> \o Tail(todo[Caller])
    BY <1>5, <1>6, <2>1, AfterIs, ConcatEmptySeq
  <2> QED
    BY <1>6, <2>2, CallGoesOn
<1>7. CASE o = Head(p) /\ Head(p) \in NestedOps
  BY <1>6, <1>7 DEF NestedOps, Allowed
<1>8. CASE CallGoes1(P, k, o)
  <2>1. CASE o.onFailure = "ignore"
    BY <1>6, <1>8, <2>1 DEF CallGoes1
  <2>2. CASE o.onFailure # "ignore"
    <3>1. PICK Q \in {"returned", "deinit", "error", "errorOn"} : todo'[Caller] = Program(Q)
      BY <1>5, <1>8, <2>2, AfterIs DEF CallGoes1
    <3> QED
      BY <3>1, CallStarts DEF CallPrograms
  <2> QED
    BY <2>1, <2>2
<1> QED
  BY <1>4, <1>7, <1>8, CallHead

LEMMA CallMaps ==
  ASSUME NodesInv, NodeStep, At(Caller, {"map_picture"}), Goes(Caller),
         picture_memory' = CurrentStill, mapped' = mapped \cup {CurrentStill}
  PROVE  CallOK'
<1>1. PICK P \in CallPrograms : \E k \in 1..(Len(Program(P)) + 1) : \E p \in Seq(NestedOps) : CallOn(P, k, p)
  BY DEF NodesInv, CallOK
<1>2. PICK k \in 1..(Len(Program(P)) + 1) : \E p \in Seq(NestedOps) : CallOn(P, k, p)
  BY <1>1
<1>3. PICK p \in Seq(NestedOps) : CallOn(P, k, p)
  BY <1>2
<1>4. todo[Caller] # << >> /\ Head(todo[Caller]).op = "map_picture" /\ todo[Caller] = p \o Rest(Program(P), k)
  BY <1>3 DEF At, CallOn
<1>5. /\ CallGoes1(P, k, Head(todo[Caller]))
      /\ Tail(todo[Caller]) = << >> \o Rest(Program(P), k + 1)
  BY <1>4, CallHead DEF NestedOps, Allowed
<1>6. P = "picture" /\ k = 7
  BY <1>4, <1>5 DEF CallGoes1
<1>7. todo'[Caller] = << >> \o Rest(Program("picture"), 8)
  BY <1>5, <1>6, ActorsAre DEF Goes, NodesInv, TodoType
<1>8. ~StartStep(Caller) /\ ~TakeStep
  BY <1>4 DEF StartStep, TakeStep, At
<1>9. Fresh'
  BY <1>3, <1>6, <1>8, FreshStays DEF CallOn
<1>10. Mine(CurrentStill)'
  BY <1>8, MadeKept DEF Mine
<1>11. "picture" \in CallPrograms /\ << >> \in Seq(NestedOps)
  BY DEF CallPrograms
<1>12. 8 \in 1..(Len(Program("picture")) + 1)
  <2>1. Len(Program("picture")) = 12
    BY CallLengths
  <2>2. 8 \in 1..(12 + 1)
    OBVIOUS
  <2> QED
    BY <2>1, <2>2, Zenon
<1> QED
  BY <1>7, <1>9, <1>10, <1>11, <1>12, CallIsAt DEF Freeing

LEMMA TakenIsFresh ==
  ASSUME NodesInv, NodeStep, TakeStep
  PROVE  Fresh'
<1>1. PICK n \in Stills \cup {0} : CurrentStill = n /\ \A s \in Stills : picture[s].made <=> s <= n
  BY DEF NodesInv, Made
<1>2. n + 1 \in Stills /\ n \in Nat /\ \A s \in Stills : s \in Nat
  BY <1>1, StillNumbers DEF TakeStep
<1>3. \A s \in Stills : picture'[s].made <=> s <= n + 1
  BY <1>1, <1>2 DEF TakeStep, PictureType, NodesInv
<1>4. CurrentStill' = n + 1
  BY <1>2, <1>3, MaxOfMade DEF CurrentStill
<1>5. ~picture[n + 1].made
  BY <1>1, <1>2
<1>6. todo[n + 1] = << >>
  BY <1>2, <1>5 DEF NodesInv, Running
<1>7. \A s \in Stills : todo'[s] = todo[s]
  BY ActorsAre DEF TakeStep, NodesInv, TodoType
<1>8. Alone' \/ Overlapped'
  BY <1>7 DEF TakeStep, Alone, Overlapped
<1> QED
  BY <1>2, <1>4, <1>6, <1>7, <1>8 DEF Fresh

LEMMA CallKept == ASSUME NodesInv, NodeStep PROVE CallOK'
<1> DEFINE o == Head(todo[Caller])
<1>1. /\ Caller \in Actors /\ Caller \notin Stills
      /\ todo \in [Actors -> Seq(Ops)] /\ << >> \in Seq(NestedOps)
  BY ActorsAre DEF NodesInv, TodoType
<1>2. todo[Caller] # << >> => << >> \o Tail(todo[Caller]) = Tail(todo[Caller])
  BY <1>1, TailsAre, ConcatEmptySeq
<1>3. ASSUME todo[Caller] # << >>, todo'[Caller] = Tail(todo[Caller]),
             o.op \notin {"map_picture", "picture_stop"}, o.op = "picture_wait" => Alone' \/ Bad',
             UNCHANGED pictureMaps \/ o.op \in {"release_old", "freed"}
      PROVE  CallOK'
  BY <1>1, <1>2, <1>3, CallGoesOn
<1>4. CASE todo'[Caller] = todo[Caller] /\ ~CallMoves
  BY <1>4, CallRests
<1>5. CASE PlainStep(Caller)
  <2>1. todo[Caller] # << >> /\ UNCHANGED pictureMaps
    BY <1>5 DEF PlainStep, Kept, At
  <2>2. o.op \notin {"map_picture", "picture_stop", "picture_wait"}
    BY <1>5 DEF PlainStep, At, PlainOps, Ioctls, BufferIoctls, StreamIoctls, FormatIoctls,
                InputIoctls, ControlIoctls
  <2>3. CASE Goes(Caller)
    BY <1>1, <1>3, <2>1, <2>2, <2>3 DEF Goes
  <2>4. CASE Fails(Caller)
    BY <2>1, <2>2, <2>4, CallFails
  <2> QED
    BY <1>5, <2>3, <2>4 DEF PlainStep
<1>6. CASE StuckStep(Caller)
  BY <1>6, CallFails DEF StuckStep, Kept, At
<1>7. CASE StartStep(Caller)
  <2>1. CurrentStill # Caller
    BY <1>1, <1>7, WhoMoves
  <2>2. todo[Caller] # << >> /\ todo'[Caller] = Tail(todo[Caller]) /\ o.op = "picture_thread"
        /\ UNCHANGED pictureMaps
    BY <1>1, <1>7, <2>1 DEF StartStep, At, Kept
  <2> QED
    BY <1>3, <2>2
<1>8. CASE MapStep(Caller)
  <2>1. At(Caller, {"release_old", "map_picture"})
    BY <1>1, <1>8, OnlyCalls DEF MapStep, MapPicture, At
  <2>2. CASE At(Caller, {"release_old"})
    <3>1. Goes(Caller)
      BY <1>8, <2>2 DEF MapStep, MapPicture, At
    <3> QED
      BY <1>1, <1>3, <2>2, <3>1 DEF Goes, At
  <2>3. CASE At(Caller, {"map_picture"})
    <3>1. \/ Goes(Caller) /\ picture_memory' = CurrentStill /\ mapped' = mapped \cup {CurrentStill}
          \/ Fails(Caller)
      BY <1>8, <2>3 DEF MapStep, MapPicture, At
    <3> QED
      BY <2>3, <3>1, CallMaps, CallFails DEF At
  <2> QED
    BY <2>1, <2>2, <2>3 DEF At
<1>9. CASE WaitStep(Caller)
  <2>1. todo[Caller] # << >> /\ todo'[Caller] = Tail(todo[Caller]) /\ o.op = "picture_wait"
        /\ UNCHANGED pictureMaps
    BY <1>1, <1>9 DEF WaitStep, At, Goes, Kept
  <2>2. Alone' \/ Bad'
    <3>1. ~StartStep(Caller)
      BY <2>1 DEF StartStep, At
    <3> QED
      BY <1>9, <3>1, AloneUnless DEF WaitStep, Bad
  <2> QED
    BY <1>3, <2>1, <2>2
<1>10. CASE StopStep(Caller)
  <2>1. PICK q \in Seq(NestedOps) :
          /\ GoesOn(Caller, q)
          /\ At(Caller, {"picture_stop"}) => q = PictureStop \/ ~picture_thread_started
    BY <1>10 DEF StopStep
  <2>2. /\ todo[Caller] # << >> /\ todo'[Caller] = q \o Tail(todo[Caller]) /\ UNCHANGED pictureMaps
        /\ o.op \in {"preview_stop", "recording_stop", "picture_stop"}
    BY <1>1, <1>10, <2>1 DEF StopStep, At, GoesOn, Kept
  <2>3. ~StartStep(Caller)
    BY <2>2 DEF StartStep, At
  <2>4. Waits(PictureStop)
    BY DEF Waits, PictureStop, Do, Op
  <2>5. o.op = "picture_stop" => Alone' \/ Bad' \/ Waits(q)
    BY <2>1, <2>2, <2>3, <2>4, AloneUnless DEF At
  <2> QED
    BY <2>2, <2>5, CallGoesOn
<1>11. CASE CallStep
  <2>1. PICK P \in {"init", "close", "reset", "start", "flush"} : todo'[Caller] = Program(P)
    BY <1>1, <1>11 DEF CallStep
  <2> QED
    BY <2>1, CallStarts DEF CallPrograms
<1>12. CASE FreedStep
  BY <1>1, <1>3, <1>12 DEF FreedStep, Goes, At
<1>13. CASE TakeStep
  <2>1. todo'[Caller] = Program("picture")
    BY <1>1, <1>13 DEF TakeStep, Program
  <2> QED
    BY <1>13, <2>1, TakenIsFresh, CallStarts DEF CallPrograms
<1> QED
  BY <1>4, <1>5, <1>6, <1>7, <1>8, <1>9, <1>10, <1>11, <1>12, <1>13, WhoMoves DEF CallMoves

-----------------------------------------------------------------------------
LEMMA TodoIsTyped ==
  todo = [a \in Actors |-> todo[a]] /\ (\A s \in Stills : StillOK(s)) /\ CallOK /\ LoopOK => TodoType
<1> SUFFICES ASSUME todo = [a \in Actors |-> todo[a]], \A s \in Stills : StillOK(s), CallOK, LoopOK
             PROVE  TodoType
  OBVIOUS
<1>1. ASSUME NEW P \in Seq(Ops), NEW k \in 1..(Len(P) + 1) PROVE Rest(P, k) \in Seq(Ops)
  <2>1. \A i \in 1..Len(P) : P[i] \in Ops
    OBVIOUS
  <2>2. k \in Int /\ Len(P) \in Int /\ k >= 1
    OBVIOUS
  <2> QED
    BY <2>1, <2>2, SubSeqProperties DEF Rest
<1>2. ASSUME NEW s \in Stills PROVE todo[s] \in Seq(Ops)
  <2>1. PICK P \in ThreadPrograms : \E k \in 1..(Len(Thread(P)) + 1) : On(s, P, k)
    BY DEF StillOK
  <2>2. Thread(P) \in Seq(Ops)
    BY ThreadsAre
  <2> QED
    BY <1>1, <2>1, <2>2 DEF On
<1>3. todo[Caller] \in Seq(Ops)
  <2>1. PICK P \in CallPrograms : \E k \in 1..(Len(Program(P)) + 1) : \E p \in Seq(NestedOps) : CallOn(P, k, p)
    BY DEF CallOK
  <2>2. PICK k \in 1..(Len(Program(P)) + 1) : \E p \in Seq(NestedOps) : CallOn(P, k, p)
    BY <2>1
  <2>3. PICK p \in Seq(NestedOps) : CallOn(P, k, p)
    BY <2>2
  <2>4. p \in Seq(Ops) /\ Program(P) \in Seq(Ops)
    BY StopsAreNested, SeqMonotonic, CallProgramsAre
  <2>5. Rest(Program(P), k) \in Seq(Ops)
    BY <1>1, <2>4
  <2> QED
    BY <2>3, <2>4, <2>5, ConcatProperties DEF CallOn
<1>4. todo[PreviewLoop] \in Seq(Ops)
  BY LoopIs, SeqMonotonic DEF LoopOK
<1> QED
  BY <1>2, <1>3, <1>4, ActorsAre DEF TodoType

LEMMA TodoTypeKept ==
  ASSUME NodesInv, NodeStep, \A s \in Stills : StillOK(s)', CallOK', LoopOK'
  PROVE  TodoType'
<1>1. todo \in [Actors -> Seq(Ops)]
  BY DEF NodesInv, TodoType
<1>2. todo' = [a \in Actors |-> todo'[a]]
  <2>1. CASE IdleStep \/ ArmStep \/ CallStep \/ FreedStep \/ TakeStep
    BY <1>1, <2>1 DEF IdleStep, ArmStep, CallStep, FreedStep, TakeStep, Goes
  <2>2. ASSUME NEW a \in Actors,
               PlainStep(a) \/ StuckStep(a) \/ EndStep(a) \/ WaitStep(a) \/ StopStep(a)
        PROVE  todo' = [b \in Actors |-> todo'[b]]
    BY <1>1, <2>2 DEF PlainStep, StuckStep, EndStep, WaitStep, StopStep, Goes, Fails, GoesOn
  <2>3. ASSUME NEW a \in Actors, StartStep(a) \/ MapStep(a) PROVE todo' = [b \in Actors |-> todo'[b]]
    BY <1>1, <2>3 DEF StartStep, MapStep, MapPicture, Goes, Fails
  <2>4. ASSUME NEW s \in Stills, BeginStep(s) \/ FillStep(s) PROVE todo' = [b \in Actors |-> todo'[b]]
    BY <1>1, <2>4 DEF BeginStep, FillStep, Goes, Fails, GoesOn
  <2> QED
    BY <2>1, <2>2, <2>3, <2>4 DEF NodeStep
<1>3. (todo = [a \in Actors |-> todo[a]] /\ (\A s \in Stills : StillOK(s)) /\ CallOK /\ LoopOK
         => TodoType)'
  BY TodoIsTyped, PTL
<1> QED
  BY <1>2, <1>3

LEMMA NodesStarts == NodesInit => NodesInv
<1> SUFFICES ASSUME NodesInit PROVE NodesInv
  OBVIOUS
<1> USE DEF NodesInit
<1>1. PictureType
  BY DEF PictureType, NoPicture
<1>2. TodoType
  BY DEF TodoType
<1>3. \A a \in Actors : todo[a] = << >>
  OBVIOUS
<1>4. Made
  <2>1. \A s \in Stills : picture[s].made <=> s <= 0
    BY StillNumbers DEF NoPicture
  <2>2. CurrentStill = 0
    BY <2>1, MaxOfMade DEF CurrentStill
  <2> QED
    BY <2>1, <2>2 DEF Made
<1>5. Running
  BY <1>3, ActorsAre DEF Running
<1>6. ASSUME NEW s \in Stills PROVE StillOK(s)
  <2> DEFINE n == Len(Thread("cancelled")) + 1
  <2>1. "cancelled" \in ThreadPrograms
    BY DEF ThreadPrograms
  <2>2. n \in 1..n /\ todo[s] = Rest(Thread("cancelled"), n)
    BY <1>3, <2>1, ThreadsAre, RestEnds, ActorsAre
  <2>3. Owns("cancelled", n, picture[s].memories, picture[s].encoder) /\ ~Reading("cancelled", n)
    BY DEF Owns, Reading, NoPicture
  <2> QED
    BY <2>1, <2>2, <2>3 DEF StillOK, On
<1>7. CallOK
  <2> DEFINE n == Len(Program("returned")) + 1
  <2>1. "returned" \in CallPrograms /\ << >> \in Seq(NestedOps)
    BY DEF CallPrograms
  <2>2. n \in 1..n /\ Rest(Program("returned"), n) = << >> /\ << >> \o << >> = << >>
    BY <2>1, CallProgramsAre, RestEnds, ConcatEmptySeq
  <2>3. CallOn("returned", n, << >>)
    BY <1>3, <2>2, ActorsAre DEF CallOn, Freeing
  <2> QED
    BY <2>1, <2>2, <2>3 DEF CallOK
<1>8. LoopOK
  BY <1>3, ActorsAre DEF LoopOK
<1> QED
  BY <1>1, <1>2, <1>4, <1>5, <1>6, <1>7, <1>8 DEF NodesInv

LEMMA NodesKept == NodesInv /\ [NodesNext]_nodesVars => NodesInv'
<1> SUFFICES ASSUME NodesInv, NodeStep PROVE NodesInv'
  BY NodeSteps
<1>1. PictureType' /\ Made' /\ Running' /\ CallOK' /\ LoopOK'
  BY PictureTypeKept, MadeKept, RunningKept, CallKept, LoopKept
<1>2. \A s \in Stills : StillOK(s)'
  BY StillKept
<1>3. TodoType'
  BY <1>1, <1>2, TodoTypeKept
<1> QED
  BY <1>1, <1>2, <1>3 DEF NodesInv

LEMMA NodesAlways == NodesSpec => []NodesInv
<1> QED
  BY NodesStarts, NodesKept, PTL DEF NodesSpec

(* What the callbacks give the application is whole: the thumbnail, the image,*)
(* the EXIF header and the data; and a picture thread that is through has      *)
(* closed the encoder and released its memories, whichever operation failed   *)
(* (exynos_camera_picture).  What the layout needs of the attributes is a      *)
(* hypothesis: it holds of each one by itself, whatever the threads do.       *)
THEOREM StillsAreWhole ==
  ASSUME \A a \in StillAttributes : WellFormed(a)
  PROVE  NodesSpec => []StillIsWhole
<1>1. ASSUME NodesInv PROVE StillIsWhole
  <2>1. \A a \in StillAttributes : LaidOut[a]
    BY DEF LaidOut
  <2>2. ASSUME NEW s \in Stills, At(s, {"callbacks"})
        PROVE  picture[s].memories = Memories /\ ~picture[s].encoder
    <3>1. PICK P \in ThreadPrograms : \E k \in 1..(Len(Thread(P)) + 1) : On(s, P, k)
      BY <1>1 DEF NodesInv, StillOK
    <3>2. PICK k \in 1..(Len(Thread(P)) + 1) : On(s, P, k)
      BY <3>1
    <3> QED
      BY <1>1, <2>2, <3>2, StillHead DEF At, NodesInv, Goes1
  <2>3. ASSUME NEW s \in Stills, todo[s] = << >>
        PROVE  picture[s].memories = {} /\ ~picture[s].encoder
    BY <1>1, <2>3, EndOwns DEF NodesInv
  <2> QED
    BY <2>1, <2>2, <2>3 DEF StillIsWhole
<1> QED
  BY <1>1, NodesAlways, PTL

(* A picture thread reads the buffer of its own still, mapped, whatever calls *)
(* stop, flush or reopen the nodes beside it, unless picture_stop() has given *)
(* it up after a second or a second still was taken meanwhile.                *)
THEOREM PictureReads == NodesSpec => []PictureReadsItsOwn
<1>1. ASSUME NodesInv PROVE PictureReadsItsOwn
  <2> SUFFICES ASSUME NEW s \in Stills, Reads(s) PROVE Mine(s) \/ Bad
    BY DEF PictureReadsItsOwn, Mine, Bad, Overlapped
  <2>1. PICK P \in ThreadPrograms : \E k \in 1..(Len(Thread(P)) + 1) : On(s, P, k)
    BY <1>1 DEF NodesInv, StillOK
  <2>2. PICK k \in 1..(Len(Thread(P)) + 1) : On(s, P, k)
    BY <2>1
  <2>3. k \in 1..Len(Thread(P)) /\ Head(todo[s]) = Thread(P)[k]
    BY <1>1, <2>2, StillHead DEF Reads, At, NodesInv
  <2>4. Reading(P, k)
    BY <2>3, ThreadMarks DEF Reads, At
  <2> QED
    BY <2>2, <2>4 DEF On
<1> QED
  BY <1>1, NodesAlways, PTL
=============================================================================
