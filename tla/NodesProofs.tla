--------------------------- MODULE NodesProofs ------------------------------
(***************************************************************************)
(* That CaptureNodes gives its nodes back, for any number of stills, calls  *)
(* and failures.  What a flag or a node means depends on what the actors    *)
(* have still to do: a node that streams has its STREAMOFF ahead in the     *)
(* program of the actor whose it is, or the preview runs, or one of the     *)
(* failures has happened that nobody cleans up after.  The invariant says   *)
(* so of each flag (FreeInv), by the names of the operations that are ahead *)
(* (From), not by their places.  What a step leaves ahead then follows from *)
(* what comes after each operation of a program (Ordered), which is checked *)
(* once for every program and holds of what is left of one, and of a stop   *)
(* put before it.                                                           *)
(***************************************************************************)
EXTENDS StillProofs

(* What an actor still gives back.                                           *)

(* The operations on node n that q has from the k-th on.                     *)
From(q, k, n) == { q[i].op : i \in { j \in k..Len(q) : q[j].node = n } }

LEMMA FromNone == ASSUME NEW n, NEW k \in Nat, k > 0 PROVE From(<< >>, k, n) = {}
  BY DEF From

LEMMA FromTail ==
  ASSUME NEW q \in Seq(Ops), q # << >>, NEW n, NEW k \in Nat, k > 0
  PROVE  From(Tail(q), k, n) = From(q, k + 1, n)
<1>1. /\ Len(Tail(q)) = Len(q) - 1 /\ \A i \in 1..Len(Tail(q)) : Tail(q)[i] = q[i + 1]
      /\ Len(q) \in Nat
  BY TailsAre, LenProperties
<1>2. ASSUME NEW i \in (k + 1)..Len(q), q[i].node = n PROVE q[i].op \in From(Tail(q), k, n)
  <2>1. i - 1 \in k..Len(Tail(q)) /\ Tail(q)[i - 1] = q[i]
    BY <1>1
  <2> QED
    BY <1>2, <2>1 DEF From
<1>3. ASSUME NEW i \in k..Len(Tail(q)), Tail(q)[i].node = n
      PROVE  Tail(q)[i].op \in From(q, k + 1, n)
  <2>1. i + 1 \in (k + 1)..Len(q) /\ Tail(q)[i] = q[i + 1]
    BY <1>1
  <2> QED
    BY <1>3, <2>1 DEF From
<1>4. From(q, k + 1, n) \subseteq From(Tail(q), k, n)
  BY <1>2 DEF From
<1>5. From(Tail(q), k, n) \subseteq From(q, k + 1, n)
  BY <1>3 DEF From
<1> QED
  BY <1>4, <1>5

LEMMA FromFirst ==
  ASSUME NEW q \in Seq(Ops), q # << >>, NEW n
  PROVE  From(q, 1, n) = From(q, 2, n) \cup (IF Head(q).node = n THEN {Head(q).op} ELSE {})
<1>1. Head(q) = q[1] /\ Len(q) \in Nat /\ Len(q) >= 1
  BY TailsAre, LenProperties, EmptySeq
<1>2. \A i : i \in 1..Len(q) <=> i \in 2..Len(q) \/ i = 1
  BY <1>1
<1> QED
  BY <1>1, <1>2 DEF From

(* A stop that goes first, and the call it is part of.                       *)
LEMMA FromJoins ==
  ASSUME NEW p \in Seq(Ops), NEW r \in Seq(Ops), NEW n, NEW k \in Nat, k > 0
  PROVE  /\ k <= Len(p) + 1 => From(p \o r, k, n) = From(p, k, n) \cup From(r, 1, n)
         /\ From(p \o r, Len(p) + k, n) = From(r, k, n)
<1>1. Len(p) \in Nat /\ Len(r) \in Nat
  BY LenProperties
<1>2. /\ Len(p \o r) = Len(p) + Len(r)
      /\ \A i \in 1..Len(p) + Len(r) : (p \o r)[i] = IF i <= Len(p) THEN p[i] ELSE r[i - Len(p)]
  BY ConcatProperties
<1>3. \A i \in 1..Len(r) : Len(p) + i \in 1..Len(p \o r) /\ (p \o r)[Len(p) + i] = r[i]
  <2> TAKE i \in 1..Len(r)
  <2>1. Len(p) + i \in 1..Len(p) + Len(r) /\ ~(Len(p) + i <= Len(p)) /\ (Len(p) + i) - Len(p) = i
    BY <1>1
  <2> QED
    BY <1>2, <2>1
<1>4. \A i \in 1..Len(p \o r) : i > Len(p) => i - Len(p) \in 1..Len(r) /\ (p \o r)[i] = r[i - Len(p)]
  BY <1>1, <1>2
<1>5. \A x : x \in From(p \o r, Len(p) + k, n) <=> x \in From(r, k, n)
  <2> TAKE x
  <2>1. ASSUME x \in From(p \o r, Len(p) + k, n) PROVE x \in From(r, k, n)
    <3>1. PICK i \in (Len(p) + k)..Len(p \o r) : (p \o r)[i].node = n /\ x = (p \o r)[i].op
      BY <2>1 DEF From
    <3>2. i - Len(p) \in k..Len(r) /\ (p \o r)[i] = r[i - Len(p)]
      BY <1>1, <1>2, <1>4
    <3> QED
      BY <3>1, <3>2 DEF From
  <2>2. ASSUME x \in From(r, k, n) PROVE x \in From(p \o r, Len(p) + k, n)
    <3>1. PICK i \in k..Len(r) : r[i].node = n /\ x = r[i].op
      BY <2>2 DEF From
    <3>2. Len(p) + i \in (Len(p) + k)..Len(p \o r) /\ (p \o r)[Len(p) + i] = r[i]
      BY <1>1, <1>2, <1>3
    <3> QED
      BY <3>1, <3>2 DEF From
  <2> QED
    BY <2>1, <2>2
<1>6. ASSUME k <= Len(p) + 1, NEW x
      PROVE  x \in From(p \o r, k, n) <=> x \in From(p, k, n) \cup From(r, 1, n)
  <2>1. ASSUME x \in From(p \o r, k, n) PROVE x \in From(p, k, n) \cup From(r, 1, n)
    <3>1. PICK i \in k..Len(p \o r) : (p \o r)[i].node = n /\ x = (p \o r)[i].op
      BY <2>1 DEF From
    <3>2. CASE i <= Len(p)
      <4>1. i \in k..Len(p) /\ (p \o r)[i] = p[i]
        BY <1>1, <1>2, <3>2
      <4> QED
        BY <3>1, <4>1 DEF From
    <3>3. CASE ~(i <= Len(p))
      <4>1. i - Len(p) \in 1..Len(r) /\ (p \o r)[i] = r[i - Len(p)]
        BY <1>1, <1>2, <1>4, <3>3
      <4> QED
        BY <3>1, <4>1 DEF From
    <3> QED
      BY <3>2, <3>3
  <2>2. ASSUME x \in From(p, k, n) PROVE x \in From(p \o r, k, n)
    <3>1. PICK i \in k..Len(p) : p[i].node = n /\ x = p[i].op
      BY <2>2 DEF From
    <3>2. i \in k..Len(p \o r) /\ (p \o r)[i] = p[i]
      BY <1>1, <1>2
    <3> QED
      BY <3>1, <3>2 DEF From
  <2>3. ASSUME x \in From(r, 1, n) PROVE x \in From(p \o r, k, n)
    <3>1. PICK i \in 1..Len(r) : r[i].node = n /\ x = r[i].op
      BY <2>3 DEF From
    <3>2. Len(p) + i \in k..Len(p \o r) /\ (p \o r)[Len(p) + i] = r[i]
      BY <1>1, <1>2, <1>3, <1>6
    <3> QED
      BY <3>1, <3>2 DEF From
  <2> QED
    BY <2>1, <2>2, <2>3
<1> QED
  BY <1>5, <1>6

LEMMA FromStop ==
  ASSUME NEW p \in Seq(Ops), NEW r \in Seq(Ops), NEW n, NEW k \in Nat, k > 0, k <= Len(p) + 1
  PROVE  From(p \o r, k, n) = From(p, k, n) \cup From(r, 1, n)
  BY FromJoins

LEMMA FromCall ==
  ASSUME NEW p \in Seq(Ops), NEW r \in Seq(Ops), NEW n, NEW k \in Nat, k > 0
  PROVE  From(p \o r, Len(p) + k, n) = From(r, k, n)
  BY FromJoins

(* What an operation of a call needs of those after it, A0 on node 0 and A2 on*)
(* node 2: an operation whose failure ends the call has nothing to give back *)
(* after it, what needs the streaming nodes ends in the start or the thread  *)
(* that owns them, and a stop ends with what its flags promise.              *)
Giving == {"preview_stop", "preview_disable", "preview_lock", "recording_stop", "recording_off",
           "streamoff", "release", "reqbufs0", "preview_reset"}
SharedOps == {"open", "close", "querycap", "enum_input", "s_input", "streamoff", "release",
              "reqbufs0"}
FailsWell(o, A0, A2) ==
  /\ o.onFailure \in {"ignore", "return", "deinit", "preview_error", "preview_error_on"}
  /\ o.onFailure # "ignore" => /\ o.op \notin Giving
                               /\ \A x \in Giving : x \notin A0 /\ x \notin A2
  /\ o.onFailure \in {"return", "deinit"} => "started" \notin A0 /\ o.op # "memory"
  /\ o.onFailure \in {"deinit", "preview_error", "preview_error_on"} => "picture_thread" \notin A0
  /\ o.onFailure = "deinit" => "opened" \in A0
  /\ o.onFailure = "preview_error" =>
       "started" \in A0 /\ "preview_thread" \in A0 /\ ("streamon" \in A0 \/ o.op = "streamon")
  /\ o.onFailure = "preview_error_on" <=> o.op = "preview_thread"
StartsWell(o, A0, A2) ==
  /\ o.op \notin {"preview_failed", "recording_on"} /\ (o.op \notin SharedOps => o.node = 0)
  /\ o.op = "memory" => "started" \in A0 /\ "memory" \notin A0 /\ o.onFailure = "preview_error"
  /\ o.op = "preview_thread" => "started" \in A0 /\ "preview_thread" \notin A0
  /\ o.op = "streamon" => /\ "streamon" \notin A0 /\ "memory" \notin A0
                          /\ "started" \in A0 \/ "picture_thread" \in A0
  /\ o.op \in {"started", "freed"} => A0 = {} /\ A2 = {}
  /\ o.op \in {"opened", "silenced", "preview_reset", "open", "close"} =>
       "started" \notin A0 /\ "picture_thread" \notin A0
  /\ o.op = "preview_reset" => "preview_stop" \notin A0 /\ "preview_lock" \notin A0
TakesWell(o, A0) ==
  /\ o.onFailure = "return" /\ (o.op = "picture_thread" \/ "picture_thread" \in A0) =>
       /\ o.node = 0
       /\ \/ o.op = "map_picture" \/ "map_picture" \in A0
          \/ o.op \in {"qbuf", "streamon", "capture", "picture_thread"} /\ "reqbufs1" \notin A0
       /\ o.op \in {"streamon", "capture", "picture_thread"} \/ "streamon" \in A0
       /\ o.op \in {"capture", "picture_thread"} => "reqbufs1" \notin A0
  /\ o.op = "picture_thread" => "picture_thread" \notin A0
  /\ o.op = "map_picture" => "map_picture" \notin A0 /\ "picture_thread" \in A0
  /\ o.op \in {"reqbufs1", "map_picture", "picture_thread"} => o.onFailure = "return"
StopsWell(o, A0, A2) ==
  /\ o.op = "recording_off" => "streamoff" \in A2 /\ "release" \in A2
  /\ o.op = "preview_disable" => "preview_lock" \in A0
  /\ o.op = "preview_lock" => "recording_stop" \in A0
Faces(o, A0, A2) ==
  FailsWell(o, A0, A2) /\ StartsWell(o, A0, A2) /\ TakesWell(o, A0) /\ StopsWell(o, A0, A2)
Ordered(q) == \A k \in 1..Len(q) : Faces(q[k], From(q, k + 1, 0), From(q, k + 1, 2))

ReturnedOps == <<Do("returned")>>

LEMMA InitOpsOrdered ==
  /\ Ordered(InitOps) /\ Len(InitOps) = 9
  /\ From(InitOps, 1, 0) = {"open", "querycap", "enum_input", "s_input", "opened"}
  /\ From(InitOps, 1, 2) = {"open", "querycap", "enum_input", "s_input"}
<1>1. Len(InitOps) = 9
  BY DEF InitOps
<1>2. \A i \in 1..9 :
        /\ InitOps[i].op = CASE i \in {1, 5} -> "open" [] i \in {2, 6} -> "querycap"
             [] i \in {3, 7} -> "enum_input" [] i \in {4, 8} -> "s_input" [] i = 9 -> "opened"
        /\ InitOps[i].onFailure = CASE i \in 1..8 -> "deinit" [] i = 9 -> "ignore"
        /\ InitOps[i].node = CASE i \in {1, 2, 3, 4, 9} -> 0 [] i \in 5..8 -> 2
  BY DEF InitOps, Op, Do, Try, Starting, Taking
<1>3. /\ From(InitOps, 1, 0) = {"open", "querycap", "enum_input", "s_input", "opened"}
      /\ From(InitOps, 1, 2) = {"open", "querycap", "enum_input", "s_input"}
  BY <1>1, <1>2 DEF From
<1>4. ASSUME NEW k \in 1..9
      PROVE  Faces(InitOps[k], From(InitOps, k + 1, 0), From(InitOps, k + 1, 2))
  <2> DEFINE A(n) == From(InitOps, k + 1, n)
  <2>1. \A n, x : x \in A(n) <=>
          \E i \in (k + 1)..9 : InitOps[i].op = x /\ InitOps[i].node = n
    BY <1>1 DEF From
  <2>2. /\ A(0) \subseteq {"querycap", "enum_input", "s_input", "opened"}
        /\ A(2) \subseteq {"open", "querycap", "enum_input", "s_input"}
    BY <1>2, <2>1
  <2>3. /\ ("opened" \in A(0) <=> k < 9)
    BY <1>2, <2>1
  <2>4. k = 9 => A(0) = {} /\ A(2) = {}
    BY <2>1
  <2> HIDE DEF A
  <2>5. FailsWell(InitOps[k], A(0), A(2))
    BY <1>2, <2>2, <2>3, <2>4 DEF FailsWell, Giving
  <2>6. StartsWell(InitOps[k], A(0), A(2))
    BY <1>2, <2>2, <2>3, <2>4 DEF StartsWell, SharedOps
  <2>7. TakesWell(InitOps[k], A(0))
    BY <1>2, <2>2, <2>3, <2>4 DEF TakesWell
  <2>8. StopsWell(InitOps[k], A(0), A(2))
    BY <1>2, <2>2, <2>3, <2>4 DEF StopsWell
  <2> QED
    BY <2>5, <2>6, <2>7, <2>8 DEF Faces, A
<1> QED
  BY <1>1, <1>3, <1>4 DEF Ordered

LEMMA CloseOpsOrdered ==
  /\ Ordered(CloseOps) /\ Len(CloseOps) = 9
  /\ From(CloseOps, 1, 0) = {"picture_stop", "preview_stop", "silenced",
                                     "recording_stop", "close", "freed"}
  /\ From(CloseOps, 1, 2) = {"close"}
<1>1. Len(CloseOps) = 9
  BY DEF CloseOps
<1>2. \A i \in 1..9 :
        /\ CloseOps[i].op = CASE i \in {1, 4} -> "picture_stop"
             [] i \in {2, 5} -> "preview_stop" [] i = 3 -> "silenced"
             [] i = 6 -> "recording_stop" [] i \in 7..8 -> "close" [] i = 9 -> "freed"
        /\ CloseOps[i].onFailure = "ignore"
        /\ CloseOps[i].node = CASE i \in {1, 2, 3, 4, 5, 6, 7, 9} -> 0 [] i = 8 -> 2
  BY DEF CloseOps, Op, Do, Try, Starting, Taking
<1>3. /\ From(CloseOps, 1, 0) = {"picture_stop", "preview_stop", "silenced",
                                     "recording_stop", "close", "freed"}
      /\ From(CloseOps, 1, 2) = {"close"}
  BY <1>1, <1>2 DEF From
<1>4. ASSUME NEW k \in 1..9
      PROVE  Faces(CloseOps[k], From(CloseOps, k + 1, 0), From(CloseOps, k + 1, 2))
  <2> DEFINE A(n) == From(CloseOps, k + 1, n)
  <2>1. \A n, x : x \in A(n) <=>
          \E i \in (k + 1)..9 : CloseOps[i].op = x /\ CloseOps[i].node = n
    BY <1>1 DEF From
  <2>2. /\ A(0) \subseteq {"preview_stop", "silenced", "picture_stop", "recording_stop",
                          "close", "freed"}
        /\ A(2) \subseteq {"close"}
    BY <1>2, <2>1
  <2>3. /\ ("preview_stop" \in A(0) <=> k < 5)
        /\ ("recording_stop" \in A(0) <=> k < 6)
    BY <1>2, <2>1
  <2>4. k = 9 => A(0) = {} /\ A(2) = {}
    BY <2>1
  <2> HIDE DEF A
  <2>5. FailsWell(CloseOps[k], A(0), A(2))
    BY <1>2, <2>2, <2>3, <2>4 DEF FailsWell, Giving
  <2>6. StartsWell(CloseOps[k], A(0), A(2))
    BY <1>2, <2>2, <2>3, <2>4 DEF StartsWell, SharedOps
  <2>7. TakesWell(CloseOps[k], A(0))
    BY <1>2, <2>2, <2>3, <2>4 DEF TakesWell
  <2>8. StopsWell(CloseOps[k], A(0), A(2))
    BY <1>2, <2>2, <2>3, <2>4 DEF StopsWell
  <2> QED
    BY <2>5, <2>6, <2>7, <2>8 DEF Faces, A
<1> QED
  BY <1>1, <1>3, <1>4 DEF Ordered

LEMMA DeinitOrdered ==
  /\ Ordered(Deinit) /\ Len(Deinit) = 6
  /\ From(Deinit, 1, 0) = {"picture_stop", "preview_stop", "recording_stop", "close",
                                   "freed"}
  /\ From(Deinit, 1, 2) = {"close"}
<1>1. Len(Deinit) = 6
  BY DEF Deinit
<1>2. \A i \in 1..6 :
        /\ Deinit[i].op = CASE i = 1 -> "picture_stop" [] i = 2 -> "preview_stop"
             [] i = 3 -> "recording_stop" [] i \in 4..5 -> "close" [] i = 6 -> "freed"
        /\ Deinit[i].onFailure = "ignore"
        /\ Deinit[i].node = CASE i \in {1, 2, 3, 4, 6} -> 0 [] i = 5 -> 2
  BY DEF Deinit, Op, Do, Try, Starting, Taking
<1>3. /\ From(Deinit, 1, 0) = {"picture_stop", "preview_stop", "recording_stop", "close",
                                   "freed"}
      /\ From(Deinit, 1, 2) = {"close"}
  BY <1>1, <1>2 DEF From
<1>4. ASSUME NEW k \in 1..6
      PROVE  Faces(Deinit[k], From(Deinit, k + 1, 0), From(Deinit, k + 1, 2))
  <2> DEFINE A(n) == From(Deinit, k + 1, n)
  <2>1. \A n, x : x \in A(n) <=>
          \E i \in (k + 1)..6 : Deinit[i].op = x /\ Deinit[i].node = n
    BY <1>1 DEF From
  <2>2. /\ A(0) \subseteq {"preview_stop", "recording_stop", "close", "freed"}
        /\ A(2) \subseteq {"close"}
    BY <1>2, <2>1
  <2>3. /\ ("preview_stop" \in A(0) <=> k < 2)
        /\ ("recording_stop" \in A(0) <=> k < 3)
    BY <1>2, <2>1
  <2>4. k = 6 => A(0) = {} /\ A(2) = {}
    BY <2>1
  <2> HIDE DEF A
  <2>5. FailsWell(Deinit[k], A(0), A(2))
    BY <1>2, <2>2, <2>3, <2>4 DEF FailsWell, Giving
  <2>6. StartsWell(Deinit[k], A(0), A(2))
    BY <1>2, <2>2, <2>3, <2>4 DEF StartsWell, SharedOps
  <2>7. TakesWell(Deinit[k], A(0))
    BY <1>2, <2>2, <2>3, <2>4 DEF TakesWell
  <2>8. StopsWell(Deinit[k], A(0), A(2))
    BY <1>2, <2>2, <2>3, <2>4 DEF StopsWell
  <2> QED
    BY <2>5, <2>6, <2>7, <2>8 DEF Faces, A
<1> QED
  BY <1>1, <1>3, <1>4 DEF Ordered

LEMMA ResetOpsOrdered ==
  /\ Ordered(ResetOps) /\ Len(ResetOps) = 10
  /\ From(ResetOps, 1, 0) = {"close", "open", "querycap", "enum_input", "s_input"}
  /\ From(ResetOps, 1, 2) = {"close", "open", "querycap", "enum_input", "s_input"}
<1>1. Len(ResetOps) = 10
  BY DEF ResetOps
<1>2. \A i \in 1..10 :
        /\ ResetOps[i].op = CASE i \in 1..2 -> "close" [] i \in {3, 7} -> "open"
             [] i \in {4, 8} -> "querycap" [] i \in {5, 9} -> "enum_input"
             [] i \in {6, 10} -> "s_input"
        /\ ResetOps[i].onFailure = CASE i \in 1..2 -> "ignore" [] i \in 3..10 -> "return"
        /\ ResetOps[i].node = CASE i \in {1, 7, 8, 9, 10} -> 2 [] i \in 2..6 -> 0
  BY DEF ResetOps, Op, Do, Try, Starting, Taking
<1>3. /\ From(ResetOps, 1, 0) = {"close", "open", "querycap", "enum_input", "s_input"}
      /\ From(ResetOps, 1, 2) = {"close", "open", "querycap", "enum_input", "s_input"}
  BY <1>1, <1>2 DEF From
<1>4. ASSUME NEW k \in 1..10
      PROVE  Faces(ResetOps[k], From(ResetOps, k + 1, 0), From(ResetOps, k + 1, 2))
  <2> DEFINE A(n) == From(ResetOps, k + 1, n)
  <2>1. \A n, x : x \in A(n) <=>
          \E i \in (k + 1)..10 : ResetOps[i].op = x /\ ResetOps[i].node = n
    BY <1>1 DEF From
  <2>2. /\ A(0) \subseteq {"close", "open", "querycap", "enum_input", "s_input"}
        /\ A(2) \subseteq {"open", "querycap", "enum_input", "s_input"}
    BY <1>2, <2>1
  <2>4. k = 10 => A(0) = {} /\ A(2) = {}
    BY <2>1
  <2> HIDE DEF A
  <2>5. FailsWell(ResetOps[k], A(0), A(2))
    BY <1>2, <2>2, <2>4 DEF FailsWell, Giving
  <2>6. StartsWell(ResetOps[k], A(0), A(2))
    BY <1>2, <2>2, <2>4 DEF StartsWell, SharedOps
  <2>7. TakesWell(ResetOps[k], A(0))
    BY <1>2, <2>2, <2>4 DEF TakesWell
  <2>8. StopsWell(ResetOps[k], A(0), A(2))
    BY <1>2, <2>2, <2>4 DEF StopsWell
  <2> QED
    BY <2>5, <2>6, <2>7, <2>8 DEF Faces, A
<1> QED
  BY <1>1, <1>3, <1>4 DEF Ordered

LEMMA StartOpsOrdered ==
  /\ Ordered(StartOps) /\ Len(StartOps) = 13
  /\ From(StartOps, 1, 0) = {"reqbufs0", "enum_fmt", "s_fmt", "s_ctrl", "reqbufs",
                                     "s_parm", "querybuf", "memory", "qbuf", "streamon",
                                     "preview_thread", "started"}
  /\ From(StartOps, 1, 2) = {}
<1>1. Len(StartOps) = 13
  BY DEF StartOps
<1>2. \A i \in 1..13 :
        /\ StartOps[i].op = CASE i = 1 -> "reqbufs0" [] i = 2 -> "enum_fmt"
             [] i = 3 -> "s_fmt" [] i \in {4, 10} -> "s_ctrl" [] i = 5 -> "reqbufs"
             [] i = 6 -> "s_parm" [] i = 7 -> "querybuf" [] i = 8 -> "memory"
             [] i = 9 -> "qbuf" [] i = 11 -> "streamon" [] i = 12 -> "preview_thread"
             [] i = 13 -> "started"
        /\ StartOps[i].onFailure = CASE i \in {1, 13} -> "ignore"
             [] i \in 2..11 -> "preview_error" [] i = 12 -> "preview_error_on"
        /\ StartOps[i].node = 0
  BY DEF StartOps, Op, Do, Try, Starting, Taking
<1>3. /\ From(StartOps, 1, 0) = {"reqbufs0", "enum_fmt", "s_fmt", "s_ctrl", "reqbufs",
                                     "s_parm", "querybuf", "memory", "qbuf", "streamon",
                                     "preview_thread", "started"}
      /\ From(StartOps, 1, 2) = {}
  BY <1>1, <1>2 DEF From
<1>4. ASSUME NEW k \in 1..13
      PROVE  Faces(StartOps[k], From(StartOps, k + 1, 0), From(StartOps, k + 1, 2))
  <2> DEFINE A(n) == From(StartOps, k + 1, n)
  <2>1. \A n, x : x \in A(n) <=>
          \E i \in (k + 1)..13 : StartOps[i].op = x /\ StartOps[i].node = n
    BY <1>1 DEF From
  <2>2. /\ A(0) \subseteq {"enum_fmt", "s_fmt", "s_ctrl", "reqbufs", "s_parm", "querybuf",
                          "memory", "qbuf", "streamon", "preview_thread", "started"}
        /\ A(2) \subseteq {}
    BY <1>2, <2>1
  <2>3. /\ ("started" \in A(0) <=> k < 13)
        /\ ("preview_thread" \in A(0) <=> k < 12)
        /\ ("streamon" \in A(0) <=> k < 11)
        /\ ("memory" \in A(0) <=> k < 8)
    BY <1>2, <2>1
  <2>4. k = 13 => A(0) = {} /\ A(2) = {}
    BY <2>1
  <2> HIDE DEF A
  <2>5. FailsWell(StartOps[k], A(0), A(2))
    BY <1>2, <2>2, <2>3, <2>4 DEF FailsWell, Giving
  <2>6. StartsWell(StartOps[k], A(0), A(2))
    BY <1>2, <2>2, <2>3, <2>4 DEF StartsWell, SharedOps
  <2>7. TakesWell(StartOps[k], A(0))
    BY <1>2, <2>2, <2>3, <2>4 DEF TakesWell
  <2>8. StopsWell(StartOps[k], A(0), A(2))
    BY <1>2, <2>2, <2>3, <2>4 DEF StopsWell
  <2> QED
    BY <2>5, <2>6, <2>7, <2>8 DEF Faces, A
<1> QED
  BY <1>1, <1>3, <1>4 DEF Ordered

LEMMA PreviewErrorOrdered ==
  /\ Ordered(PreviewError) /\ Len(PreviewError) = 4
  /\ From(PreviewError, 1, 0) = {"preview_reset", "recording_stop", "release",
                                         "reqbufs0"}
  /\ From(PreviewError, 1, 2) = {}
<1>1. Len(PreviewError) = 4
  BY DEF PreviewError
<1>2. \A i \in 1..4 :
        /\ PreviewError[i].op = CASE i = 1 -> "preview_reset"
             [] i = 2 -> "recording_stop" [] i = 3 -> "release" [] i = 4 -> "reqbufs0"
        /\ PreviewError[i].onFailure = "ignore"
        /\ PreviewError[i].node = 0
  BY DEF PreviewError, Op, Do, Try, Starting, Taking
<1>3. /\ From(PreviewError, 1, 0) = {"preview_reset", "recording_stop", "release",
                                         "reqbufs0"}
      /\ From(PreviewError, 1, 2) = {}
  BY <1>1, <1>2 DEF From
<1>4. ASSUME NEW k \in 1..4
      PROVE  Faces(PreviewError[k], From(PreviewError, k + 1, 0),
                   From(PreviewError, k + 1, 2))
  <2> DEFINE A(n) == From(PreviewError, k + 1, n)
  <2>1. \A n, x : x \in A(n) <=>
          \E i \in (k + 1)..4 : PreviewError[i].op = x /\ PreviewError[i].node = n
    BY <1>1 DEF From
  <2>2. /\ A(0) \subseteq {"recording_stop", "release", "reqbufs0"}
        /\ A(2) \subseteq {}
    BY <1>2, <2>1
  <2>3. /\ ("recording_stop" \in A(0) <=> k < 2)
        /\ ("release" \in A(0) <=> k < 3)
    BY <1>2, <2>1
  <2>4. k = 4 => A(0) = {} /\ A(2) = {}
    BY <2>1
  <2> HIDE DEF A
  <2>5. FailsWell(PreviewError[k], A(0), A(2))
    BY <1>2, <2>2, <2>3, <2>4 DEF FailsWell, Giving
  <2>6. StartsWell(PreviewError[k], A(0), A(2))
    BY <1>2, <2>2, <2>3, <2>4 DEF StartsWell, SharedOps
  <2>7. TakesWell(PreviewError[k], A(0))
    BY <1>2, <2>2, <2>3, <2>4 DEF TakesWell
  <2>8. StopsWell(PreviewError[k], A(0), A(2))
    BY <1>2, <2>2, <2>3, <2>4 DEF StopsWell
  <2> QED
    BY <2>5, <2>6, <2>7, <2>8 DEF Faces, A
<1> QED
  BY <1>1, <1>3, <1>4 DEF Ordered

LEMMA PreviewErrorOnOrdered ==
  /\ Ordered(PreviewErrorOn) /\ Len(PreviewErrorOn) = 5
  /\ From(PreviewErrorOn, 1, 0) = {"preview_reset", "recording_stop", "streamoff",
                                           "release", "reqbufs0"}
  /\ From(PreviewErrorOn, 1, 2) = {}
<1>1. Len(PreviewErrorOn) = 5
  BY DEF PreviewErrorOn
<1>2. \A i \in 1..5 :
        /\ PreviewErrorOn[i].op = CASE i = 1 -> "preview_reset"
             [] i = 2 -> "recording_stop" [] i = 3 -> "streamoff" [] i = 4 -> "release"
             [] i = 5 -> "reqbufs0"
        /\ PreviewErrorOn[i].onFailure = "ignore"
        /\ PreviewErrorOn[i].node = 0
  BY DEF PreviewErrorOn, Op, Do, Try, Starting, Taking
<1>3. /\ From(PreviewErrorOn, 1, 0) = {"preview_reset", "recording_stop", "streamoff",
                                           "release", "reqbufs0"}
      /\ From(PreviewErrorOn, 1, 2) = {}
  BY <1>1, <1>2 DEF From
<1>4. ASSUME NEW k \in 1..5
      PROVE  Faces(PreviewErrorOn[k], From(PreviewErrorOn, k + 1, 0),
                   From(PreviewErrorOn, k + 1, 2))
  <2> DEFINE A(n) == From(PreviewErrorOn, k + 1, n)
  <2>1. \A n, x : x \in A(n) <=>
          \E i \in (k + 1)..5 : PreviewErrorOn[i].op = x /\ PreviewErrorOn[i].node = n
    BY <1>1 DEF From
  <2>2. /\ A(0) \subseteq {"recording_stop", "streamoff", "release", "reqbufs0"}
        /\ A(2) \subseteq {}
    BY <1>2, <2>1
  <2>3. /\ ("recording_stop" \in A(0) <=> k < 2)
        /\ ("streamoff" \in A(0) <=> k < 3)
        /\ ("release" \in A(0) <=> k < 4)
    BY <1>2, <2>1
  <2>4. k = 5 => A(0) = {} /\ A(2) = {}
    BY <2>1
  <2> HIDE DEF A
  <2>5. FailsWell(PreviewErrorOn[k], A(0), A(2))
    BY <1>2, <2>2, <2>3, <2>4 DEF FailsWell, Giving
  <2>6. StartsWell(PreviewErrorOn[k], A(0), A(2))
    BY <1>2, <2>2, <2>3, <2>4 DEF StartsWell, SharedOps
  <2>7. TakesWell(PreviewErrorOn[k], A(0))
    BY <1>2, <2>2, <2>3, <2>4 DEF TakesWell
  <2>8. StopsWell(PreviewErrorOn[k], A(0), A(2))
    BY <1>2, <2>2, <2>3, <2>4 DEF StopsWell
  <2> QED
    BY <2>5, <2>6, <2>7, <2>8 DEF Faces, A
<1> QED
  BY <1>1, <1>3, <1>4 DEF Ordered

LEMMA FlushCallOrdered ==
  /\ Ordered(FlushCall) /\ Len(FlushCall) = 2
  /\ From(FlushCall, 1, 0) = {"picture_stop", "preview_stop"}
  /\ From(FlushCall, 1, 2) = {}
<1>1. Len(FlushCall) = 2
  BY DEF FlushCall
<1>2. \A i \in 1..2 :
        /\ FlushCall[i].op = CASE i = 1 -> "picture_stop" [] i = 2 -> "preview_stop"
        /\ FlushCall[i].onFailure = "ignore"
        /\ FlushCall[i].node = 0
  BY DEF FlushCall, Op, Do, Try, Starting, Taking
<1>3. /\ From(FlushCall, 1, 0) = {"picture_stop", "preview_stop"}
      /\ From(FlushCall, 1, 2) = {}
  BY <1>1, <1>2 DEF From
<1>4. ASSUME NEW k \in 1..2
      PROVE  Faces(FlushCall[k], From(FlushCall, k + 1, 0), From(FlushCall, k + 1, 2))
  <2> DEFINE A(n) == From(FlushCall, k + 1, n)
  <2>1. \A n, x : x \in A(n) <=>
          \E i \in (k + 1)..2 : FlushCall[i].op = x /\ FlushCall[i].node = n
    BY <1>1 DEF From
  <2>2. /\ A(0) \subseteq {"preview_stop"}
        /\ A(2) \subseteq {}
    BY <1>2, <2>1
  <2>3. /\ ("preview_stop" \in A(0) <=> k < 2)
    BY <1>2, <2>1
  <2>4. k = 2 => A(0) = {} /\ A(2) = {}
    BY <2>1
  <2> HIDE DEF A
  <2>5. FailsWell(FlushCall[k], A(0), A(2))
    BY <1>2, <2>2, <2>3, <2>4 DEF FailsWell, Giving
  <2>6. StartsWell(FlushCall[k], A(0), A(2))
    BY <1>2, <2>2, <2>3, <2>4 DEF StartsWell, SharedOps
  <2>7. TakesWell(FlushCall[k], A(0))
    BY <1>2, <2>2, <2>3, <2>4 DEF TakesWell
  <2>8. StopsWell(FlushCall[k], A(0), A(2))
    BY <1>2, <2>2, <2>3, <2>4 DEF StopsWell
  <2> QED
    BY <2>5, <2>6, <2>7, <2>8 DEF Faces, A
<1> QED
  BY <1>1, <1>3, <1>4 DEF Ordered

LEMMA PictureOpsOrdered ==
  /\ Ordered(PictureOps) /\ Len(PictureOps) = 12
  /\ From(PictureOps, 1, 0) = {"preview_stop", "enum_fmt", "s_fmt", "reqbufs1",
                                       "querybuf", "release_old", "map_picture", "qbuf",
                                       "streamon", "capture", "picture_thread", "taken"}
  /\ From(PictureOps, 1, 2) = {}
<1>1. Len(PictureOps) = 12
  BY DEF PictureOps
<1>2. \A i \in 1..12 :
        /\ PictureOps[i].op = CASE i = 1 -> "preview_stop" [] i = 2 -> "enum_fmt"
             [] i = 3 -> "s_fmt" [] i = 4 -> "reqbufs1" [] i = 5 -> "querybuf"
             [] i = 6 -> "release_old" [] i = 7 -> "map_picture" [] i = 8 -> "qbuf"
             [] i = 9 -> "streamon" [] i = 10 -> "capture" [] i = 11 -> "picture_thread"
             [] i = 12 -> "taken"
        /\ PictureOps[i].onFailure = CASE i \in {1, 6, 12} -> "ignore"
             [] i \in {2, 3, 4, 5, 7, 8, 9, 10, 11} -> "return"
        /\ PictureOps[i].node = 0
  BY DEF PictureOps, Op, Do, Try, Starting, Taking
<1>3. /\ From(PictureOps, 1, 0) = {"preview_stop", "enum_fmt", "s_fmt", "reqbufs1",
                                       "querybuf", "release_old", "map_picture", "qbuf",
                                       "streamon", "capture", "picture_thread", "taken"}
      /\ From(PictureOps, 1, 2) = {}
  BY <1>1, <1>2 DEF From
<1>4. ASSUME NEW k \in 1..12
      PROVE  Faces(PictureOps[k], From(PictureOps, k + 1, 0), From(PictureOps, k + 1, 2))
  <2> DEFINE A(n) == From(PictureOps, k + 1, n)
  <2>1. \A n, x : x \in A(n) <=>
          \E i \in (k + 1)..12 : PictureOps[i].op = x /\ PictureOps[i].node = n
    BY <1>1 DEF From
  <2>2. /\ A(0) \subseteq {"enum_fmt", "s_fmt", "reqbufs1", "querybuf", "release_old",
                          "map_picture", "qbuf", "streamon", "capture", "picture_thread",
                          "taken"}
        /\ A(2) \subseteq {}
    BY <1>2, <2>1
  <2>3. /\ ("streamon" \in A(0) <=> k < 9)
        /\ ("picture_thread" \in A(0) <=> k < 11)
        /\ ("map_picture" \in A(0) <=> k < 7)
        /\ ("capture" \in A(0) <=> k < 10)
        /\ ("reqbufs1" \in A(0) <=> k < 4)
        /\ ("preview_stop" \in A(0) <=> k < 1)
    BY <1>2, <2>1
  <2>4. k = 12 => A(0) = {} /\ A(2) = {}
    BY <2>1
  <2> HIDE DEF A
  <2>5. FailsWell(PictureOps[k], A(0), A(2))
    BY <1>2, <2>2, <2>3, <2>4 DEF FailsWell, Giving
  <2>6. StartsWell(PictureOps[k], A(0), A(2))
    BY <1>2, <2>2, <2>3, <2>4 DEF StartsWell, SharedOps
  <2>7. TakesWell(PictureOps[k], A(0))
    BY <1>2, <2>2, <2>3, <2>4 DEF TakesWell
  <2>8. StopsWell(PictureOps[k], A(0), A(2))
    BY <1>2, <2>2, <2>3, <2>4 DEF StopsWell
  <2> QED
    BY <2>5, <2>6, <2>7, <2>8 DEF Faces, A
<1> QED
  BY <1>1, <1>3, <1>4 DEF Ordered

LEMMA ReturnedOpsOrdered ==
  /\ Ordered(ReturnedOps) /\ Len(ReturnedOps) = 1
  /\ From(ReturnedOps, 1, 0) = {"returned"}
  /\ From(ReturnedOps, 1, 2) = {}
<1>1. Len(ReturnedOps) = 1
  BY DEF ReturnedOps
<1>2. \A i \in 1..1 :
        /\ ReturnedOps[i].op = "returned"
        /\ ReturnedOps[i].onFailure = "ignore"
        /\ ReturnedOps[i].node = 0
  BY DEF ReturnedOps, Op, Do, Try, Starting, Taking
<1>3. /\ From(ReturnedOps, 1, 0) = {"returned"}
      /\ From(ReturnedOps, 1, 2) = {}
  BY <1>1, <1>2 DEF From
<1>4. ASSUME NEW k \in 1..1
      PROVE  Faces(ReturnedOps[k], From(ReturnedOps, k + 1, 0), From(ReturnedOps, k + 1, 2))
  <2> DEFINE A(n) == From(ReturnedOps, k + 1, n)
  <2>1. \A n, x : x \in A(n) <=>
          \E i \in (k + 1)..1 : ReturnedOps[i].op = x /\ ReturnedOps[i].node = n
    BY <1>1 DEF From
  <2>2. /\ A(0) \subseteq {}
        /\ A(2) \subseteq {}
    BY <1>2, <2>1
  <2>4. k = 1 => A(0) = {} /\ A(2) = {}
    BY <2>1
  <2> HIDE DEF A
  <2>5. FailsWell(ReturnedOps[k], A(0), A(2))
    BY <1>2, <2>2, <2>4 DEF FailsWell, Giving
  <2>6. StartsWell(ReturnedOps[k], A(0), A(2))
    BY <1>2, <2>2, <2>4 DEF StartsWell, SharedOps
  <2>7. TakesWell(ReturnedOps[k], A(0))
    BY <1>2, <2>2, <2>4 DEF TakesWell
  <2>8. StopsWell(ReturnedOps[k], A(0), A(2))
    BY <1>2, <2>2, <2>4 DEF StopsWell
  <2> QED
    BY <2>5, <2>6, <2>7, <2>8 DEF Faces, A
<1> QED
  BY <1>1, <1>3, <1>4 DEF Ordered

LEMMA PreviewStopOpsOrdered ==
  /\ Ordered(PreviewStopOps) /\ Len(PreviewStopOps) = 8
  /\ From(PreviewStopOps, 1, 0) = {"preview_disable", "preview_lock", "preview_wait",
                                           "recording_stop", "streamoff", "release",
                                           "reqbufs0", "preview_unlock"}
  /\ From(PreviewStopOps, 1, 2) = {}
<1>1. Len(PreviewStopOps) = 8
  BY DEF PreviewStopOps
<1>2. \A i \in 1..8 :
        /\ PreviewStopOps[i].op = CASE i = 1 -> "preview_disable"
             [] i = 2 -> "preview_lock" [] i = 3 -> "preview_wait"
             [] i = 4 -> "recording_stop" [] i = 5 -> "streamoff" [] i = 6 -> "release"
             [] i = 7 -> "reqbufs0" [] i = 8 -> "preview_unlock"
        /\ PreviewStopOps[i].onFailure = "ignore"
        /\ PreviewStopOps[i].node = 0
  BY DEF PreviewStopOps, Op, Do, Try, Starting, Taking
<1>3. /\ From(PreviewStopOps, 1, 0) = {"preview_disable", "preview_lock", "preview_wait",
                                           "recording_stop", "streamoff", "release",
                                           "reqbufs0", "preview_unlock"}
      /\ From(PreviewStopOps, 1, 2) = {}
  BY <1>1, <1>2 DEF From
<1>4. ASSUME NEW k \in 1..8
      PROVE  Faces(PreviewStopOps[k], From(PreviewStopOps, k + 1, 0),
                   From(PreviewStopOps, k + 1, 2))
  <2> DEFINE A(n) == From(PreviewStopOps, k + 1, n)
  <2>1. \A n, x : x \in A(n) <=>
          \E i \in (k + 1)..8 : PreviewStopOps[i].op = x /\ PreviewStopOps[i].node = n
    BY <1>1 DEF From
  <2>2. /\ A(0) \subseteq {"preview_lock", "preview_wait", "recording_stop", "streamoff",
                          "release", "reqbufs0", "preview_unlock"}
        /\ A(2) \subseteq {}
    BY <1>2, <2>1
  <2>3. /\ ("preview_lock" \in A(0) <=> k < 2)
        /\ ("recording_stop" \in A(0) <=> k < 4)
        /\ ("streamoff" \in A(0) <=> k < 5)
        /\ ("release" \in A(0) <=> k < 6)
    BY <1>2, <2>1
  <2>4. k = 8 => A(0) = {} /\ A(2) = {}
    BY <2>1
  <2> HIDE DEF A
  <2>5. FailsWell(PreviewStopOps[k], A(0), A(2))
    BY <1>2, <2>2, <2>3, <2>4 DEF FailsWell, Giving
  <2>6. StartsWell(PreviewStopOps[k], A(0), A(2))
    BY <1>2, <2>2, <2>3, <2>4 DEF StartsWell, SharedOps
  <2>7. TakesWell(PreviewStopOps[k], A(0))
    BY <1>2, <2>2, <2>3, <2>4 DEF TakesWell
  <2>8. StopsWell(PreviewStopOps[k], A(0), A(2))
    BY <1>2, <2>2, <2>3, <2>4 DEF StopsWell
  <2> QED
    BY <2>5, <2>6, <2>7, <2>8 DEF Faces, A
<1> QED
  BY <1>1, <1>3, <1>4 DEF Ordered

LEMMA RecordingStopOpsOrdered ==
  /\ Ordered(RecordingStopOps) /\ Len(RecordingStopOps) = 4
  /\ From(RecordingStopOps, 1, 0) = {"recording_off"}
  /\ From(RecordingStopOps, 1, 2) = {"streamoff", "release", "reqbufs0"}
<1>1. Len(RecordingStopOps) = 4
  BY DEF RecordingStopOps
<1>2. \A i \in 1..4 :
        /\ RecordingStopOps[i].op = CASE i = 1 -> "recording_off"
             [] i = 2 -> "streamoff" [] i = 3 -> "release" [] i = 4 -> "reqbufs0"
        /\ RecordingStopOps[i].onFailure = "ignore"
        /\ RecordingStopOps[i].node = CASE i = 1 -> 0 [] i \in 2..4 -> 2
  BY DEF RecordingStopOps, Op, Do, Try, Starting, Taking
<1>3. /\ From(RecordingStopOps, 1, 0) = {"recording_off"}
      /\ From(RecordingStopOps, 1, 2) = {"streamoff", "release", "reqbufs0"}
  BY <1>1, <1>2 DEF From
<1>4. ASSUME NEW k \in 1..4
      PROVE  Faces(RecordingStopOps[k], From(RecordingStopOps, k + 1, 0),
                   From(RecordingStopOps, k + 1, 2))
  <2> DEFINE A(n) == From(RecordingStopOps, k + 1, n)
  <2>1. \A n, x : x \in A(n) <=>
          \E i \in (k + 1)..4 : RecordingStopOps[i].op = x /\ RecordingStopOps[i].node = n
    BY <1>1 DEF From
  <2>2. /\ A(0) \subseteq {}
        /\ A(2) \subseteq {"streamoff", "release", "reqbufs0"}
    BY <1>2, <2>1
  <2>3. /\ ("streamoff" \in A(2) <=> k < 2)
        /\ ("release" \in A(2) <=> k < 3)
    BY <1>2, <2>1
  <2>4. k = 4 => A(0) = {} /\ A(2) = {}
    BY <2>1
  <2> HIDE DEF A
  <2>5. FailsWell(RecordingStopOps[k], A(0), A(2))
    BY <1>2, <2>2, <2>3, <2>4 DEF FailsWell, Giving
  <2>6. StartsWell(RecordingStopOps[k], A(0), A(2))
    BY <1>2, <2>2, <2>3, <2>4 DEF StartsWell, SharedOps
  <2>7. TakesWell(RecordingStopOps[k], A(0))
    BY <1>2, <2>2, <2>3, <2>4 DEF TakesWell
  <2>8. StopsWell(RecordingStopOps[k], A(0), A(2))
    BY <1>2, <2>2, <2>3, <2>4 DEF StopsWell
  <2> QED
    BY <2>5, <2>6, <2>7, <2>8 DEF Faces, A
<1> QED
  BY <1>1, <1>3, <1>4 DEF Ordered

LEMMA PictureStopOrdered ==
  /\ Ordered(PictureStop) /\ Len(PictureStop) = 4
  /\ From(PictureStop, 1, 0) = {"picture_lock", "picture_disable", "picture_unlock",
                                        "picture_wait"}
  /\ From(PictureStop, 1, 2) = {}
<1>1. Len(PictureStop) = 4
  BY DEF PictureStop
<1>2. \A i \in 1..4 :
        /\ PictureStop[i].op = CASE i = 1 -> "picture_lock"
             [] i = 2 -> "picture_disable" [] i = 3 -> "picture_unlock"
             [] i = 4 -> "picture_wait"
        /\ PictureStop[i].onFailure = "ignore"
        /\ PictureStop[i].node = 0
  BY DEF PictureStop, Op, Do, Try, Starting, Taking
<1>3. /\ From(PictureStop, 1, 0) = {"picture_lock", "picture_disable", "picture_unlock",
                                        "picture_wait"}
      /\ From(PictureStop, 1, 2) = {}
  BY <1>1, <1>2 DEF From
<1>4. ASSUME NEW k \in 1..4
      PROVE  Faces(PictureStop[k], From(PictureStop, k + 1, 0), From(PictureStop, k + 1, 2))
  <2> DEFINE A(n) == From(PictureStop, k + 1, n)
  <2>1. \A n, x : x \in A(n) <=>
          \E i \in (k + 1)..4 : PictureStop[i].op = x /\ PictureStop[i].node = n
    BY <1>1 DEF From
  <2>2. /\ A(0) \subseteq {"picture_disable", "picture_unlock", "picture_wait"}
        /\ A(2) \subseteq {}
    BY <1>2, <2>1
  <2>4. k = 4 => A(0) = {} /\ A(2) = {}
    BY <2>1
  <2> HIDE DEF A
  <2>5. FailsWell(PictureStop[k], A(0), A(2))
    BY <1>2, <2>2, <2>4 DEF FailsWell, Giving
  <2>6. StartsWell(PictureStop[k], A(0), A(2))
    BY <1>2, <2>2, <2>4 DEF StartsWell, SharedOps
  <2>7. TakesWell(PictureStop[k], A(0))
    BY <1>2, <2>2, <2>4 DEF TakesWell
  <2>8. StopsWell(PictureStop[k], A(0), A(2))
    BY <1>2, <2>2, <2>4 DEF StopsWell
  <2> QED
    BY <2>5, <2>6, <2>7, <2>8 DEF Faces, A
<1> QED
  BY <1>1, <1>3, <1>4 DEF Ordered

(* The same of the preview thread while it arms node 2, and of a picture     *)
(* thread, which has node 0.                                                 *)
LoopFaces(o, A0, A2) ==
  /\ o.node = IF o.op \in {"recording_on", "recording_off", "preview_failed"} THEN 0 ELSE 2
  /\ o.op \in {"memory", "streamon"} => "recording_on" \in A0
  /\ o.op = "streamon" => A2 = {}
LoopOrdered(q) ==
  \A k \in 1..Len(q) :
    /\ LoopFaces(q[k], From(q, k + 1, 0), From(q, k + 1, 2))
    /\ q[k].op = "recording_on" => k = Len(q)
Arming(name) == Op(name, 2, "recording_error")
ArmOps ==
  <<Arming("enum_fmt"), Arming("s_fmt"), Arming("s_ctrl"), Arming("reqbufs"), Arming("querybuf"),
    Arming("memory"), Arming("qbuf"), Arming("s_ctrl"), Arming("streamon"), Do("recording_on")>>

LEMMA ArmsAre == RecordingStartOps = ArmOps
<1> DEFINE names == <<"enum_fmt", "s_fmt", "s_ctrl", "reqbufs", "querybuf", "memory", "qbuf",
                      "s_ctrl", "streamon">>
           B == <<Arming("enum_fmt"), Arming("s_fmt"), Arming("s_ctrl"), Arming("reqbufs"),
                  Arming("querybuf"), Arming("memory"), Arming("qbuf"), Arming("s_ctrl"),
                  Arming("streamon")>>
<1>1. Each(names, 2, "recording_error") = B
  BY DEF Each, Arming
<1>2. Joins(B, <<Do("recording_on")>>, ArmOps)
  BY DEF Joins, Ops, OpNames, Outcomes, Nodes, Op, Do, Ioctls, BufferIoctls, StreamIoctls,
         FormatIoctls, ControlIoctls, Arming, ArmOps
<1> HIDE DEF B
<1>3. RecordingStartOps = B \o <<Do("recording_on")>>
  BY <1>1 DEF RecordingStartOps
<1> QED
  BY <1>2, <1>3, Joined

ThreadFaces(o, A0, A2) ==
  /\ o.node = 0 /\ A2 = {}
  /\ o.onFailure \in {"ignore", "picture_failed", "picture_error", "encoder_error"}
  /\ o.onFailure # "ignore" /\ "streamoff" \in A0 => o.op = "poll"
  /\ "picture_begin" \notin A0
  /\ o.op = "clear_picture" => "release_picture" \notin A0
ThreadOrdered(q) ==
  \A k \in 1..Len(q) :
    /\ ThreadFaces(q[k], From(q, k + 1, 0), From(q, k + 1, 2))
    /\ q[k].op = "release_picture" => k < Len(q) /\ q[k + 1].op = "clear_picture"

LEMMA ArmOpsOrdered ==
  /\ LoopOrdered(ArmOps) /\ Len(ArmOps) = 10
  /\ From(ArmOps, 1, 0) = {"recording_on"}
  /\ From(ArmOps, 1, 2) = {"enum_fmt", "s_fmt", "s_ctrl", "reqbufs", "querybuf",
                                   "memory", "qbuf", "streamon"}
<1>1. Len(ArmOps) = 10
  BY DEF ArmOps
<1>2. \A i \in 1..10 :
        /\ ArmOps[i].op = CASE i = 1 -> "enum_fmt" [] i = 2 -> "s_fmt"
             [] i \in {3, 8} -> "s_ctrl" [] i = 4 -> "reqbufs" [] i = 5 -> "querybuf"
             [] i = 6 -> "memory" [] i = 7 -> "qbuf" [] i = 9 -> "streamon"
             [] i = 10 -> "recording_on"
        /\ ArmOps[i].onFailure = CASE i \in 1..9 -> "recording_error" [] i = 10 -> "ignore"
        /\ ArmOps[i].node = CASE i \in 1..9 -> 2 [] i = 10 -> 0
  BY DEF ArmOps, Op, Do, Try, Arming
<1>3. /\ From(ArmOps, 1, 0) = {"recording_on"}
      /\ From(ArmOps, 1, 2) = {"enum_fmt", "s_fmt", "s_ctrl", "reqbufs", "querybuf",
                                   "memory", "qbuf", "streamon"}
  BY <1>1, <1>2 DEF From
<1>4. ASSUME NEW k \in 1..10
      PROVE  LoopFaces(ArmOps[k], From(ArmOps, k + 1, 0), From(ArmOps, k + 1, 2))
  <2> DEFINE A(n) == From(ArmOps, k + 1, n)
  <2>1. \A n, x : x \in A(n) <=>
          \E i \in (k + 1)..10 : ArmOps[i].op = x /\ ArmOps[i].node = n
    BY <1>1 DEF From
  <2>2. /\ A(0) \subseteq {"recording_on"}
        /\ A(2) \subseteq {"s_fmt", "s_ctrl", "reqbufs", "querybuf", "memory", "qbuf", "streamon"}
    BY <1>2, <2>1
  <2>3. /\ ("recording_on" \in A(0) <=> k < 10)
        /\ ("streamon" \in A(2) <=> k < 9)
    BY <1>2, <2>1
  <2>4. k >= 9 => A(2) = {}
    BY <1>2, <2>1
  <2> HIDE DEF A
  <2>5. LoopFaces(ArmOps[k], A(0), A(2))
    BY <1>2, <2>2, <2>3, <2>4 DEF LoopFaces
  <2> QED
    BY <2>5 DEF LoopFaces, A
<1>5. \A k \in 1..10 : ArmOps[k].op = "recording_on" => k = 10
  BY <1>1, <1>2
<1> QED
  BY <1>1, <1>3, <1>4, <1>5 DEF LoopOrdered

LEMMA RecordingErrorOrdered ==
  /\ LoopOrdered(RecordingError) /\ Len(RecordingError) = 4
  /\ From(RecordingError, 1, 0) = {"recording_off", "preview_failed"}
  /\ From(RecordingError, 1, 2) = {"release", "reqbufs0"}
<1>1. Len(RecordingError) = 4
  BY DEF RecordingError
<1>2. \A i \in 1..4 :
        /\ RecordingError[i].op = CASE i = 1 -> "recording_off" [] i = 2 -> "release"
             [] i = 3 -> "reqbufs0" [] i = 4 -> "preview_failed"
        /\ RecordingError[i].onFailure = "ignore"
        /\ RecordingError[i].node = CASE i \in {1, 4} -> 0 [] i \in 2..3 -> 2
  BY DEF RecordingError, Op, Do, Try, Arming
<1>3. /\ From(RecordingError, 1, 0) = {"recording_off", "preview_failed"}
      /\ From(RecordingError, 1, 2) = {"release", "reqbufs0"}
  BY <1>1, <1>2 DEF From
<1>4. ASSUME NEW k \in 1..4
      PROVE  LoopFaces(RecordingError[k], From(RecordingError, k + 1, 0),
                   From(RecordingError, k + 1, 2))
  <2> DEFINE A(n) == From(RecordingError, k + 1, n)
  <2>1. \A n, x : x \in A(n) <=>
          \E i \in (k + 1)..4 : RecordingError[i].op = x /\ RecordingError[i].node = n
    BY <1>1 DEF From
  <2>2. /\ A(0) \subseteq {"preview_failed"}
        /\ A(2) \subseteq {"release", "reqbufs0"}
    BY <1>2, <2>1
  <2>4. k = 4 => A(0) = {} /\ A(2) = {}
    BY <2>1
  <2> HIDE DEF A
  <2>5. LoopFaces(RecordingError[k], A(0), A(2))
    BY <1>2, <2>2, <2>4 DEF LoopFaces
  <2> QED
    BY <2>5 DEF LoopFaces, A
<1>5. \A k \in 1..4 : RecordingError[k].op = "recording_on" => k = 4
  BY <1>1, <1>2
<1> QED
  BY <1>1, <1>3, <1>4, <1>5 DEF LoopOrdered

LEMMA BeginThreadOrdered ==
  /\ ThreadOrdered(BeginThread) /\ Len(BeginThread) = 1
  /\ From(BeginThread, 1, 0) = {"picture_begin"}
  /\ From(BeginThread, 1, 2) = {}
<1>1. Len(BeginThread) = 1
  BY DEF BeginThread
<1>2. \A i \in 1..1 :
        /\ BeginThread[i].op = "picture_begin"
        /\ BeginThread[i].onFailure = "ignore"
        /\ BeginThread[i].node = 0
  BY DEF BeginThread, Op, Do, Failing, Erring, Closing
<1>3. /\ From(BeginThread, 1, 0) = {"picture_begin"}
      /\ From(BeginThread, 1, 2) = {}
  BY <1>1, <1>2 DEF From
<1>4. ASSUME NEW k \in 1..1
      PROVE  ThreadFaces(BeginThread[k], From(BeginThread, k + 1, 0), From(BeginThread, k + 1, 2))
  <2> DEFINE A(n) == From(BeginThread, k + 1, n)
  <2>1. \A n, x : x \in A(n) <=>
          \E i \in (k + 1)..1 : BeginThread[i].op = x /\ BeginThread[i].node = n
    BY <1>1 DEF From
  <2>2. /\ A(0) \subseteq {}
        /\ A(2) \subseteq {}
    BY <1>2, <2>1
  <2>4. k = 1 => A(0) = {} /\ A(2) = {}
    BY <2>1
  <2> HIDE DEF A
  <2>5. ThreadFaces(BeginThread[k], A(0), A(2))
    BY <1>2, <2>2, <2>4 DEF ThreadFaces
  <2> QED
    BY <2>5 DEF ThreadFaces, A
<1>5. \A k \in 1..1 : BeginThread[k].op = "release_picture" 
         => k < 1 /\ BeginThread[k + 1].op = "clear_picture"
  BY <1>1, <1>2
<1> QED
  BY <1>1, <1>3, <1>4, <1>5 DEF ThreadOrdered

LEMMA CancelledThreadOrdered ==
  /\ ThreadOrdered(CancelledThread) /\ Len(CancelledThread) = 3
  /\ From(CancelledThread, 1, 0) = {"not_running", "picture_disable", "not_started"}
  /\ From(CancelledThread, 1, 2) = {}
<1>1. Len(CancelledThread) = 3
  BY DEF CancelledThread
<1>2. \A i \in 1..3 :
        /\ CancelledThread[i].op = CASE i = 1 -> "not_running"
             [] i = 2 -> "picture_disable" [] i = 3 -> "not_started"
        /\ CancelledThread[i].onFailure = "ignore"
        /\ CancelledThread[i].node = 0
  BY DEF CancelledThread, Op, Do, Failing, Erring, Closing
<1>3. /\ From(CancelledThread, 1, 0) = {"not_running", "picture_disable", "not_started"}
      /\ From(CancelledThread, 1, 2) = {}
  BY <1>1, <1>2 DEF From
<1>4. ASSUME NEW k \in 1..3
      PROVE  ThreadFaces(CancelledThread[k], From(CancelledThread, k + 1, 0),
                   From(CancelledThread, k + 1, 2))
  <2> DEFINE A(n) == From(CancelledThread, k + 1, n)
  <2>1. \A n, x : x \in A(n) <=>
          \E i \in (k + 1)..3 : CancelledThread[i].op = x /\ CancelledThread[i].node = n
    BY <1>1 DEF From
  <2>2. /\ A(0) \subseteq {"picture_disable", "not_started"}
        /\ A(2) \subseteq {}
    BY <1>2, <2>1
  <2>4. k = 3 => A(0) = {} /\ A(2) = {}
    BY <2>1
  <2> HIDE DEF A
  <2>5. ThreadFaces(CancelledThread[k], A(0), A(2))
    BY <1>2, <2>2, <2>4 DEF ThreadFaces
  <2> QED
    BY <2>5 DEF ThreadFaces, A
<1>5. \A k \in 1..3 : CancelledThread[k].op = "release_picture" 
         => k < 3 /\ CancelledThread[k + 1].op = "clear_picture"
  BY <1>1, <1>2
<1> QED
  BY <1>1, <1>3, <1>4, <1>5 DEF ThreadOrdered

LEMMA FrontThreadOrdered ==
  /\ ThreadOrdered(FrontThread) /\ Len(FrontThread) = 22
  /\ From(FrontThread, 1, 0) = {"picture_lock", "poll", "streamoff", "dqbuf",
                                        "encoder_open", "encode", "thumbnail",
                                        "encoder_close", "image", "exif", "data", "callbacks",
                                        "release_data", "release_picture", "clear_picture",
                                        "picture_unlock", "not_running", "picture_disable",
                                        "not_started"}
  /\ From(FrontThread, 1, 2) = {}
<1>1. Len(FrontThread) = 22
  BY DEF FrontThread
<1>2. \A i \in 1..22 :
        /\ FrontThread[i].op = CASE i = 1 -> "picture_lock" [] i = 2 -> "poll"
             [] i = 3 -> "streamoff" [] i = 4 -> "dqbuf" [] i \in {5, 9} -> "encoder_open"
             [] i \in {6, 10} -> "encode" [] i = 7 -> "thumbnail"
             [] i \in {8, 12} -> "encoder_close" [] i = 11 -> "image" [] i = 13 -> "exif"
             [] i = 14 -> "data" [] i = 15 -> "callbacks" [] i = 16 -> "release_data"
             [] i = 17 -> "release_picture" [] i = 18 -> "clear_picture"
             [] i = 19 -> "picture_unlock" [] i = 20 -> "not_running"
             [] i = 21 -> "picture_disable" [] i = 22 -> "not_started"
        /\ FrontThread[i].onFailure = CASE i \in {1, 8, 12, 15, 16, 17, 18, 19, 20, 21, 22} -> "ignore"
             [] i \in 2..4 -> "picture_failed" [] i \in {5, 9, 13, 14} -> "picture_error"
             [] i \in {6, 7, 10, 11} -> "encoder_error"
        /\ FrontThread[i].node = 0
  BY DEF FrontThread, Op, Do, Failing, Erring, Closing
<1>3. /\ From(FrontThread, 1, 0) = {"picture_lock", "poll", "streamoff", "dqbuf",
                                        "encoder_open", "encode", "thumbnail",
                                        "encoder_close", "image", "exif", "data", "callbacks",
                                        "release_data", "release_picture", "clear_picture",
                                        "picture_unlock", "not_running", "picture_disable",
                                        "not_started"}
      /\ From(FrontThread, 1, 2) = {}
  BY <1>1, <1>2 DEF From
<1>4. ASSUME NEW k \in 1..22
      PROVE  ThreadFaces(FrontThread[k], From(FrontThread, k + 1, 0), From(FrontThread, k + 1, 2))
  <2> DEFINE A(n) == From(FrontThread, k + 1, n)
  <2>1. \A n, x : x \in A(n) <=>
          \E i \in (k + 1)..22 : FrontThread[i].op = x /\ FrontThread[i].node = n
    BY <1>1 DEF From
  <2>2. /\ A(0) \subseteq {"poll", "streamoff", "dqbuf", "encoder_open", "encode",
                          "thumbnail", "encoder_close", "image", "exif", "data", "callbacks",
                          "release_data", "release_picture", "clear_picture",
                          "picture_unlock", "not_running", "picture_disable", "not_started"}
        /\ A(2) \subseteq {}
    BY <1>2, <2>1
  <2>3. /\ ("streamoff" \in A(0) <=> k < 3)
        /\ ("release_picture" \in A(0) <=> k < 17)
    BY <1>2, <2>1
  <2>4. k = 22 => A(0) = {} /\ A(2) = {}
    BY <2>1
  <2> HIDE DEF A
  <2>5. ThreadFaces(FrontThread[k], A(0), A(2))
    BY <1>2, <2>2, <2>3, <2>4 DEF ThreadFaces
  <2> QED
    BY <2>5 DEF ThreadFaces, A
<1>5. \A k \in 1..22 : FrontThread[k].op = "release_picture" 
         => k < 22 /\ FrontThread[k + 1].op = "clear_picture"
  BY <1>1, <1>2
<1> QED
  BY <1>1, <1>3, <1>4, <1>5 DEF ThreadOrdered

LEMMA RearThreadOrdered ==
  /\ ThreadOrdered(RearThread) /\ Len(RearThread) = 17
  /\ From(RearThread, 1, 0) = {"picture_lock", "poll", "streamoff", "dqbuf",
                                       "g_ctrl", "thumbnail", "image", "exif", "data",
                                       "callbacks", "release_data", "release_picture",
                                       "clear_picture", "picture_unlock", "not_running",
                                       "picture_disable", "not_started"}
  /\ From(RearThread, 1, 2) = {}
<1>1. Len(RearThread) = 17
  BY DEF RearThread
<1>2. \A i \in 1..17 :
        /\ RearThread[i].op = CASE i = 1 -> "picture_lock" [] i = 2 -> "poll"
             [] i = 3 -> "streamoff" [] i = 4 -> "dqbuf" [] i = 5 -> "g_ctrl"
             [] i = 6 -> "thumbnail" [] i = 7 -> "image" [] i = 8 -> "exif" [] i = 9 -> "data"
             [] i = 10 -> "callbacks" [] i = 11 -> "release_data"
             [] i = 12 -> "release_picture" [] i = 13 -> "clear_picture"
             [] i = 14 -> "picture_unlock" [] i = 15 -> "not_running"
             [] i = 16 -> "picture_disable" [] i = 17 -> "not_started"
        /\ RearThread[i].onFailure = CASE i \in {1, 10, 11, 12, 13, 14, 15, 16, 17} -> "ignore"
             [] i \in 2..5 -> "picture_failed" [] i \in 6..9 -> "picture_error"
        /\ RearThread[i].node = 0
  BY DEF RearThread, Op, Do, Failing, Erring, Closing
<1>3. /\ From(RearThread, 1, 0) = {"picture_lock", "poll", "streamoff", "dqbuf",
                                       "g_ctrl", "thumbnail", "image", "exif", "data",
                                       "callbacks", "release_data", "release_picture",
                                       "clear_picture", "picture_unlock", "not_running",
                                       "picture_disable", "not_started"}
      /\ From(RearThread, 1, 2) = {}
  BY <1>1, <1>2 DEF From
<1>4. ASSUME NEW k \in 1..17
      PROVE  ThreadFaces(RearThread[k], From(RearThread, k + 1, 0), From(RearThread, k + 1, 2))
  <2> DEFINE A(n) == From(RearThread, k + 1, n)
  <2>1. \A n, x : x \in A(n) <=>
          \E i \in (k + 1)..17 : RearThread[i].op = x /\ RearThread[i].node = n
    BY <1>1 DEF From
  <2>2. /\ A(0) \subseteq {"poll", "streamoff", "dqbuf", "g_ctrl", "thumbnail", "image",
                          "exif", "data", "callbacks", "release_data", "release_picture",
                          "clear_picture", "picture_unlock", "not_running", "picture_disable",
                          "not_started"}
        /\ A(2) \subseteq {}
    BY <1>2, <2>1
  <2>3. /\ ("streamoff" \in A(0) <=> k < 3)
        /\ ("release_picture" \in A(0) <=> k < 12)
    BY <1>2, <2>1
  <2>4. k = 17 => A(0) = {} /\ A(2) = {}
    BY <2>1
  <2> HIDE DEF A
  <2>5. ThreadFaces(RearThread[k], A(0), A(2))
    BY <1>2, <2>2, <2>3, <2>4 DEF ThreadFaces
  <2> QED
    BY <2>5 DEF ThreadFaces, A
<1>5. \A k \in 1..17 : RearThread[k].op = "release_picture" 
         => k < 17 /\ RearThread[k + 1].op = "clear_picture"
  BY <1>1, <1>2
<1> QED
  BY <1>1, <1>3, <1>4, <1>5 DEF ThreadOrdered

LEMMA FailedThreadOrdered ==
  /\ ThreadOrdered(FailedThread) /\ Len(FailedThread) = 7
  /\ From(FailedThread, 1, 0) = {"picture_disable", "release_picture",
                                         "clear_picture", "picture_unlock", "not_running",
                                         "not_started"}
  /\ From(FailedThread, 1, 2) = {}
<1>1. Len(FailedThread) = 7
  BY DEF FailedThread
<1>2. \A i \in 1..7 :
        /\ FailedThread[i].op = CASE i \in {1, 6} -> "picture_disable"
             [] i = 2 -> "release_picture" [] i = 3 -> "clear_picture"
             [] i = 4 -> "picture_unlock" [] i = 5 -> "not_running" [] i = 7 -> "not_started"
        /\ FailedThread[i].onFailure = "ignore"
        /\ FailedThread[i].node = 0
  BY DEF FailedThread, Op, Do, Failing, Erring, Closing
<1>3. /\ From(FailedThread, 1, 0) = {"picture_disable", "release_picture",
                                         "clear_picture", "picture_unlock", "not_running",
                                         "not_started"}
      /\ From(FailedThread, 1, 2) = {}
  BY <1>1, <1>2 DEF From
<1>4. ASSUME NEW k \in 1..7
      PROVE  ThreadFaces(FailedThread[k], From(FailedThread, k + 1, 0),
                   From(FailedThread, k + 1, 2))
  <2> DEFINE A(n) == From(FailedThread, k + 1, n)
  <2>1. \A n, x : x \in A(n) <=>
          \E i \in (k + 1)..7 : FailedThread[i].op = x /\ FailedThread[i].node = n
    BY <1>1 DEF From
  <2>2. /\ A(0) \subseteq {"release_picture", "clear_picture", "picture_unlock",
                          "not_running", "picture_disable", "not_started"}
        /\ A(2) \subseteq {}
    BY <1>2, <2>1
  <2>3. /\ ("release_picture" \in A(0) <=> k < 2)
    BY <1>2, <2>1
  <2>4. k = 7 => A(0) = {} /\ A(2) = {}
    BY <2>1
  <2> HIDE DEF A
  <2>5. ThreadFaces(FailedThread[k], A(0), A(2))
    BY <1>2, <2>2, <2>3, <2>4 DEF ThreadFaces
  <2> QED
    BY <2>5 DEF ThreadFaces, A
<1>5. \A k \in 1..7 : FailedThread[k].op = "release_picture" 
         => k < 7 /\ FailedThread[k + 1].op = "clear_picture"
  BY <1>1, <1>2
<1> QED
  BY <1>1, <1>3, <1>4, <1>5 DEF ThreadOrdered

LEMMA ErringThreadOrdered ==
  /\ ThreadOrdered(ErringThread) /\ Len(ErringThread) = 8
  /\ From(ErringThread, 1, 0) = {"release_data", "picture_disable",
                                         "release_picture", "clear_picture", "picture_unlock",
                                         "not_running", "not_started"}
  /\ From(ErringThread, 1, 2) = {}
<1>1. Len(ErringThread) = 8
  BY DEF ErringThread
<1>2. \A i \in 1..8 :
        /\ ErringThread[i].op = CASE i = 1 -> "release_data"
             [] i \in {2, 7} -> "picture_disable" [] i = 3 -> "release_picture"
             [] i = 4 -> "clear_picture" [] i = 5 -> "picture_unlock"
             [] i = 6 -> "not_running" [] i = 8 -> "not_started"
        /\ ErringThread[i].onFailure = "ignore"
        /\ ErringThread[i].node = 0
  BY DEF ErringThread, Op, Do, Failing, Erring, Closing
<1>3. /\ From(ErringThread, 1, 0) = {"release_data", "picture_disable",
                                         "release_picture", "clear_picture", "picture_unlock",
                                         "not_running", "not_started"}
      /\ From(ErringThread, 1, 2) = {}
  BY <1>1, <1>2 DEF From
<1>4. ASSUME NEW k \in 1..8
      PROVE  ThreadFaces(ErringThread[k], From(ErringThread, k + 1, 0),
                   From(ErringThread, k + 1, 2))
  <2> DEFINE A(n) == From(ErringThread, k + 1, n)
  <2>1. \A n, x : x \in A(n) <=>
          \E i \in (k + 1)..8 : ErringThread[i].op = x /\ ErringThread[i].node = n
    BY <1>1 DEF From
  <2>2. /\ A(0) \subseteq {"picture_disable", "release_picture", "clear_picture",
                          "picture_unlock", "not_running", "not_started"}
        /\ A(2) \subseteq {}
    BY <1>2, <2>1
  <2>3. /\ ("release_picture" \in A(0) <=> k < 3)
    BY <1>2, <2>1
  <2>4. k = 8 => A(0) = {} /\ A(2) = {}
    BY <2>1
  <2> HIDE DEF A
  <2>5. ThreadFaces(ErringThread[k], A(0), A(2))
    BY <1>2, <2>2, <2>3, <2>4 DEF ThreadFaces
  <2> QED
    BY <2>5 DEF ThreadFaces, A
<1>5. \A k \in 1..8 : ErringThread[k].op = "release_picture" 
         => k < 8 /\ ErringThread[k + 1].op = "clear_picture"
  BY <1>1, <1>2
<1> QED
  BY <1>1, <1>3, <1>4, <1>5 DEF ThreadOrdered

LEMMA ClosingThreadOrdered ==
  /\ ThreadOrdered(ClosingThread) /\ Len(ClosingThread) = 9
  /\ From(ClosingThread, 1, 0) = {"encoder_close", "release_data", "picture_disable",
                                          "release_picture", "clear_picture",
                                          "picture_unlock", "not_running", "not_started"}
  /\ From(ClosingThread, 1, 2) = {}
<1>1. Len(ClosingThread) = 9
  BY DEF ClosingThread
<1>2. \A i \in 1..9 :
        /\ ClosingThread[i].op = CASE i = 1 -> "encoder_close"
             [] i = 2 -> "release_data" [] i \in {3, 8} -> "picture_disable"
             [] i = 4 -> "release_picture" [] i = 5 -> "clear_picture"
             [] i = 6 -> "picture_unlock" [] i = 7 -> "not_running" [] i = 9 -> "not_started"
        /\ ClosingThread[i].onFailure = "ignore"
        /\ ClosingThread[i].node = 0
  BY DEF ClosingThread, Op, Do, Failing, Erring, Closing
<1>3. /\ From(ClosingThread, 1, 0) = {"encoder_close", "release_data", "picture_disable",
                                          "release_picture", "clear_picture",
                                          "picture_unlock", "not_running", "not_started"}
      /\ From(ClosingThread, 1, 2) = {}
  BY <1>1, <1>2 DEF From
<1>4. ASSUME NEW k \in 1..9
      PROVE  ThreadFaces(ClosingThread[k], From(ClosingThread, k + 1, 0),
                   From(ClosingThread, k + 1, 2))
  <2> DEFINE A(n) == From(ClosingThread, k + 1, n)
  <2>1. \A n, x : x \in A(n) <=>
          \E i \in (k + 1)..9 : ClosingThread[i].op = x /\ ClosingThread[i].node = n
    BY <1>1 DEF From
  <2>2. /\ A(0) \subseteq {"release_data", "picture_disable", "release_picture",
                          "clear_picture", "picture_unlock", "not_running", "not_started"}
        /\ A(2) \subseteq {}
    BY <1>2, <2>1
  <2>3. /\ ("release_picture" \in A(0) <=> k < 4)
    BY <1>2, <2>1
  <2>4. k = 9 => A(0) = {} /\ A(2) = {}
    BY <2>1
  <2> HIDE DEF A
  <2>5. ThreadFaces(ClosingThread[k], A(0), A(2))
    BY <1>2, <2>2, <2>3, <2>4 DEF ThreadFaces
  <2> QED
    BY <2>5 DEF ThreadFaces, A
<1>5. \A k \in 1..9 : ClosingThread[k].op = "release_picture" 
         => k < 9 /\ ClosingThread[k + 1].op = "clear_picture"
  BY <1>1, <1>2
<1> QED
  BY <1>1, <1>3, <1>4, <1>5 DEF ThreadOrdered

-----------------------------------------------------------------------------
(* It stays so as an actor goes on, and as a stop goes first.                *)
LEMMA OrderedTail ==
  ASSUME NEW q \in Seq(Ops), q # << >>, Ordered(q)
  PROVE  Ordered(Tail(q)) /\ Faces(Head(q), From(Tail(q), 1, 0), From(Tail(q), 1, 2))
<1>1. /\ Head(q) = q[1] /\ Len(Tail(q)) = Len(q) - 1 /\ Len(q) \in Nat /\ Len(q) >= 1
      /\ \A i \in 1..Len(Tail(q)) : Tail(q)[i] = q[i + 1]
  BY TailsAre, LenProperties, EmptySeq
<1>2. \A k \in Nat : \A n : k > 0 => From(Tail(q), k, n) = From(q, k + 1, n)
  BY FromTail
<1>3. Faces(q[1], From(q, 1 + 1, 0), From(q, 1 + 1, 2))
  BY <1>1 DEF Ordered
<1>4. ASSUME NEW k \in 1..Len(Tail(q))
      PROVE  Faces(Tail(q)[k], From(Tail(q), k + 1, 0), From(Tail(q), k + 1, 2))
  <2>1. k + 1 \in 1..Len(q)
    BY <1>1
  <2>2. Faces(q[k + 1], From(q, (k + 1) + 1, 0), From(q, (k + 1) + 1, 2))
    BY <2>1 DEF Ordered
  <2> QED
    BY <1>1, <1>2, <2>2
<1> QED
  BY <1>1, <1>2, <1>3, <1>4 DEF Ordered

LEMMA LoopOrderedTail ==
  ASSUME NEW q \in Seq(Ops), q # << >>, LoopOrdered(q)
  PROVE  /\ LoopOrdered(Tail(q)) /\ LoopFaces(Head(q), From(Tail(q), 1, 0), From(Tail(q), 1, 2))
         /\ Head(q).op = "recording_on" => Tail(q) = << >>
<1> DEFINE t == Tail(q)
<1>1. /\ Head(q) = q[1] /\ Len(t) = Len(q) - 1 /\ Len(q) \in Nat /\ Len(q) >= 1
      /\ t \in Seq(Ops)
      /\ \A i \in 1..Len(t) : t[i] = q[i + 1]
  BY TailsAre, LenProperties, EmptySeq
<1> HIDE DEF t
<1>2. \A k \in Nat : \A n : k > 0 => From(t, k, n) = From(q, k + 1, n)
  BY FromTail DEF t
<1>3. LoopFaces(q[1], From(q, 1 + 1, 0), From(q, 1 + 1, 2)) /\ (q[1].op = "recording_on" => 1 = Len(q))
  <2>1. 1 \in 1..Len(q)
    BY <1>1
  <2> QED
    BY <2>1 DEF LoopOrdered
<1>4. ASSUME NEW k \in 1..Len(t)
      PROVE  /\ LoopFaces(t[k], From(t, k + 1, 0), From(t, k + 1, 2))
             /\ t[k].op = "recording_on" => k = Len(t)
  <2>1. k + 1 \in 1..Len(q)
    BY <1>1
  <2>2. LoopFaces(q[k + 1], From(q, (k + 1) + 1, 0), From(q, (k + 1) + 1, 2))
    BY <2>1 DEF LoopOrdered
  <2>3. q[k + 1].op = "recording_on" => k + 1 = Len(q)
    BY <2>1 DEF LoopOrdered
  <2>6. t[k] = q[k + 1] /\ (k + 1 = Len(q) => k = Len(t))
    BY <1>1
  <2>4. t[k].op = "recording_on" => k = Len(t)
    BY <2>3, <2>6
  <2>5. LoopFaces(t[k], From(t, k + 1, 0), From(t, k + 1, 2))
    BY <1>1, <1>2, <2>2
  <2> QED
    BY <2>4, <2>5
<1>5. Len(t) = 0 => t = << >>
  BY <1>1, EmptySeq
<1>6. LoopFaces(Head(q), From(t, 1, 0), From(t, 1, 2))
  BY <1>1, <1>2, <1>3
<1>7. Head(q).op = "recording_on" => t = << >>
  BY <1>1, <1>3, <1>5
<1>8. LoopOrdered(t)
  BY <1>4 DEF LoopOrdered
<1> QED
  BY <1>6, <1>7, <1>8 DEF t

LEMMA ThreadOrderedTail ==
  ASSUME NEW q \in Seq(Ops), q # << >>, ThreadOrdered(q)
  PROVE  /\ ThreadOrdered(Tail(q)) /\ ThreadFaces(Head(q), From(Tail(q), 1, 0), From(Tail(q), 1, 2))
         /\ Head(q).op = "release_picture" => Tail(q) # << >> /\ Head(Tail(q)).op = "clear_picture"
<1> DEFINE t == Tail(q)
<1>1. /\ Head(q) = q[1] /\ Len(t) = Len(q) - 1 /\ Len(q) \in Nat /\ Len(q) >= 1
      /\ t \in Seq(Ops)
      /\ \A i \in 1..Len(t) : t[i] = q[i + 1]
  BY TailsAre, LenProperties, EmptySeq
<1> HIDE DEF t
<1>2. \A k \in Nat : \A n : k > 0 => From(t, k, n) = From(q, k + 1, n)
  BY FromTail DEF t
<1>3. /\ ThreadFaces(q[1], From(q, 1 + 1, 0), From(q, 1 + 1, 2))
      /\ q[1].op = "release_picture" => 1 < Len(q) /\ q[1 + 1].op = "clear_picture"
  BY <1>1 DEF ThreadOrdered
<1>4. ASSUME NEW k \in 1..Len(t)
      PROVE  /\ ThreadFaces(t[k], From(t, k + 1, 0), From(t, k + 1, 2))
             /\ t[k].op = "release_picture" =>
                  k < Len(t) /\ t[k + 1].op = "clear_picture"
  <2>1. k + 1 \in 1..Len(q)
    BY <1>1
  <2>2. /\ ThreadFaces(q[k + 1], From(q, (k + 1) + 1, 0), From(q, (k + 1) + 1, 2))
        /\ q[k + 1].op = "release_picture" =>
             k + 1 < Len(q) /\ q[(k + 1) + 1].op = "clear_picture"
    BY <2>1 DEF ThreadOrdered
  <2> QED
    BY <1>1, <1>2, <2>2
<1>5. Head(q).op = "release_picture" => t # << >> /\ Head(t).op = "clear_picture"
  <2> SUFFICES ASSUME Head(q).op = "release_picture"
               PROVE  t # << >> /\ Head(t).op = "clear_picture"
    OBVIOUS
  <2>1. Len(q) > 1 /\ q[2].op = "clear_picture"
    <3>1. 1 \in 1..Len(q) /\ q[1].op = "release_picture" /\ 1 + 1 = 2
      BY <1>1
    <3>2. 1 < Len(q) /\ q[1 + 1].op = "clear_picture"
      BY <3>1 DEF ThreadOrdered
    <3> QED
      BY <1>1, <3>1, <3>2
  <2>3. 1 \in 1..Len(t) /\ t[1] = q[2]
    BY <1>1, <2>1
  <2>2. t # << >>
    <3>1. Len(t) # 0
      BY <1>1, <2>1
    <3> QED
      BY <3>1
  <2> QED
    BY <1>1, <2>1, <2>2, <2>3, TailsAre
<1> QED
  BY <1>1, <1>2, <1>3, <1>4, <1>5 DEF t, ThreadOrdered

LEMMA FacesGrow ==
  ASSUME NEW o \in NestedOps, NEW A0, NEW A2, NEW B0, NEW B2, Faces(o, A0, A2)
  PROVE  Faces(o, A0 \cup B0, A2 \cup B2)
<1>1. o.op \in Allowed /\ o.onFailure = "ignore"
  BY DEF NestedOps
<1>2. FailsWell(o, A0 \cup B0, A2 \cup B2)
  BY <1>1 DEF FailsWell, Allowed
<1>3. StartsWell(o, A0 \cup B0, A2 \cup B2)
  BY <1>1 DEF StartsWell, Allowed, Faces
<1>4. TakesWell(o, A0 \cup B0)
  BY <1>1 DEF TakesWell, Allowed
<1>5. StopsWell(o, A0 \cup B0, A2 \cup B2)
  BY DEF StopsWell, Faces
<1> QED
  BY <1>2, <1>3, <1>4, <1>5 DEF Faces

LEMMA OrderedJoin ==
  ASSUME NEW p \in Seq(NestedOps), NEW r \in Seq(Ops), Ordered(p), Ordered(r)
  PROVE  Ordered(p \o r)
<1>1. p \in Seq(Ops) /\ Len(p) \in Nat /\ Len(r) \in Nat
  BY StopsAreNested, LenProperties
<1>2. /\ Len(p \o r) = Len(p) + Len(r)
      /\ \A i \in 1..Len(p) + Len(r) : (p \o r)[i] = IF i <= Len(p) THEN p[i] ELSE r[i - Len(p)]
  BY <1>1, ConcatProperties
<1> SUFFICES ASSUME NEW k \in 1..Len(p \o r)
             PROVE  Faces((p \o r)[k], From(p \o r, k + 1, 0), From(p \o r, k + 1, 2))
  BY DEF Ordered
<1>3. CASE k <= Len(p)
  <2>1. k \in 1..Len(p) /\ (p \o r)[k] = p[k] /\ p[k] \in NestedOps
    BY <1>1, <1>2, <1>3, ElementOfSeq
  <2>5. k + 1 \in Nat /\ k + 1 > 0 /\ k + 1 <= Len(p) + 1
    BY <1>1, <2>1
  <2>2. Faces(p[k], From(p, k + 1, 0), From(p, k + 1, 2))
    BY <2>1 DEF Ordered
  <2>3. Faces(p[k], From(p, k + 1, 0) \cup From(r, 1, 0), From(p, k + 1, 2) \cup From(r, 1, 2))
    BY <2>1, <2>2, FacesGrow
  <2>4. ASSUME NEW n PROVE From(p \o r, k + 1, n) = From(p, k + 1, n) \cup From(r, 1, n)
    BY <1>1, <2>5, FromStop
  <2> QED
    BY <2>1, <2>3, <2>4
<1>4. CASE ~(k <= Len(p))
  <2> DEFINE j == k - Len(p)
  <2>1. j \in 1..Len(r) /\ (p \o r)[k] = r[j] /\ k + 1 = Len(p) + (j + 1)
    BY <1>1, <1>2, <1>4
  <2> HIDE DEF j
  <2>2. Faces(r[j], From(r, j + 1, 0), From(r, j + 1, 2))
    BY <2>1 DEF Ordered
  <2>3. \A n : From(p \o r, Len(p) + (j + 1), n) = From(r, j + 1, n)
    BY <1>1, <2>1, FromCall
  <2> QED
    BY <2>1, <2>2, <2>3
<1> QED
  BY <1>3, <1>4

-----------------------------------------------------------------------------
(* What the flags of the nodes mean, given what the actors still do.         *)
C0 == From(todo[Caller], 1, 0)
C2 == From(todo[Caller], 1, 2)
L0 == From(todo[PreviewLoop], 1, 0)
L2 == From(todo[PreviewLoop], 1, 2)
T0 == UNION { From(todo[s], 1, 0) : s \in Stills }

Dirty == mishaps \cap Unclean # {}
DirtyMaps == mishaps \cap (Unclean \cup Unmapped) # {}

(* The wrapper has a preview, or a start that has its thread by now.         *)
Started == previewStarted \/ ("started" \in C0 /\ "preview_thread" \notin C0)

OrderInv ==
  /\ Ordered(todo[Caller]) /\ LoopOrdered(todo[PreviewLoop])
  /\ \A s \in Stills : ThreadOrdered(todo[s])
DriverType ==
  /\ driver \in [Nodes -> [streaming : BOOLEAN, buffers : BOOLEAN]]
  /\ fds \in [Nodes -> {"zero", "open", "closed"}]
StartInv ==
  /\ previewStarted => /\ opened /\ "started" \notin C0 /\ "preview_reset" \notin C0
                       /\ "opened" \notin C0 /\ "silenced" \notin C0 /\ "freed" \notin C0
  /\ "started" \in C0 => opened
  /\ "started" \in C0 /\ "memory" \notin C0 => preview_memory /\ \A x \in Giving : x \notin C0
PreviewInv ==
  /\ preview_memory =>
       previewStarted \/ "started" \in C0 \/ "preview_stop" \in C0 \/ "release" \in C0
  /\ preview_enabled => Started \/ "preview_stop" \in C0 \/ "preview_disable" \in C0
  /\ todo[PreviewLoop] # << >> =>
       /\ preview_thread_started /\ ~recording_enabled
       /\ Started \/ "preview_stop" \in C0 \/ "preview_lock" \in C0
RecordingInv ==
  /\ recording_enabled =>
       Started \/ "preview_stop" \in C0 \/ "recording_stop" \in C0 \/ "recording_off" \in C0
  /\ recording_memory =>
       recording_enabled \/ "recording_on" \in L0 \/ "release" \in L2 \/ "release" \in C2
  /\ driver[2].streaming =>
       Dirty \/ recording_enabled \/ "streamoff" \in C2 \/ ("recording_on" \in L0 /\ L2 = {})
StreamInv ==
  /\ \A n \in Nodes : driver[n].streaming => fds[n] = "open" \/ Dirty
  /\ driver[0].streaming =>
       \/ Dirty \/ "streamoff" \in C0 \/ "picture_begin" \in T0 \/ "streamoff" \in T0
       \/ "picture_thread" \in C0 /\ "streamon" \notin C0
       \/ /\ preview_memory /\ "release" \notin C0
          /\ \/ previewStarted \/ "preview_stop" \in C0
             \/ "started" \in C0 /\ "streamon" \notin C0
ThreadInv ==
  /\ "picture_thread" \in C0 => Alone \/ Dirty
  /\ picture_thread_running => Dirty \/ "not_running" \in T0
  /\ "picture_thread" \in C0 /\ "reqbufs1" \notin C0 =>
       fds[0] = "open" /\ driver[0].buffers /\ \A x \in Giving : x \notin C0
MapInv ==
  mapped # {} => \/ DirtyMaps
                 \/ /\ mapped \subseteq {picture_memory}
                    /\ \/ "picture_thread" \in C0 /\ "map_picture" \notin C0
                       \/ "picture_begin" \in T0 \/ "release_picture" \in T0
StateInv == StartInv /\ PreviewInv /\ RecordingInv /\ StreamInv /\ ThreadInv /\ MapInv
FreeInv == DriverType /\ OrderInv /\ StateInv

-----------------------------------------------------------------------------
(* What an actor has after a step.                                           *)
LEMMA OthersRest ==
  ASSUME TodoType, NEW a \in Actors, NEW q, todo' = [todo EXCEPT ![a] = q]
  PROVE  todo'[a] = q /\ \A b \in Actors : b # a => todo'[b] = todo[b]
  BY DEF TodoType

Rests(a) ==
  /\ a # Caller => todo'[Caller] = todo[Caller] /\ C0' = C0 /\ C2' = C2
  /\ a # PreviewLoop => todo'[PreviewLoop] = todo[PreviewLoop] /\ L0' = L0 /\ L2' = L2
  /\ a \notin Stills => /\ T0' = T0 /\ (Alone' <=> Alone)
                        /\ \A s \in Stills : todo'[s] = todo[s]

LEMMA OthersAhead ==
  ASSUME NEW a \in Actors, \A b \in Actors : b # a => todo'[b] = todo[b]
  PROVE  Rests(a)
<1>1. a # Caller => todo'[Caller] = todo[Caller] /\ C0' = C0 /\ C2' = C2
  BY ActorsAre DEF C0, C2
<1>2. a # PreviewLoop => todo'[PreviewLoop] = todo[PreviewLoop] /\ L0' = L0 /\ L2' = L2
  BY ActorsAre DEF L0, L2
<1>3. ASSUME a \notin Stills
      PROVE  T0' = T0 /\ (Alone' <=> Alone) /\ \A s \in Stills : todo'[s] = todo[s]
  <2>1. \A s \in Stills : todo'[s] = todo[s]
    BY <1>3, ActorsAre
  <2> QED
    BY <2>1 DEF T0, Alone
<1> QED
  BY <1>1, <1>2, <1>3 DEF Rests

LEMMA AloneIs == Alone => T0 = {}
<1> SUFFICES ASSUME Alone PROVE \A s \in Stills : From(todo[s], 1, 0) = {}
  BY DEF T0
<1> QED
  BY FromNone DEF Alone

LEMMA IdleIs ==
  /\ todo[Caller] = << >> => C0 = {} /\ C2 = {}
  /\ todo[PreviewLoop] = << >> => L0 = {} /\ L2 = {}
  BY FromNone DEF C0, C2, L0, L2

(* The caller: o is done, and A0 and A2 come after it.                       *)
Has0(o, A0) == \A x : x \in C0 <=> x \in A0 \/ (o.node = 0 /\ x = o.op)
Has2(o, A2) == \A x : x \in C2 <=> x \in A2 \/ (o.node = 2 /\ x = o.op)

LEMMA CallerHas ==
  ASSUME TodoType, OrderInv, todo[Caller] # << >>
  PROVE  LET o == Head(todo[Caller])
             A0 == From(Tail(todo[Caller]), 1, 0) A2 == From(Tail(todo[Caller]), 1, 2) IN
         /\ todo[Caller] \in Seq(Ops) /\ Tail(todo[Caller]) \in Seq(Ops)
         /\ o \in Ops /\ Faces(o, A0, A2) /\ Has0(o, A0) /\ Has2(o, A2)
         /\ Ordered(Tail(todo[Caller]))
<1> DEFINE q == todo[Caller]
<1>1. q \in Seq(Ops) /\ Ordered(q)
  BY ActorsAre DEF TodoType, OrderInv
<1>2. Head(q) \in Ops /\ Tail(q) \in Seq(Ops)
  BY <1>1, TailsAre
<1>3. Ordered(Tail(q)) /\ Faces(Head(q), From(Tail(q), 1, 0), From(Tail(q), 1, 2))
  BY <1>1, OrderedTail
<1>4. ASSUME NEW n PROVE From(q, 1, n) = From(Tail(q), 1, n) \cup (IF Head(q).node = n THEN {Head(q).op} ELSE {})
  <2>1. From(Tail(q), 1, n) = From(q, 1 + 1, n)
    BY <1>1, FromTail
  <2>2. From(q, 1, n) = From(q, 2, n) \cup (IF Head(q).node = n THEN {Head(q).op} ELSE {})
    BY <1>1, FromFirst
  <2> QED
    BY <2>1, <2>2
<1>5. Has0(Head(q), From(Tail(q), 1, 0)) /\ Has2(Head(q), From(Tail(q), 1, 2))
  BY <1>4 DEF Has0, Has2, C0, C2
<1> QED
  BY <1>1, <1>2, <1>3, <1>5

LEMMA CallerGoes ==
  ASSUME TodoType, OrderInv, todo[Caller] # << >>, Goes(Caller)
  PROVE  LET o == Head(todo[Caller]) IN
         /\ o \in Ops /\ Faces(o, C0', C2') /\ Has0(o, C0') /\ Has2(o, C2')
         /\ Rests(Caller) /\ OrderInv'
<1>1. todo'[Caller] = Tail(todo[Caller]) /\ Rests(Caller)
  <2>1. todo' = [todo EXCEPT ![Caller] = Tail(todo[Caller])]
    BY ActorsAre DEF Goes, TodoType
  <2> QED
    BY <2>1, OthersRest, OthersAhead, ActorsAre
<1>2. C0' = From(Tail(todo[Caller]), 1, 0) /\ C2' = From(Tail(todo[Caller]), 1, 2)
  BY <1>1 DEF C0, C2
<1>3. OrderInv'
  BY <1>1, CallerHas, ActorsAre DEF OrderInv, Rests
<1> QED
  BY <1>1, <1>2, <1>3, CallerHas

Cleans(o, A0, A2) ==
  CASE o.onFailure = "ignore" -> C0' = A0 /\ C2' = A2
    [] o.onFailure = "return" -> C0' = {"returned"} /\ C2' = {}
    [] o.onFailure = "deinit" ->
         C0' = {"picture_stop", "preview_stop", "recording_stop", "close", "freed"} /\ C2' = {"close"}
    [] o.onFailure = "preview_error" ->
         C0' = {"preview_reset", "recording_stop", "release", "reqbufs0"} /\ C2' = {}
    [] o.onFailure = "preview_error_on" ->
         /\ C0' = {"preview_reset", "recording_stop", "streamoff", "release", "reqbufs0"}
         /\ C2' = {}

LEMMA CallerFails ==
  ASSUME TodoType, OrderInv, todo[Caller] # << >>, Fails(Caller)
  PROVE  LET o == Head(todo[Caller]) IN
         \E A0, A2 : /\ o \in Ops /\ Faces(o, A0, A2) /\ Has0(o, A0) /\ Has2(o, A2)
                     /\ Cleans(o, A0, A2) /\ Rests(Caller) /\ OrderInv'
<1> DEFINE o == Head(todo[Caller])
           t == Tail(todo[Caller])
           A0 == From(t, 1, 0)
           A2 == From(t, 1, 2)
<1>1. todo'[Caller] = After(o.onFailure, t) /\ Rests(Caller)
  <2>1. todo' = [todo EXCEPT ![Caller] = After(o.onFailure, t)]
    BY ActorsAre DEF Fails, TodoType
  <2> QED
    BY <2>1, OthersRest, OthersAhead, ActorsAre
<1>2. o \in Ops /\ Faces(o, A0, A2) /\ Has0(o, A0) /\ Has2(o, A2) /\ Ordered(t)
  BY CallerHas
<1>3. o.onFailure \in {"ignore", "return", "deinit", "preview_error", "preview_error_on"}
  BY <1>2 DEF Faces, FailsWell
<1>4. /\ After("ignore", t) = t /\ After("return", t) = ReturnedOps /\ After("deinit", t) = Deinit
      /\ After("preview_error", t) = PreviewError /\ After("preview_error_on", t) = PreviewErrorOn
  BY AfterIs DEF Program, ReturnedOps
<1> HIDE DEF o, t
<1>5. Ordered(todo'[Caller]) /\ Cleans(o, A0, A2)
  <2>1. CASE o.onFailure = "ignore"
    BY <1>1, <1>2, <1>4, <2>1 DEF Cleans, C0, C2
  <2>2. CASE o.onFailure = "return"
    BY <1>1, <1>4, <2>2, ReturnedOpsOrdered DEF Cleans, C0, C2
  <2>3. CASE o.onFailure = "deinit"
    BY <1>1, <1>4, <2>3, DeinitOrdered DEF Cleans, C0, C2
  <2>4. CASE o.onFailure = "preview_error"
    BY <1>1, <1>4, <2>4, PreviewErrorOrdered DEF Cleans, C0, C2
  <2>5. CASE o.onFailure = "preview_error_on"
    BY <1>1, <1>4, <2>5, PreviewErrorOnOrdered DEF Cleans, C0, C2
  <2> QED
    BY <1>3, <2>1, <2>2, <2>3, <2>4, <2>5
<1>6. OrderInv'
  BY <1>1, <1>5, ActorsAre DEF OrderInv, Rests
<1> QED
  BY <1>1, <1>2, <1>5, <1>6 DEF o

LEMMA CallerStops ==
  ASSUME TodoType, OrderInv, todo[Caller] # << >>, NEW p \in Seq(NestedOps), Ordered(p),
         GoesOn(Caller, p)
  PROVE  LET o == Head(todo[Caller]) IN
         \E A0, A2 : /\ o \in Ops /\ Faces(o, A0, A2) /\ Has0(o, A0) /\ Has2(o, A2)
                     /\ C0' = From(p, 1, 0) \cup A0 /\ C2' = From(p, 1, 2) \cup A2
                     /\ Rests(Caller) /\ OrderInv'
<1> DEFINE o == Head(todo[Caller])
           t == Tail(todo[Caller])
           A0 == From(t, 1, 0)
           A2 == From(t, 1, 2)
<1>1. todo'[Caller] = p \o t /\ Rests(Caller)
  <2>1. todo' = [todo EXCEPT ![Caller] = p \o t]
    BY ActorsAre DEF GoesOn, TodoType
  <2> QED
    BY <2>1, OthersRest, OthersAhead, ActorsAre
<1>2. o \in Ops /\ Faces(o, A0, A2) /\ Has0(o, A0) /\ Has2(o, A2) /\ Ordered(t) /\ t \in Seq(Ops)
  BY CallerHas
<1>3. p \in Seq(Ops) /\ Len(p) \in Nat
  BY StopsAreNested, LenProperties
<1> HIDE DEF o, t
<1>4. ASSUME NEW n PROVE From(p \o t, 1, n) = From(p, 1, n) \cup From(t, 1, n)
  BY <1>2, <1>3, FromStop
<1>5. Ordered(p \o t)
  BY <1>2, OrderedJoin
<1>6. C0' = From(p, 1, 0) \cup A0 /\ C2' = From(p, 1, 2) \cup A2
  BY <1>1, <1>4 DEF C0, C2
<1>7. OrderInv'
  BY <1>1, <1>5, ActorsAre DEF OrderInv, Rests
<1> QED
  BY <1>1, <1>2, <1>6, <1>7 DEF o

(* The preview thread.                                                       *)
LoopHas0(o, A0) == \A x : x \in L0 <=> x \in A0 \/ (o.node = 0 /\ x = o.op)
LoopHas2(o, A2) == \A x : x \in L2 <=> x \in A2 \/ (o.node = 2 /\ x = o.op)

LEMMA LoopHas ==
  ASSUME TodoType, OrderInv, todo[PreviewLoop] # << >>
  PROVE  LET o == Head(todo[PreviewLoop])
             A0 == From(Tail(todo[PreviewLoop]), 1, 0) A2 == From(Tail(todo[PreviewLoop]), 1, 2) IN
         /\ LoopFaces(o, A0, A2) /\ LoopHas0(o, A0) /\ LoopHas2(o, A2)
         /\ LoopOrdered(Tail(todo[PreviewLoop]))
         /\ o.op = "recording_on" => Tail(todo[PreviewLoop]) = << >>
<1> DEFINE q == todo[PreviewLoop]
<1>1. q \in Seq(Ops) /\ LoopOrdered(q)
  BY ActorsAre DEF TodoType, OrderInv
<1>2. /\ LoopOrdered(Tail(q)) /\ LoopFaces(Head(q), From(Tail(q), 1, 0), From(Tail(q), 1, 2))
      /\ Head(q).op = "recording_on" => Tail(q) = << >>
  BY <1>1, LoopOrderedTail
<1>3. ASSUME NEW n
      PROVE  From(q, 1, n) = From(Tail(q), 1, n) \cup (IF Head(q).node = n THEN {Head(q).op} ELSE {})
  <2>1. From(Tail(q), 1, n) = From(q, 1 + 1, n)
    BY <1>1, FromTail
  <2>2. From(q, 1, n) = From(q, 2, n) \cup (IF Head(q).node = n THEN {Head(q).op} ELSE {})
    BY <1>1, FromFirst
  <2> QED
    BY <2>1, <2>2
<1>4. LoopHas0(Head(q), From(Tail(q), 1, 0)) /\ LoopHas2(Head(q), From(Tail(q), 1, 2))
  BY <1>3 DEF LoopHas0, LoopHas2, L0, L2
<1> QED
  BY <1>2, <1>4

LEMMA LoopGoes ==
  ASSUME TodoType, OrderInv, todo[PreviewLoop] # << >>, Goes(PreviewLoop)
  PROVE  LET o == Head(todo[PreviewLoop]) IN
         /\ LoopFaces(o, L0', L2') /\ LoopHas0(o, L0') /\ LoopHas2(o, L2')
         /\ o.op = "recording_on" => todo'[PreviewLoop] = << >>
         /\ Rests(PreviewLoop) /\ OrderInv'
<1>1. todo'[PreviewLoop] = Tail(todo[PreviewLoop]) /\ Rests(PreviewLoop)
  <2>1. todo' = [todo EXCEPT ![PreviewLoop] = Tail(todo[PreviewLoop])]
    BY ActorsAre DEF Goes, TodoType
  <2> QED
    BY <2>1, OthersRest, OthersAhead, ActorsAre
<1>2. L0' = From(Tail(todo[PreviewLoop]), 1, 0) /\ L2' = From(Tail(todo[PreviewLoop]), 1, 2)
  BY <1>1 DEF L0, L2
<1>3. OrderInv'
  BY <1>1, LoopHas, ActorsAre DEF OrderInv, Rests
<1> QED
  BY <1>1, <1>2, <1>3, LoopHas

LEMMA LoopFails ==
  ASSUME TodoType, OrderInv, LoopOK, todo[PreviewLoop] # << >>, Fails(PreviewLoop)
  PROVE  LET o == Head(todo[PreviewLoop]) IN
         \E A0, A2 :
           /\ LoopFaces(o, A0, A2) /\ LoopHas0(o, A0) /\ LoopHas2(o, A2)
           /\ \/ L0' = A0 /\ L2' = A2
              \/ L0' = {"recording_off", "preview_failed"} /\ L2' = {"release", "reqbufs0"}
           /\ Rests(PreviewLoop) /\ OrderInv'
<1> DEFINE o == Head(todo[PreviewLoop])
           t == Tail(todo[PreviewLoop])
           A0 == From(t, 1, 0)
           A2 == From(t, 1, 2)
<1>1. todo'[PreviewLoop] = After(o.onFailure, t) /\ Rests(PreviewLoop)
  <2>1. todo' = [todo EXCEPT ![PreviewLoop] = After(o.onFailure, t)]
    BY ActorsAre DEF Fails, TodoType
  <2> QED
    BY <2>1, OthersRest, OthersAhead, ActorsAre
<1>2. LoopFaces(o, A0, A2) /\ LoopHas0(o, A0) /\ LoopHas2(o, A2) /\ LoopOrdered(t)
  BY LoopHas
<1>3. o.onFailure \in {"ignore", "recording_error"}
  BY LoopFacts
<1>4. After("ignore", t) = t /\ After("recording_error", t) = RecordingError
  BY AfterIs
<1> HIDE DEF o, t
<1>5. /\ LoopOrdered(todo'[PreviewLoop])
      /\ \/ L0' = A0 /\ L2' = A2
         \/ L0' = {"recording_off", "preview_failed"} /\ L2' = {"release", "reqbufs0"}
  <2>1. CASE o.onFailure = "ignore"
    BY <1>1, <1>2, <1>4, <2>1 DEF L0, L2
  <2>2. CASE o.onFailure = "recording_error"
    BY <1>1, <1>4, <2>2, RecordingErrorOrdered DEF L0, L2
  <2> QED
    BY <1>3, <2>1, <2>2
<1>6. OrderInv'
  BY <1>1, <1>5, ActorsAre DEF OrderInv, Rests
<1> QED
  BY <1>1, <1>2, <1>5, <1>6 DEF o

(* The thread of a still.                                                    *)
LEMMA StillHas ==
  ASSUME TodoType, OrderInv, NEW s \in Stills, todo[s] # << >>
  PROVE  LET o == Head(todo[s]) A0 == From(Tail(todo[s]), 1, 0) IN
         /\ o \in Ops /\ ThreadFaces(o, A0, {}) /\ ThreadOrdered(Tail(todo[s]))
         /\ o.op = "release_picture" =>
              Tail(todo[s]) # << >> /\ Head(Tail(todo[s])).op = "clear_picture"
         /\ \A x : x \in From(todo[s], 1, 0) <=> x \in A0 \/ x = o.op
         /\ Tail(todo[s]) \in Seq(Ops)
<1> DEFINE q == todo[s]
<1>1. q \in Seq(Ops) /\ ThreadOrdered(q)
  BY ActorsAre DEF TodoType, OrderInv
<1>2. /\ ThreadOrdered(Tail(q)) /\ ThreadFaces(Head(q), From(Tail(q), 1, 0), From(Tail(q), 1, 2))
      /\ Head(q).op = "release_picture" => Tail(q) # << >> /\ Head(Tail(q)).op = "clear_picture"
  BY <1>1, ThreadOrderedTail
<1>3. From(q, 1, 0) = From(Tail(q), 1, 0) \cup (IF Head(q).node = 0 THEN {Head(q).op} ELSE {})
  <2>1. From(Tail(q), 1, 0) = From(q, 1 + 1, 0)
    BY <1>1, FromTail
  <2>2. From(q, 1, 0) = From(q, 2, 0) \cup (IF Head(q).node = 0 THEN {Head(q).op} ELSE {})
    BY <1>1, FromFirst
  <2> QED
    BY <2>1, <2>2
<1>4. Head(q).node = 0 /\ ThreadFaces(Head(q), From(Tail(q), 1, 0), {})
  BY <1>2 DEF ThreadFaces
<1>5. Head(q) \in Ops /\ Tail(q) \in Seq(Ops)
  BY <1>1, TailsAre
<1> QED
  BY <1>1, <1>2, <1>3, <1>4, <1>5

LEMMA StillRests ==
  ASSUME TodoType, OrderInv, NEW s \in Stills, NEW q, todo' = [todo EXCEPT ![s] = q], ThreadOrdered(q)
  PROVE  /\ Rests(s) /\ OrderInv' /\ From(q, 1, 0) \subseteq T0'
         /\ \A x : x \in T0 => x \in T0' \/ x \in From(todo[s], 1, 0)
<1>1. todo'[s] = q /\ \A b \in Actors : b # s => todo'[b] = todo[b]
  BY OthersRest, ActorsAre
<1>2. Rests(s)
  BY <1>1, OthersAhead, ActorsAre
<1>3. OrderInv'
  BY <1>1, ActorsAre DEF OrderInv
<1>4. T0' = UNION { From(todo'[t], 1, 0) : t \in Stills }
  BY DEF T0
<1>5. From(q, 1, 0) \subseteq T0'
  BY <1>1, <1>4
<1>6. ASSUME NEW x \in T0 PROVE x \in T0' \/ x \in From(todo[s], 1, 0)
  <2>1. PICK t \in Stills : x \in From(todo[t], 1, 0)
    BY DEF T0
  <2>2. CASE t = s
    BY <2>1, <2>2
  <2>3. CASE t # s
    <3>1. x \in From(todo'[t], 1, 0)
      BY <1>1, <2>1, <2>3, ActorsAre
    <3> QED
      BY <1>4, <3>1
  <2> QED
    BY <2>2, <2>3
<1> QED
  BY <1>2, <1>3, <1>5, <1>6

LEMMA StillGoes ==
  ASSUME TodoType, OrderInv, NEW s \in Stills, todo[s] # << >>, Goes(s)
  PROVE  /\ Rests(s) /\ OrderInv' /\ \A x : x \in T0 => x \in T0' \/ x = Head(todo[s]).op
         /\ ThreadFaces(Head(todo[s]), From(Tail(todo[s]), 1, 0), {})
         /\ From(Tail(todo[s]), 1, 0) \subseteq T0'
<1>1. todo' = [todo EXCEPT ![s] = Tail(todo[s])]
  BY ActorsAre DEF Goes, TodoType
<1>2. /\ Rests(s) /\ OrderInv' /\ From(Tail(todo[s]), 1, 0) \subseteq T0'
      /\ \A x : x \in T0 => x \in T0' \/ x \in From(todo[s], 1, 0)
  BY <1>1, StillHas, StillRests
<1> QED
  BY <1>2, StillHas

LEMMA StillFails ==
  ASSUME TodoType, OrderInv, NEW s \in Stills, todo[s] # << >>, Fails(s)
  PROVE  LET o == Head(todo[s]) IN
         /\ Rests(s) /\ OrderInv'
         /\ \A x \in {"not_running", "release_picture"} : x \in T0 => x \in T0' \/ x = o.op
         /\ "streamoff" \in T0 => "streamoff" \in T0' \/ o.op \in {"poll", "streamoff"}
         /\ "picture_begin" \in T0 => "picture_begin" \in T0' \/ o.op = "picture_begin"
<1> DEFINE o == Head(todo[s])
           t == Tail(todo[s])
           A0 == From(t, 1, 0)
<1>1. todo' = [todo EXCEPT ![s] = After(o.onFailure, t)]
  BY ActorsAre DEF Fails, TodoType
<1>2. /\ ThreadFaces(o, A0, {}) /\ ThreadOrdered(t)
      /\ \A x : x \in From(todo[s], 1, 0) <=> x \in A0 \/ x = o.op
  BY StillHas
<1>3. /\ After("ignore", t) = t /\ After("picture_failed", t) = FailedThread
      /\ After("picture_error", t) = ErringThread /\ After("encoder_error", t) = ClosingThread
  BY AfterIs DEF Thread
<1>4. o.onFailure \in {"ignore", "picture_failed", "picture_error", "encoder_error"}
  BY <1>2 DEF ThreadFaces
<1> HIDE DEF o, t
<1>5. CASE o.onFailure = "ignore"
  <2>1. /\ Rests(s) /\ OrderInv' /\ A0 \subseteq T0'
        /\ \A x : x \in T0 => x \in T0' \/ x \in From(todo[s], 1, 0)
    BY <1>1, <1>2, <1>3, <1>5, StillRests
  <2> QED
    BY <1>2, <2>1 DEF o
<1>6. CASE o.onFailure # "ignore"
  <2>1. /\ ThreadOrdered(After(o.onFailure, t))
        /\ "not_running" \in From(After(o.onFailure, t), 1, 0)
        /\ "release_picture" \in From(After(o.onFailure, t), 1, 0)
    BY <1>3, <1>4, <1>6, FailedThreadOrdered, ErringThreadOrdered, ClosingThreadOrdered
  <2>2. /\ Rests(s) /\ OrderInv' /\ From(After(o.onFailure, t), 1, 0) \subseteq T0'
        /\ \A x : x \in T0 => x \in T0' \/ x \in From(todo[s], 1, 0)
    BY <1>1, <2>1, StillRests
  <2>3. "streamoff" \in From(todo[s], 1, 0) => o.op \in {"poll", "streamoff"}
    BY <1>2, <1>6 DEF ThreadFaces
  <2>4. "picture_begin" \in From(todo[s], 1, 0) => o.op = "picture_begin"
    BY <1>2 DEF ThreadFaces
  <2> QED
    BY <2>1, <2>2, <2>3, <2>4 DEF o
<1> QED
  BY <1>5, <1>6

-----------------------------------------------------------------------------
(* A step of the wrapper's call keeps what the flags mean.                   *)
LEMMA ReachedIs ==
  ASSUME DriverType, NEW o \in Ops, Reached(o)
  PROVE  /\ DriverType'
         /\ \A n \in Nodes : n # o.node => driver'[n] = driver[n] /\ fds'[n] = fds[n]
         /\ driver'[o.node].streaming =
              IF o.op \in {"open", "close", "streamoff"} THEN FALSE
              ELSE IF o.op = "streamon" THEN TRUE ELSE driver[o.node].streaming
         /\ driver'[o.node].buffers =
              IF o.op \in {"open", "close", "reqbufs0"} THEN FALSE
              ELSE IF o.op \in {"reqbufs", "reqbufs1"} THEN TRUE ELSE driver[o.node].buffers
         /\ fds'[o.node] = IF o.op = "open" THEN "open" ELSE IF o.op = "close" THEN "closed" ELSE fds[o.node]
<1>1. o.node \in Nodes
  BY DEF Ops
<1> DEFINE d == driver[o.node]
<1>2. d \in [streaming : BOOLEAN, buffers : BOOLEAN]
  BY <1>1 DEF DriverType
<1> DEFINE e == CASE o.op \in {"open", "close"} -> Quiet
                  [] o.op \in {"reqbufs", "reqbufs1"} -> [d EXCEPT !.buffers = TRUE]
                  [] o.op = "reqbufs0" -> [d EXCEPT !.buffers = FALSE]
                  [] o.op = "streamon" -> [d EXCEPT !.streaming = TRUE]
                  [] o.op = "streamoff" -> [d EXCEPT !.streaming = FALSE]
                  [] OTHER -> d
           f == CASE o.op = "open" -> "open" [] o.op = "close" -> "closed" [] OTHER -> fds[o.node]
<1>3. driver' = [driver EXCEPT ![o.node] = e] /\ fds' = [fds EXCEPT ![o.node] = f]
  BY <1>1 DEF Reached, DriverType
<1> HIDE DEF d
<1>4. /\ e \in [streaming : BOOLEAN, buffers : BOOLEAN]
      /\ e.streaming = IF o.op \in {"open", "close", "streamoff"} THEN FALSE
                       ELSE IF o.op = "streamon" THEN TRUE ELSE d.streaming
      /\ e.buffers = IF o.op \in {"open", "close", "reqbufs0"} THEN FALSE
                     ELSE IF o.op \in {"reqbufs", "reqbufs1"} THEN TRUE ELSE d.buffers
  BY <1>2 DEF Quiet
<1>5. f = (IF o.op = "open" THEN "open" ELSE IF o.op = "close" THEN "closed" ELSE fds[o.node])
  OBVIOUS
<1> HIDE DEF e, f
<1>6. driver'[o.node] = e /\ fds'[o.node] = f
  BY <1>1, <1>3 DEF DriverType
<1>7. \A n \in Nodes : n # o.node => driver'[n] = driver[n] /\ fds'[n] = fds[n]
  BY <1>3 DEF DriverType
<1>8. f \in {"zero", "open", "closed"}
  BY <1>1, <1>5 DEF DriverType
<1>9. DriverType'
  BY <1>1, <1>3, <1>4, <1>8 DEF DriverType
<1> QED
  BY <1>4, <1>5, <1>6, <1>7, <1>9 DEF d

(* What a step leaves alone while it turns to the nodes.                     *)
flagVars == <<opened, previewStarted, preview_memory, preview_enabled, preview_thread_started,
              recording_enabled, recording_memory, picture_thread_running, picture_memory, mapped>>

LEMMA CallerReaches ==
  ASSUME TodoType, FreeInv, At(Caller, Ioctls), Accepts(Head(todo[Caller])),
         Reached(Head(todo[Caller])), Goes(Caller), UNCHANGED <<flagVars, mishaps>>
  PROVE  FreeInv'
<1> DEFINE o == Head(todo[Caller])
<1>1. /\ o \in Ops /\ Faces(o, C0', C2') /\ Has0(o, C0') /\ Has2(o, C2')
      /\ Rests(Caller) /\ OrderInv'
  BY CallerGoes DEF FreeInv, At
<1>2. /\ DriverType'
      /\ \A n \in Nodes : n # o.node => driver'[n] = driver[n] /\ fds'[n] = fds[n]
      /\ driver'[o.node].streaming =
           IF o.op \in {"open", "close", "streamoff"} THEN FALSE
           ELSE IF o.op = "streamon" THEN TRUE ELSE driver[o.node].streaming
      /\ driver'[o.node].buffers =
           IF o.op \in {"open", "close", "reqbufs0"} THEN FALSE
           ELSE IF o.op \in {"reqbufs", "reqbufs1"} THEN TRUE ELSE driver[o.node].buffers
      /\ fds'[o.node] = IF o.op = "open" THEN "open" ELSE IF o.op = "close" THEN "closed" ELSE fds[o.node]
  BY <1>1, ReachedIs DEF FreeInv
<1>3. /\ o.op \in Ioctls /\ Accepts(o) /\ o.node \in {0, 2}
      /\ o.op \notin {"started", "preview_thread", "memory", "release", "picture_thread", "map_picture",
                      "preview_stop", "preview_lock", "preview_disable", "recording_stop",
                      "recording_off"}
  <2>1. o.op \in Ioctls /\ Accepts(o) /\ o.node \in {0, 2}
    BY <1>1 DEF At, Ops, Nodes
  <2> QED
    BY <2>1 DEF Ioctls, BufferIoctls, StreamIoctls, FormatIoctls, InputIoctls, ControlIoctls
<1>4. /\ UNCHANGED <<L0, L2, T0, todo[PreviewLoop]>>
      /\ (Alone' <=> Alone) /\ (Dirty' <=> Dirty) /\ (DirtyMaps' <=> DirtyMaps)
  BY <1>1, ActorsAre DEF Rests, Dirty, DirtyMaps
<1> HIDE DEF o
<1>5. StartInv'
  BY <1>1, <1>3 DEF FreeInv, StateInv, StartInv, Has0, flagVars
<1>6. PreviewInv'
  BY <1>1, <1>3, <1>4 DEF FreeInv, StateInv, PreviewInv, Started, Has0, flagVars
<1>7. RecordingInv'
  <2>1. o.op = "streamon" => o.node = 0
    BY <1>1 DEF Faces, StartsWell, SharedOps
  <2>2. driver'[2].streaming => driver[2].streaming /\ ~(o.op = "streamoff" /\ o.node = 2)
    <3>1. CASE o.node = 0
      BY <1>2, <3>1 DEF Nodes
    <3>2. CASE o.node = 2
      <4>1. o.op # "streamon"
        BY <2>1, <3>2
      <4>2. driver'[2].streaming = IF o.op \in {"open", "close", "streamoff"} THEN FALSE
                                  ELSE driver[2].streaming
        BY <1>2, <3>2, <4>1
      <4> QED
        BY <4>2
    <3> QED
      BY <1>3, <3>1, <3>2
  <2> QED
    BY <1>1, <1>3, <1>4, <2>2 DEF FreeInv, StateInv, RecordingInv, Started, Has0, Has2, flagVars
<1>8. StreamInv'
  <2>1. \A n \in Nodes : driver'[n].streaming => fds'[n] = "open" \/ Dirty'
    <3> TAKE n \in Nodes
    <3>1. CASE n # o.node
      BY <1>2, <1>4, <3>1 DEF FreeInv, StateInv, StreamInv
    <3>2. CASE n = o.node
      BY <1>2, <1>3, <1>4, <3>2 DEF FreeInv, StateInv, StreamInv, Accepts
    <3> QED
      BY <3>1, <3>2
  <2>2. ASSUME o.op = "streamon", o.node = 0
        PROVE  \/ "picture_thread" \in C0' /\ "streamon" \notin C0'
               \/ /\ preview_memory' /\ "release" \notin C0'
                  /\ "started" \in C0' /\ "streamon" \notin C0'
    <3>1. /\ "streamon" \notin C0' /\ "memory" \notin C0'
          /\ "started" \in C0' \/ "picture_thread" \in C0'
      BY <1>1, <2>2 DEF Faces, StartsWell
    <3>2. CASE "started" \in C0'
      <4>1. "started" \in C0 /\ "memory" \notin C0
        BY <1>1, <1>3, <3>1, <3>2 DEF Has0
      <4>2. preview_memory /\ "release" \notin C0
        BY <4>1 DEF FreeInv, StateInv, StartInv, Giving
      <4> QED
        BY <1>1, <3>1, <3>2, <4>2 DEF Has0, flagVars
    <3> QED
      BY <3>1, <3>2
  <2>3. o.op # "streamon" \/ o.node # 0 =>
          (driver'[0].streaming => driver[0].streaming /\ ~(o.op = "streamoff" /\ o.node = 0))
    BY <1>2, <1>3 DEF Nodes
  <2>4. driver'[0].streaming =>
          \/ Dirty' \/ "streamoff" \in C0' \/ "picture_begin" \in T0' \/ "streamoff" \in T0'
          \/ "picture_thread" \in C0' /\ "streamon" \notin C0'
          \/ /\ preview_memory' /\ "release" \notin C0'
             /\ \/ previewStarted' \/ "preview_stop" \in C0'
                \/ "started" \in C0' /\ "streamon" \notin C0'
    BY <1>1, <1>3, <1>4, <2>2, <2>3 DEF FreeInv, StateInv, StreamInv, Has0, flagVars
  <2> QED
    BY <2>1, <2>4 DEF StreamInv
<1>9. ThreadInv'
  <2>1. "picture_thread" \in C0' => o.op \notin {"open", "close"}
    BY <1>1 DEF Faces, StartsWell
  <2>2. ASSUME "picture_thread" \in C0', "reqbufs1" \notin C0'
        PROVE  fds'[0] = "open" /\ driver'[0].buffers /\ \A x \in Giving : x \notin C0'
    <3>1. CASE o.op = "reqbufs1"
      <4>1. o.onFailure = "return" /\ o.node = 0
        BY <1>1, <3>1 DEF Faces, TakesWell, StartsWell, SharedOps
      <4>2. fds[0] = "open"
        BY <1>3, <3>1, <4>1 DEF Accepts
      <4> QED
        BY <1>1, <1>2, <3>1, <4>1, <4>2 DEF Faces, FailsWell
    <3>2. CASE o.op # "reqbufs1"
      <4>1. "picture_thread" \in C0 /\ "reqbufs1" \notin C0
        BY <1>1, <1>3, <2>2, <3>2 DEF Has0
      <4>2. fds[0] = "open" /\ driver[0].buffers /\ \A x \in Giving : x \notin C0
        BY <4>1 DEF FreeInv, StateInv, ThreadInv
      <4>3. ~(o.op = "reqbufs0" /\ o.node = 0)
        BY <1>1, <4>2 DEF Has0, Giving
      <4> QED
        BY <1>1, <1>2, <2>1, <2>2, <4>2, <4>3 DEF Has0, Nodes
    <3> QED
      BY <3>1, <3>2
  <2> QED
    BY <1>1, <1>3, <1>4, <2>2 DEF FreeInv, StateInv, ThreadInv, Has0, flagVars
<1>10. MapInv'
  BY <1>1, <1>3, <1>4 DEF FreeInv, StateInv, MapInv, Has0, flagVars
<1> QED
  BY <1>1, <1>2, <1>5, <1>6, <1>7, <1>8, <1>9, <1>10 DEF FreeInv, StateInv

(* An operation of the call that fails, whichever it is.                     *)
LEMMA CallerGivesUp ==
  ASSUME TodoType, FreeInv, todo[Caller] # << >>, Fails(Caller), mishaps \subseteq mishaps',
         UNCHANGED <<driver, fds, opened, previewStarted, preview_enabled, preview_thread_started,
                     recording_enabled, recording_memory, picture_thread_running, mapped>>,
         Head(todo[Caller]).op # "started",
         Head(todo[Caller]).onFailure = "ignore" => Head(todo[Caller]).op \in Ioctls,
         Head(todo[Caller]).op = "streamoff" =>
           (driver[Head(todo[Caller]).node].streaming => Dirty'),
         Head(todo[Caller]).onFailure = "return" /\ "picture_thread" \in C0 =>
           /\ Head(todo[Caller]).op \in {"capture", "picture_thread"} => Dirty'
           /\ Head(todo[Caller]).op \in {"qbuf", "streamon"} /\ "map_picture" \notin C0 => DirtyMaps',
         preview_memory' = preview_memory \/ (Head(todo[Caller]).op = "memory" /\ ~preview_memory'),
         picture_memory' = picture_memory \/ Head(todo[Caller]).op = "map_picture",
         Head(todo[Caller]).op = "map_picture" => mapped = {} \/ DirtyMaps'
  PROVE  FreeInv'
<1> DEFINE o == Head(todo[Caller])
<1>1. PICK A0, A2 : /\ o \in Ops /\ Faces(o, A0, A2) /\ Has0(o, A0) /\ Has2(o, A2)
                    /\ Cleans(o, A0, A2) /\ Rests(Caller) /\ OrderInv'
  BY CallerFails DEF FreeInv
<1>2. /\ UNCHANGED <<L0, L2, T0, todo[PreviewLoop]>> /\ (Alone' <=> Alone)
      /\ (Dirty => Dirty') /\ (DirtyMaps => DirtyMaps') /\ (Dirty' => DirtyMaps')
  <2>1. /\ UNCHANGED <<L0, L2, T0, todo[PreviewLoop]>> /\ (Alone' <=> Alone)
    BY <1>1, ActorsAre DEF Rests
  <2> QED
    BY <2>1 DEF Dirty, DirtyMaps
<1> HIDE DEF o
<1>3. ASSUME o.onFailure = "ignore" PROVE StateInv'
  <2>1. C0' = A0 /\ C2' = A2
    BY <1>1, <1>3 DEF Cleans
  <2>2. /\ o.op \in Ioctls /\ o.node \in {0, 2} /\ preview_memory' = preview_memory
        /\ picture_memory' = picture_memory
        /\ o.op \notin {"started", "preview_thread", "memory", "release", "picture_thread", "map_picture",
                        "preview_stop", "preview_lock", "preview_disable", "recording_stop",
                        "recording_off", "reqbufs1"}
    <3>1. o.op \in Ioctls /\ o.node \in {0, 2} /\ o.op # "reqbufs1"
      BY <1>1, <1>3 DEF o, Ops, Nodes, Faces, TakesWell
    <3>2. o.op \notin {"started", "preview_thread", "memory", "release", "picture_thread", "map_picture",
                       "preview_stop", "preview_lock", "preview_disable", "recording_stop",
                       "recording_off"}
      BY <3>1 DEF Ioctls, BufferIoctls, StreamIoctls, FormatIoctls, InputIoctls, ControlIoctls
    <3> QED
      BY <3>1, <3>2 DEF o
  <2>3. StartInv'
    BY <1>1, <2>1, <2>2 DEF FreeInv, StateInv, StartInv, Has0
  <2>4. PreviewInv'
    BY <1>1, <1>2, <2>1, <2>2 DEF FreeInv, StateInv, PreviewInv, Started, Has0
  <2>5. RecordingInv'
    <3>1. driver[2].streaming => "streamoff" \in C2' \/ "streamoff" \notin C2 \/ Dirty'
      BY <1>1, <2>1 DEF Has2, o
    <3> QED
      BY <1>1, <1>2, <2>1, <2>2, <3>1 DEF FreeInv, StateInv, RecordingInv, Started, Has0, Has2
  <2>6. StreamInv'
    <3>1. driver[0].streaming => "streamoff" \in C0' \/ "streamoff" \notin C0 \/ Dirty'
      BY <1>1, <2>1 DEF Has0, o
    <3> QED
      BY <1>1, <1>2, <2>1, <2>2, <3>1 DEF FreeInv, StateInv, StreamInv, Has0
  <2>7. ThreadInv'
    BY <1>1, <1>2, <2>1, <2>2 DEF FreeInv, StateInv, ThreadInv, Has0
  <2>8. MapInv'
    BY <1>1, <1>2, <2>1, <2>2 DEF FreeInv, StateInv, MapInv, Has0
  <2> QED
    BY <2>3, <2>4, <2>5, <2>6, <2>7, <2>8 DEF StateInv
<1>4. ASSUME o.onFailure # "ignore"
      PROVE  /\ \A x \in Giving : x \notin C0 /\ x \notin C2
             /\ o.op \notin Giving /\ o.op # "streamoff"
  BY <1>1, <1>4 DEF Faces, FailsWell, Has0, Has2, Giving
<1>5. ASSUME o.onFailure = "return" PROVE StateInv'
  <2>1. C0' = {"returned"} /\ C2' = {}
    BY <1>1, <1>5 DEF Cleans
  <2>2. o.op # "memory" /\ preview_memory' = preview_memory /\ "started" \notin C0
    <3>1. "started" \notin A0 /\ o.op # "memory" /\ o.op # "started"
      BY <1>1, <1>5 DEF Faces, FailsWell, StartsWell, o
    <3> QED
      BY <1>1, <3>1 DEF Has0, o
  <2>3. StartInv'
    BY <2>1 DEF FreeInv, StateInv, StartInv
  <2>4. PreviewInv'
    BY <1>2, <1>4, <1>5, <2>1, <2>2 DEF FreeInv, StateInv, PreviewInv, Started, Giving
  <2>5. RecordingInv'
    BY <1>2, <1>4, <1>5, <2>1, <2>2 DEF FreeInv, StateInv, RecordingInv, Started, Giving
  <2>6. "picture_thread" \in C0 /\ "streamon" \notin C0 => Dirty'
    <3> SUFFICES ASSUME "picture_thread" \in C0, "streamon" \notin C0 PROVE Dirty'
      OBVIOUS
    <3>1. /\ o.op = "picture_thread" \/ "picture_thread" \in A0
          /\ "streamon" \notin A0 /\ ~(o.op = "streamon" /\ o.node = 0)
      BY <1>1 DEF Has0
    <3>2. o.op \in {"capture", "picture_thread"}
      BY <1>1, <1>5, <3>1 DEF Faces, TakesWell
    <3> QED
      BY <1>5, <3>2 DEF o
  <2>7. StreamInv'
    BY <1>2, <1>4, <1>5, <2>1, <2>2, <2>6 DEF FreeInv, StateInv, StreamInv, Giving
  <2>8. ThreadInv'
    BY <1>2, <2>1 DEF FreeInv, StateInv, ThreadInv
  <2>9. "picture_thread" \in C0 /\ "map_picture" \notin C0 => DirtyMaps'
    <3> SUFFICES ASSUME "picture_thread" \in C0, "map_picture" \notin C0 PROVE DirtyMaps'
      OBVIOUS
    <3>1. /\ o.op = "picture_thread" \/ "picture_thread" \in A0
          /\ "map_picture" \notin A0 /\ ~(o.op = "map_picture" /\ o.node = 0)
      BY <1>1 DEF Has0
    <3>2. o.op \in {"qbuf", "streamon", "capture", "picture_thread"}
      BY <1>1, <1>5, <3>1 DEF Faces, TakesWell
    <3> QED
      BY <1>2, <1>5, <3>2 DEF o
  <2>10. MapInv'
    <3>1. CASE o.op = "map_picture"
      BY <3>1 DEF o, MapInv
    <3>2. CASE o.op # "map_picture"
      BY <1>2, <2>1, <2>9, <3>2 DEF FreeInv, StateInv, MapInv, o
    <3> QED
      BY <3>1, <3>2
  <2> QED
    BY <2>3, <2>4, <2>5, <2>7, <2>8, <2>10 DEF StateInv
<1>6. ASSUME o.onFailure \in {"deinit", "preview_error", "preview_error_on"} PROVE StateInv'
  <2>1. "picture_thread" \notin C0 /\ o.op # "map_picture" /\ picture_memory' = picture_memory
    BY <1>1, <1>6 DEF Faces, FailsWell, TakesWell, Has0, o
  <2>2. CASE o.onFailure = "deinit"
    <3>1. /\ C0' = {"picture_stop", "preview_stop", "recording_stop", "close", "freed"}
          /\ C2' = {"close"}
      BY <1>1, <2>2 DEF Cleans
    <3>2. ~previewStarted /\ preview_memory' = preview_memory
      BY <1>1, <2>2 DEF Faces, FailsWell, StartsWell, Has0, FreeInv, StateInv, StartInv, o
    <3>3. StartInv'
      BY <3>1, <3>2 DEF StartInv
    <3>4. PreviewInv'
      BY <1>2, <3>1, <3>2 DEF FreeInv, StateInv, PreviewInv
    <3>5. RecordingInv'
      BY <1>2, <1>4, <2>2, <3>1, <3>2 DEF FreeInv, StateInv, RecordingInv, Giving
    <3>6. StreamInv'
      BY <1>2, <1>4, <2>1, <2>2, <3>1, <3>2 DEF FreeInv, StateInv, StreamInv, Giving
    <3>7. ThreadInv'
      BY <1>2, <3>1 DEF FreeInv, StateInv, ThreadInv
    <3>8. MapInv'
      BY <1>2, <2>1, <3>1 DEF FreeInv, StateInv, MapInv
    <3> QED
      BY <3>3, <3>4, <3>5, <3>6, <3>7, <3>8 DEF StateInv
  <2>3. CASE o.onFailure \in {"preview_error", "preview_error_on"}
    <3>1. /\ C2' = {} /\ "preview_reset" \in C0' /\ "recording_stop" \in C0' /\ "release" \in C0'
          /\ o.onFailure = "preview_error_on" => "streamoff" \in C0'
          /\ C0' \subseteq {"preview_reset", "recording_stop", "streamoff", "release", "reqbufs0"}
      BY <1>1, <2>3 DEF Cleans
    <3>2. "started" \in C0 /\ "preview_thread" \in C0
      BY <1>1, <2>3 DEF Faces, FailsWell, StartsWell, SharedOps, Has0
    <3>3. ~previewStarted /\ ~Started
      BY <3>2 DEF FreeInv, StateInv, StartInv, Started
    <3>4. ~preview_enabled /\ todo[PreviewLoop] = << >>
      BY <1>4, <2>3, <3>3 DEF FreeInv, StateInv, PreviewInv, Giving
    <3>5. StartInv'
      BY <3>1, <3>3 DEF StartInv
    <3>6. PreviewInv'
      BY <1>2, <3>1, <3>4 DEF PreviewInv
    <3>7. RecordingInv'
      BY <1>2, <1>4, <2>3, <3>1, <3>3 DEF FreeInv, StateInv, RecordingInv, Giving
    <3>8. StreamInv'
      <4>1. o.onFailure = "preview_error" => "streamon" \in C0
        BY <1>1 DEF Faces, FailsWell, StartsWell, SharedOps, Has0
      <4>2. o.onFailure = "preview_error_on" => "streamoff" \in C0'
        BY <3>1
      <4> QED
        BY <1>2, <1>4, <2>1, <2>3, <3>3, <4>1, <4>2 DEF FreeInv, StateInv, StreamInv, Giving
    <3>9. ThreadInv'
      BY <1>2, <3>1 DEF FreeInv, StateInv, ThreadInv
    <3>10. MapInv'
      BY <1>2, <2>1, <3>1 DEF FreeInv, StateInv, MapInv
    <3> QED
      BY <3>5, <3>6, <3>7, <3>8, <3>9, <3>10 DEF StateInv
  <2> QED
    BY <1>6, <2>2, <2>3
<1>7. o.onFailure \in {"ignore", "return", "deinit", "preview_error", "preview_error_on"}
  BY <1>1 DEF Faces, FailsWell
<1>8. DriverType'
  BY DEF FreeInv, DriverType
<1> QED
  BY <1>1, <1>3, <1>5, <1>6, <1>7, <1>8 DEF FreeInv

LEMMA CallerOperates ==
  ASSUME TodoType, FreeInv, NodeOperation(Caller)
  PROVE  FreeInv'
<1> DEFINE o == Head(todo[Caller])
<1>1. At(Caller, Ioctls) /\ todo[Caller] # << >> /\ o.op \in Ioctls
  BY DEF NodeOperation, At
<1>2. UNCHANGED flagVars
  BY DEF NodeOperation, previewFlags, pictureFlags, pictureMaps, flagVars
<1>3. CASE Accepts(o) /\ Reached(o) /\ Goes(Caller) /\ NoFault
  BY <1>1, <1>2, <1>3, CallerReaches DEF NoFault
<1>4. ASSUME Fails(Caller), UNCHANGED <<fds, driver>>, IF Accepts(o) THEN NodeFault(o.op) ELSE NoFault
      PROVE  FreeInv'
  <2>1. PICK A0, A2 : o \in Ops /\ Faces(o, A0, A2) /\ Has0(o, A0) /\ Has2(o, A2)
    BY <1>1, <1>4, CallerFails DEF FreeInv
  <2>2. /\ mishaps \subseteq mishaps' /\ (Dirty => Dirty') /\ (DirtyMaps => DirtyMaps')
        /\ Accepts(o) => mishaps' = mishaps \cup ({o.op} \cap (Unclean \cup Unmapped))
    BY <1>4 DEF NoFault, NodeFault, Dirty, DirtyMaps
  <2> HIDE DEF o
  <2>3. /\ Accepts(o) /\ o.op \in {"streamoff", "capture"} => Dirty'
        /\ Accepts(o) /\ o.op \in {"qbuf", "streamon"} => DirtyMaps'
    BY <2>2 DEF Dirty, DirtyMaps, Unclean, Unmapped
  <2>4. o.op \notin {"started", "memory", "map_picture", "picture_thread"}
    BY <1>1 DEF Ioctls, BufferIoctls, StreamIoctls, FormatIoctls, InputIoctls, ControlIoctls
  <2>5. o.op = "streamoff" => (driver[o.node].streaming => Dirty')
    <3> SUFFICES ASSUME o.op = "streamoff", driver[o.node].streaming PROVE Dirty'
      OBVIOUS
    <3>1. CASE Accepts(o)
      BY <2>3, <3>1
    <3>2. CASE ~Accepts(o)
      <4>1. fds[o.node] # "open" /\ o.node \in Nodes
        BY <2>1, <3>2 DEF Accepts, Ops
      <4> QED
        BY <2>2, <4>1 DEF FreeInv, StateInv, StreamInv
    <3> QED
      BY <3>1, <3>2
  <2>6. ASSUME o.onFailure = "return", "picture_thread" \in C0
        PROVE  /\ o.op \in {"capture", "picture_thread"} => Dirty'
               /\ o.op \in {"qbuf", "streamon"} /\ "map_picture" \notin C0 => DirtyMaps'
    <3>1. "picture_thread" \in A0
      BY <2>1, <2>4, <2>6 DEF Has0
    <3>2. /\ o.node = 0
          /\ o.op = "capture" => "reqbufs1" \notin A0
          /\ o.op \in {"qbuf", "streamon"} /\ "map_picture" \notin A0 => "reqbufs1" \notin A0
      BY <2>1, <2>4, <2>6, <3>1 DEF Faces, TakesWell
    <3>3. "reqbufs1" \notin C0 => fds[0] = "open" /\ driver[0].buffers
      BY <2>6 DEF FreeInv, StateInv, ThreadInv
    <3>4. "reqbufs1" \notin C0 /\ o.op \in {"capture", "qbuf", "streamon"} => Accepts(o)
      BY <3>2, <3>3 DEF Accepts
    <3> QED
      BY <2>1, <2>3, <2>4, <3>2, <3>4 DEF Has0
  <2> QED
    BY <1>1, <1>2, <1>4, <2>2, <2>4, <2>5, <2>6, CallerGivesUp DEF flagVars, o
<1> QED
  BY <1>1, <1>3, <1>4 DEF NodeOperation

(* An operation that is none of those the invariant speaks of.               *)
Spoken == {"started", "preview_thread", "memory", "release", "streamoff", "streamon", "reqbufs1",
           "picture_thread", "map_picture", "preview_stop", "preview_lock", "preview_disable",
           "recording_stop", "recording_off"}

LEMMA CallerPasses ==
  ASSUME TodoType, FreeInv, todo[Caller] # << >>, Goes(Caller), mishaps \subseteq mishaps',
         Head(todo[Caller]).op \notin Spoken, UNCHANGED <<flagVars, driver, fds>>
  PROVE  FreeInv'
<1> DEFINE o == Head(todo[Caller])
<1>1. Has0(o, C0') /\ Has2(o, C2') /\ Rests(Caller) /\ OrderInv' /\ o.op \notin Spoken
  BY CallerGoes DEF FreeInv
<1>2. /\ UNCHANGED <<L0, L2, T0, todo[PreviewLoop]>> /\ (Alone' <=> Alone)
      /\ (Dirty => Dirty') /\ (DirtyMaps => DirtyMaps')
  BY <1>1, ActorsAre DEF Rests, Dirty, DirtyMaps
<1> HIDE DEF o
<1>3. StartInv'
  BY <1>1 DEF FreeInv, StateInv, StartInv, Has0, flagVars, Spoken
<1>4. PreviewInv'
  BY <1>1, <1>2 DEF FreeInv, StateInv, PreviewInv, Started, Has0, flagVars, Spoken
<1>5. RecordingInv'
  BY <1>1, <1>2 DEF FreeInv, StateInv, RecordingInv, Started, Has0, Has2, flagVars, Spoken
<1>6. StreamInv'
  BY <1>1, <1>2 DEF FreeInv, StateInv, StreamInv, Has0, flagVars, Spoken
<1>7. ThreadInv'
  BY <1>1, <1>2 DEF FreeInv, StateInv, ThreadInv, Has0, flagVars, Spoken
<1>8. MapInv'
  BY <1>1, <1>2 DEF FreeInv, StateInv, MapInv, Has0, flagVars, Spoken
<1>9. DriverType'
  BY DEF FreeInv, DriverType
<1> QED
  BY <1>1, <1>3, <1>4, <1>5, <1>6, <1>7, <1>8, <1>9 DEF FreeInv, StateInv

LEMMA CallerBuffers ==
  ASSUME TodoType, FreeInv, MapBuffers(Caller)
  PROVE  FreeInv'
<1> DEFINE o == Head(todo[Caller])
<1>1. At(Caller, {"memory", "release"}) /\ todo[Caller] # << >> /\ o.op \in {"memory", "release"}
  BY DEF MapBuffers, At
<1>2. UNCHANGED <<driver, fds, opened, previewStarted, preview_enabled, preview_thread_started,
                  recording_enabled, picture_thread_running, picture_memory, mapped>>
  BY DEF MapBuffers, pictureFlags, pictureMaps
<1>3. o.op = "memory" => o.node = 0 /\ o.onFailure = "preview_error"
  <2>1. o.onFailure = "preview_error" \/ o.op # "memory"
    BY <1>1, CallerHas DEF Faces, StartsWell, FreeInv
  <2>2. o.node = 0 \/ o.op # "memory"
    BY <1>1, CallerHas DEF Faces, StartsWell, SharedOps, FreeInv
  <2> QED
    BY <2>1, <2>2
<1>4. CASE /\ o.op = "memory" /\ Fails(Caller) /\ NodeFault("memory")
           /\ ~preview_memory' /\ UNCHANGED recording_memory
  <2>2. mishaps \subseteq mishaps'
    BY <1>4 DEF NodeFault
  <2> QED
    BY <1>1, <1>2, <1>3, <1>4, <2>2, CallerGivesUp
<1>5. ASSUME Goes(Caller), mishaps' = mishaps,
             \/ o.op = "memory" /\ preview_memory' /\ UNCHANGED recording_memory
             \/ o.op = "release" /\ o.node = 0 /\ ~preview_memory' /\ UNCHANGED recording_memory
             \/ o.op = "release" /\ o.node = 2 /\ ~recording_memory' /\ UNCHANGED preview_memory
      PROVE  FreeInv'
  <2>1. Faces(o, C0', C2') /\ Has0(o, C0') /\ Has2(o, C2') /\ Rests(Caller) /\ OrderInv'
    BY <1>1, <1>5, CallerGoes DEF FreeInv
  <2>2. /\ UNCHANGED <<L0, L2, T0, todo[PreviewLoop]>> /\ (Alone' <=> Alone)
        /\ (Dirty' <=> Dirty) /\ (DirtyMaps' <=> DirtyMaps)
    BY <1>5, <2>1, ActorsAre DEF Rests, Dirty, DirtyMaps
  <2>3. o.op = "memory" => /\ "started" \in C0' /\ "memory" \notin C0' /\ "started" \in C0
                           /\ \A x \in Giving : x \notin C0'
    BY <1>3, <2>1 DEF Faces, StartsWell, FailsWell, Has0
  <2> HIDE DEF o
  <2>4. o.op = "release" /\ o.node = 0 => ~("started" \in C0 /\ "memory" \notin C0)
    BY <2>1 DEF FreeInv, StateInv, StartInv, Has0, Giving
  <2>5. o.op = "release" /\ o.node = 0 => ~("picture_thread" \in C0 /\ "reqbufs1" \notin C0)
    BY <2>1 DEF FreeInv, StateInv, ThreadInv, Has0, Giving
  <2>6. StartInv'
    BY <1>1, <1>2, <1>3, <1>5, <2>1, <2>3, <2>4 DEF o, FreeInv, StateInv, StartInv, Has0
  <2>7. PreviewInv'
    BY <1>1, <1>2, <1>3, <1>5, <2>1, <2>2, <2>3 DEF o, FreeInv, StateInv, PreviewInv, Started, Has0
  <2>8. RecordingInv'
    BY <1>1, <1>2, <1>3, <1>5, <2>1, <2>2 DEF o, FreeInv, StateInv, RecordingInv, Started, Has0, Has2
  <2>9. StreamInv'
    BY <1>1, <1>2, <1>3, <1>5, <2>1, <2>2 DEF o, FreeInv, StateInv, StreamInv, Has0, Giving
  <2>10. ThreadInv'
    BY <1>1, <1>2, <1>3, <1>5, <2>1, <2>2, <2>5 DEF o, FreeInv, StateInv, ThreadInv, Has0
  <2>11. MapInv'
    BY <1>1, <1>2, <1>3, <1>5, <2>1, <2>2 DEF o, FreeInv, StateInv, MapInv, Has0
  <2>12. DriverType'
    BY <1>2 DEF FreeInv, DriverType
  <2> QED
    BY <2>1, <2>6, <2>7, <2>8, <2>9, <2>10, <2>11, <2>12 DEF FreeInv, StateInv
<1>6. o.node \in {0, 2}
  BY <1>1, CallerHas DEF FreeInv, Ops, Nodes
<1>7. CASE o.op = "memory" /\ Goes(Caller) /\ NoFault /\ preview_memory' /\ UNCHANGED recording_memory
  BY <1>5, <1>7 DEF NoFault
<1>8. CASE o.op = "release" /\ Goes(Caller) /\ NoFault
  BY <1>5, <1>6, <1>8 DEF MapBuffers, At, NoFault
<1>9. \/ /\ o.op = "memory" /\ Fails(Caller) /\ NodeFault("memory")
         /\ ~preview_memory' /\ UNCHANGED recording_memory
      \/ o.op = "memory" /\ Goes(Caller) /\ NoFault /\ preview_memory' /\ UNCHANGED recording_memory
      \/ o.op = "release" /\ Goes(Caller) /\ NoFault
  BY <1>3 DEF MapBuffers, At
<1> QED
  BY <1>4, <1>7, <1>8, <1>9

LEMMA CallerPictures ==
  ASSUME NodesInv, FreeInv, MapPicture(Caller)
  PROVE  FreeInv'
<1> DEFINE o == Head(todo[Caller])
<1>1. /\ o.op \in {"release_old", "map_picture"} /\ todo[Caller] # << >> /\ TodoType
      /\ o.op \notin {"release_picture", "clear_picture"}
  BY OnlyCalls, ActorsAre DEF MapPicture, At, NodesInv
<1>2. UNCHANGED <<driver, fds, opened, previewStarted, preview_memory, preview_enabled,
                  preview_thread_started, recording_enabled, recording_memory,
                  picture_thread_running>>
  BY DEF MapPicture, previewFlags, recordingFlags, pictureFlags
<1>3. ASSUME o.op = "map_picture"
      PROVE  mapped = {} \/ DirtyMaps
  <2>1. "picture_thread" \in C0 /\ ("map_picture" \in C0)
    BY <1>1, <1>3, CallerHas DEF FreeInv, Faces, TakesWell, StartsWell, SharedOps, Has0
  <2>2. Alone \/ Dirty
    BY <2>1 DEF FreeInv, StateInv, ThreadInv
  <2>3. T0 = {} \/ DirtyMaps
    BY <2>2, AloneIs DEF Dirty, DirtyMaps
  <2> QED
    BY <2>1, <2>3 DEF FreeInv, StateInv, MapInv
<1>4. CASE o.op = "map_picture" /\ Fails(Caller) /\ NodeFault("map_picture") /\ UNCHANGED mapped
  <2>1. mishaps \subseteq mishaps' /\ (DirtyMaps => DirtyMaps')
    BY <1>4 DEF NodeFault, DirtyMaps
  <2>2. o.onFailure = "return"
    BY <1>1, <1>4, CallerHas DEF FreeInv, Faces, TakesWell
  <2> QED
    BY <1>1, <1>2, <1>3, <1>4, <2>1, <2>2, CallerGivesUp
<1>5. ASSUME Goes(Caller), mishaps' = mishaps,
             \/ o.op = "release_old" /\ mapped' = mapped \ {picture_memory} /\ UNCHANGED picture_memory
             \/ o.op = "map_picture" /\ picture_memory' = CurrentStill /\ mapped' = mapped \cup {CurrentStill}
      PROVE  FreeInv'
  <2>1. Faces(o, C0', C2') /\ Has0(o, C0') /\ Has2(o, C2') /\ Rests(Caller) /\ OrderInv'
    BY <1>1, <1>5, CallerGoes DEF FreeInv
  <2>2. /\ UNCHANGED <<L0, L2, T0, todo[PreviewLoop]>> /\ (Alone' <=> Alone)
        /\ (Dirty' <=> Dirty) /\ (DirtyMaps' <=> DirtyMaps)
    BY <1>5, <2>1, ActorsAre DEF Rests, Dirty, DirtyMaps
  <2>3. o.op = "map_picture" => "picture_thread" \in C0' /\ "map_picture" \notin C0'
    BY <2>1 DEF Faces, TakesWell
  <2> HIDE DEF o
  <2>4. StartInv'
    BY <1>1, <1>2, <2>1 DEF FreeInv, StateInv, StartInv, Has0
  <2>5. PreviewInv'
    BY <1>1, <1>2, <2>1, <2>2 DEF FreeInv, StateInv, PreviewInv, Started, Has0
  <2>6. RecordingInv'
    BY <1>1, <1>2, <2>1, <2>2 DEF FreeInv, StateInv, RecordingInv, Started, Has0, Has2
  <2>7. StreamInv'
    BY <1>1, <1>2, <2>1, <2>2 DEF FreeInv, StateInv, StreamInv, Has0
  <2>8. ThreadInv'
    BY <1>1, <1>2, <2>1, <2>2 DEF FreeInv, StateInv, ThreadInv, Has0
  <2>9. MapInv'
    <3>1. CASE o.op = "map_picture"
      BY <1>3, <1>5, <2>2, <2>3, <3>1 DEF MapInv, o
    <3>2. CASE o.op = "release_old"
      BY <1>5, <2>1, <2>2, <3>2 DEF MapInv, o, FreeInv, StateInv, Has0
    <3> QED
      BY <1>1, <3>1, <3>2 DEF o
  <2>10. DriverType'
    BY <1>2 DEF FreeInv, DriverType
  <2> QED
    BY <2>1, <2>4, <2>5, <2>6, <2>7, <2>8, <2>9, <2>10 DEF FreeInv, StateInv
<1> QED
  BY <1>1, <1>4, <1>5 DEF MapPicture, At, NoFault

LEMMA CallerFlags ==
  ASSUME NodesInv, FreeInv, SetFlags(Caller)
  PROVE  FreeInv'
<1> DEFINE o == Head(todo[Caller])
<1>1. TodoType /\ todo[Caller] # << >> /\ Goes(Caller)
  BY DEF SetFlags, At, NodesInv
<1>2. /\ Faces(o, C0', C2') /\ Has0(o, C0') /\ Has2(o, C2') /\ Rests(Caller) /\ OrderInv'
  BY <1>1, CallerGoes DEF FreeInv
<1>3. /\ o.op \in {"preview_reset", "preview_disable", "started", "recording_off", "picture_disable",
                   "taken", "returned"}
      /\ o.node = 0
  <2>1. o.op \in CallOps
    BY <1>1, CallFacts DEF NodesInv
  <2>2. o.op \notin {"not_running", "not_started"}
    BY <2>1 DEF CallOps, Ioctls, BufferIoctls, StreamIoctls, FormatIoctls, InputIoctls, ControlIoctls
  <2>3. o.op \notin {"preview_failed", "recording_on"} /\ (o.op \notin SharedOps => o.node = 0)
    BY <1>2 DEF Faces, StartsWell
  <2>4. o.op \in {"preview_reset", "preview_disable", "started", "recording_off", "picture_disable",
                  "taken", "returned"}
    BY <2>2, <2>3 DEF SetFlags, At
  <2> QED
    BY <2>3, <2>4 DEF SharedOps
<1>4. /\ UNCHANGED <<opened, preview_memory, recording_memory, driver, fds, mapped, picture_memory,
                     mishaps>>
      /\ picture_thread_running' <=> picture_thread_running
      /\ preview_enabled' <=> (preview_enabled /\ o.op \notin {"preview_reset", "preview_disable"})
      /\ preview_thread_started' <=> (preview_thread_started /\ o.op # "preview_reset")
      /\ previewStarted' <=> (previewStarted \/ o.op = "started")
      /\ recording_enabled' <=> (recording_enabled /\ o.op # "recording_off")
  <2>1. /\ UNCHANGED <<opened, preview_memory, recording_memory, driver, fds, mapped, picture_memory,
                       mishaps>>
    BY DEF SetFlags, keptByFlags, keptByNodes, pictureMaps
  <2>2. \A ops : At(Caller, ops) <=> o.op \in ops
    BY <1>1 DEF At
  <2>3. /\ picture_thread_running' <=> picture_thread_running
        /\ preview_enabled' <=> (preview_enabled /\ o.op \notin {"preview_reset", "preview_disable"})
        /\ preview_thread_started' <=> (preview_thread_started /\ o.op # "preview_reset")
        /\ previewStarted' <=> (previewStarted \/ o.op = "started")
        /\ recording_enabled' <=> (recording_enabled /\ o.op # "recording_off")
    BY <1>3, <2>2 DEF SetFlags, Unless
  <2> QED
    BY <2>1, <2>3
<1>5. /\ UNCHANGED <<L0, L2, T0, todo[PreviewLoop]>> /\ (Alone' <=> Alone)
      /\ (Dirty' <=> Dirty) /\ (DirtyMaps' <=> DirtyMaps)
  BY <1>2, <1>4, ActorsAre DEF Rests, Dirty, DirtyMaps
<1> HIDE DEF o
<1>6. o.op = "started" => /\ C0' = {} /\ C2' = {} /\ "started" \in C0
                          /\ \A x : x \in C0 <=> x = "started"
                          /\ C2 = {}
  BY <1>2, <1>3 DEF Faces, StartsWell, Has0, Has2
<1>7. o.op = "preview_reset" =>
        /\ ~previewStarted /\ "started" \notin C0 /\ "preview_stop" \notin C0 /\ "preview_lock" \notin C0
  BY <1>2, <1>3 DEF Faces, StartsWell, Has0, FreeInv, StateInv, StartInv
<1>8. StartInv'
  BY <1>2, <1>3, <1>4, <1>6 DEF FreeInv, StateInv, StartInv, Has0
<1>9. PreviewInv'
  <2>1. CASE o.op = "preview_reset"
    BY <1>2, <1>3, <1>4, <1>5, <1>7, <2>1 DEF FreeInv, StateInv, PreviewInv, Started, Has0
  <2>2. CASE o.op = "started"
    BY <1>4, <1>5, <1>6, <2>2 DEF FreeInv, StateInv, PreviewInv, Started
  <2>3. CASE o.op \notin {"preview_reset", "started"}
    BY <1>2, <1>3, <1>4, <1>5, <2>3 DEF FreeInv, StateInv, PreviewInv, Started, Has0
  <2> QED
    BY <2>1, <2>2, <2>3
<1>10. RecordingInv'
  <2>1. CASE o.op = "recording_off"
    <3>1. "streamoff" \in C2' /\ "release" \in C2' /\ ~recording_enabled'
      BY <1>2, <1>4, <2>1 DEF Faces, StopsWell
    <3> QED
      BY <3>1 DEF RecordingInv
  <2>2. CASE o.op = "started"
    BY <1>4, <1>5, <1>6, <2>2 DEF FreeInv, StateInv, RecordingInv, Started
  <2>3. CASE o.op \notin {"recording_off", "started"}
    BY <1>2, <1>3, <1>4, <1>5, <2>3 DEF FreeInv, StateInv, RecordingInv, Started, Has0, Has2
  <2> QED
    BY <2>1, <2>2, <2>3
<1>11. StreamInv'
  <2>1. CASE o.op = "started"
    BY <1>4, <1>5, <1>6, <2>1 DEF FreeInv, StateInv, StreamInv
  <2>2. CASE o.op # "started"
    BY <1>2, <1>3, <1>4, <1>5, <2>2 DEF FreeInv, StateInv, StreamInv, Has0
  <2> QED
    BY <2>1, <2>2
<1>12. ThreadInv'
  BY <1>2, <1>3, <1>4, <1>5 DEF FreeInv, StateInv, ThreadInv, Has0
<1>13. MapInv'
  BY <1>2, <1>3, <1>4, <1>5 DEF FreeInv, StateInv, MapInv, Has0
<1>14. DriverType'
  BY <1>4 DEF FreeInv, DriverType
<1> QED
  BY <1>2, <1>8, <1>9, <1>10, <1>11, <1>12, <1>13, <1>14 DEF FreeInv, StateInv

(* The preview thread has armed node 2 by the time it gives up its mutex.    *)
LEMMA CallerLocks ==
  ASSUME TodoType, FreeInv, PreviewLock(Caller)
  PROVE  FreeInv'
<1> DEFINE o == Head(todo[Caller])
<1>1. /\ todo[Caller] # << >> /\ Goes(Caller) /\ o.op \in {"preview_lock", "preview_unlock"}
      /\ o.op = "preview_lock" => todo[PreviewLoop] = << >>
      /\ UNCHANGED <<flagVars, driver, fds, mishaps>>
  BY DEF PreviewLock, At, flagVars, keptByFlags, previewFlags, recordingFlags, pictureFlags, pictureMaps
<1>2. Has0(o, C0') /\ Has2(o, C2') /\ Rests(Caller) /\ OrderInv'
  BY <1>1, CallerGoes DEF FreeInv
<1>3. /\ UNCHANGED <<L0, L2, T0, todo[PreviewLoop]>> /\ (Alone' <=> Alone)
      /\ (Dirty' <=> Dirty) /\ (DirtyMaps' <=> DirtyMaps)
  BY <1>1, <1>2, ActorsAre DEF Rests, Dirty, DirtyMaps
<1> HIDE DEF o
<1>4. StartInv'
  BY <1>1, <1>2 DEF FreeInv, StateInv, StartInv, Has0, flagVars
<1>5. PreviewInv'
  BY <1>1, <1>2, <1>3 DEF FreeInv, StateInv, PreviewInv, Started, Has0, flagVars
<1>6. RecordingInv'
  BY <1>1, <1>2, <1>3 DEF FreeInv, StateInv, RecordingInv, Started, Has0, Has2, flagVars
<1>7. StreamInv'
  BY <1>1, <1>2, <1>3 DEF FreeInv, StateInv, StreamInv, Has0, flagVars
<1>8. ThreadInv'
  BY <1>1, <1>2, <1>3 DEF FreeInv, StateInv, ThreadInv, Has0, flagVars
<1>9. MapInv'
  BY <1>1, <1>2, <1>3 DEF FreeInv, StateInv, MapInv, Has0, flagVars
<1>10. DriverType'
  BY <1>1 DEF FreeInv, DriverType
<1> QED
  BY <1>2, <1>4, <1>5, <1>6, <1>7, <1>8, <1>9, <1>10 DEF FreeInv, StateInv

LEMMA CallerPlain ==
  ASSUME TodoType, FreeInv, PictureLock(Caller) \/ Wait(Caller)
  PROVE  FreeInv'
<1>1. /\ todo[Caller] # << >> /\ Goes(Caller) /\ mishaps \subseteq mishaps'
      /\ UNCHANGED <<flagVars, driver, fds>>
  BY DEF PictureLock, Wait, At, flagVars, keptByFlags, previewFlags, recordingFlags, pictureFlags,
     pictureMaps
<1>2. Head(todo[Caller]).op \in {"picture_lock", "picture_unlock", "preview_wait", "picture_wait"}
  BY DEF PictureLock, Wait, At
<1> QED
  BY <1>1, <1>2, CallerPasses DEF Spoken

LEMMA CallerNests ==
  ASSUME TodoType, FreeInv, Nested(Caller)
  PROVE  FreeInv'
<1> DEFINE o == Head(todo[Caller])
<1>1. /\ todo[Caller] # << >> /\ o.op \in {"preview_stop", "recording_stop", "picture_stop"}
      /\ UNCHANGED <<flagVars, driver, fds, mishaps>>
  BY DEF Nested, At, flagVars, keptByFlags, previewFlags, recordingFlags, pictureFlags, pictureMaps
<1>2. \E p : /\ GoesOn(Caller, p)
             /\ \/ o.op = "preview_stop" /\ p = PreviewStopOps
                \/ o.op = "preview_stop" /\ p = << >> /\ ~HasPreview
                \/ o.op = "recording_stop" /\ p = RecordingStopOps
                \/ o.op = "recording_stop" /\ p = << >> /\ ~HasRecording
                \/ o.op = "picture_stop" /\ p \in {<< >>, PictureStop}
  BY DEF Nested, At
<1>3. PICK p : /\ GoesOn(Caller, p)
               /\ \/ o.op = "preview_stop" /\ p = PreviewStopOps
                  \/ o.op = "preview_stop" /\ p = << >> /\ ~HasPreview
                  \/ o.op = "recording_stop" /\ p = RecordingStopOps
                  \/ o.op = "recording_stop" /\ p = << >> /\ ~HasRecording
                  \/ o.op = "picture_stop" /\ p \in {<< >>, PictureStop}
  BY <1>2
<1>4. << >> \in Seq(NestedOps) /\ Ordered(<< >>) /\ From(<< >>, 1, 0) = {} /\ From(<< >>, 1, 2) = {}
  BY FromNone DEF Ordered
<1>5. p \in Seq(NestedOps) /\ Ordered(p)
  BY <1>3, <1>4, StopsAreNested, PreviewStopOpsOrdered, RecordingStopOpsOrdered, PictureStopOrdered
<1>6. PICK A0, A2 : /\ o \in Ops /\ Faces(o, A0, A2) /\ Has0(o, A0) /\ Has2(o, A2)
                    /\ C0' = From(p, 1, 0) \cup A0 /\ C2' = From(p, 1, 2) \cup A2
                    /\ Rests(Caller) /\ OrderInv'
  BY <1>1, <1>3, <1>5, CallerStops DEF FreeInv
<1>7. /\ UNCHANGED <<L0, L2, T0, todo[PreviewLoop]>> /\ (Alone' <=> Alone)
      /\ (Dirty' <=> Dirty) /\ (DirtyMaps' <=> DirtyMaps)
  BY <1>1, <1>6, ActorsAre DEF Rests, Dirty, DirtyMaps
<1>8. o.node = 0
  BY <1>1, <1>6 DEF Faces, StartsWell, SharedOps
<1>9. o.op \in {"preview_stop", "recording_stop"} =>
        /\ ~("started" \in C0 /\ "memory" \notin C0)
        /\ ~("picture_thread" \in C0 /\ "reqbufs1" \notin C0)
  BY <1>6, <1>8 DEF Has0, FreeInv, StateInv, StartInv, ThreadInv, Giving
<1> HIDE DEF o
(* Names that no stop adds.                                                  *)
<1> DEFINE Calls0 == {"started", "preview_thread", "memory", "streamon", "reqbufs1", "picture_thread",
                      "map_picture", "preview_reset", "opened", "silenced", "freed"}
           D == {"preview_disable", "preview_lock", "preview_wait", "recording_stop", "streamoff",
                 "release", "reqbufs0", "preview_unlock"}
<1>10. /\ \A x \in Calls0 : x \in C0' <=> x \in C0
       /\ C2 = A2 /\ A2 \subseteq C2'
       /\ \A x : x \in C0 => x \in C0' \/ x = o.op
       /\ o.op = "picture_stop" => \A x \in Giving : x \in C0' => x \in C0
  <2>1. /\ From(p, 1, 0) \subseteq D \/ From(p, 1, 0) = {"recording_off"}
           \/ From(p, 1, 0) \subseteq {"picture_lock", "picture_disable", "picture_unlock", "picture_wait"}
        /\ o.op = "picture_stop" => From(p, 1, 0) \subseteq
             {"picture_lock", "picture_disable", "picture_unlock", "picture_wait"}
    BY <1>3, <1>4, PreviewStopOpsOrdered, RecordingStopOpsOrdered, PictureStopOrdered
  <2>2. \A x \in Calls0 : x \notin From(p, 1, 0) /\ x # o.op
    BY <1>1, <2>1 DEF o
  <2>3. \A x \in Calls0 : x \in C0' <=> x \in C0
    BY <1>6, <2>2 DEF Has0
  <2>4. C2 = A2 /\ A2 \subseteq C2'
    BY <1>6, <1>8 DEF Has2
  <2>5. o.op = "picture_stop" => \A x \in Giving : x \notin From(p, 1, 0)
    BY <2>1 DEF Giving
  <2> QED
    BY <1>6, <2>3, <2>4, <2>5 DEF Has0
<1> HIDE DEF D
<1>11. StartInv'
  BY <1>1, <1>9, <1>10 DEF o, FreeInv, StateInv, StartInv, flagVars
<1>12. ThreadInv'
  BY <1>1, <1>7, <1>9, <1>10 DEF o, FreeInv, StateInv, ThreadInv, flagVars
<1>13. MapInv'
  BY <1>1, <1>7, <1>10 DEF FreeInv, StateInv, MapInv, flagVars
<1>14. DriverType'
  BY <1>1 DEF FreeInv, DriverType
<1>15. CASE p = << >>
  <2>1. A0 = C0' /\ A2 = C2'
    BY <1>4, <1>6, <1>15
  <2>2. \A x : x \in C0 <=> x \in C0' \/ x = o.op
    BY <1>6, <1>8, <2>1 DEF Has0
  <2>3. /\ o.op = "preview_stop" => ~HasPreview
        /\ o.op = "recording_stop" => ~HasRecording
    BY <1>3, <1>15 DEF o, PreviewStopOps, RecordingStopOps
  <2> HIDE DEF Calls0
  <2>4. PreviewInv'
    BY <1>1, <1>7, <2>2, <2>3 DEF o, FreeInv, StateInv, PreviewInv, Started, flagVars, HasPreview
  <2>5. RecordingInv'
    BY <1>1, <1>7, <1>10, <2>1, <2>2, <2>3 DEF o, FreeInv, StateInv, RecordingInv, Started, flagVars,
       HasPreview, HasRecording
  <2>6. StreamInv'
    BY <1>1, <1>7, <2>2, <2>3 DEF o, FreeInv, StateInv, StreamInv, flagVars, HasPreview
  <2> QED
    BY <1>6, <1>11, <1>12, <1>13, <1>14, <2>4, <2>5, <2>6 DEF FreeInv, StateInv
<1>16. CASE o.op = "preview_stop" /\ p = PreviewStopOps
  <2>1. /\ "release" \in C0' /\ "preview_disable" \in C0' /\ "preview_lock" \in C0'
        /\ "recording_stop" \in C0' /\ "streamoff" \in C0'
    BY <1>6, <1>16, PreviewStopOpsOrdered
  <2>2. PreviewInv'
    BY <1>1, <1>7, <2>1 DEF FreeInv, StateInv, PreviewInv, flagVars
  <2>3. RecordingInv'
    BY <1>1, <1>7, <1>10, <2>1 DEF FreeInv, StateInv, RecordingInv, flagVars
  <2>4. StreamInv'
    BY <1>1, <1>7, <2>1 DEF FreeInv, StateInv, StreamInv, flagVars
  <2> QED
    BY <1>6, <1>11, <1>12, <1>13, <1>14, <2>2, <2>3, <2>4 DEF FreeInv, StateInv
<1>17. CASE o.op = "recording_stop" /\ p = RecordingStopOps
  <2>1. "recording_off" \in C0' /\ \A x : x \in C0' => x \in C0 \/ x = "recording_off"
    BY <1>6, <1>17, RecordingStopOpsOrdered DEF Has0
  <2>2. PreviewInv'
    BY <1>1, <1>7, <1>10, <1>17, <2>1 DEF FreeInv, StateInv, PreviewInv, Started, flagVars
  <2>3. RecordingInv'
    BY <1>1, <1>7, <1>10, <1>17, <2>1 DEF FreeInv, StateInv, RecordingInv, Started, flagVars
  <2>4. StreamInv'
    BY <1>1, <1>7, <1>10, <1>17, <2>1 DEF FreeInv, StateInv, StreamInv, flagVars
  <2> QED
    BY <1>6, <1>11, <1>12, <1>13, <1>14, <2>2, <2>3, <2>4 DEF FreeInv, StateInv
<1>18. CASE o.op = "picture_stop"
  <2>1. "release" \in C0' => "release" \in C0
    BY <1>10, <1>18 DEF Giving
  <2>2. PreviewInv'
    BY <1>1, <1>7, <1>10, <1>18 DEF FreeInv, StateInv, PreviewInv, Started, flagVars
  <2>3. RecordingInv'
    BY <1>1, <1>7, <1>10, <1>18 DEF FreeInv, StateInv, RecordingInv, Started, flagVars
  <2>4. StreamInv'
    BY <1>1, <1>7, <1>10, <1>18, <2>1 DEF FreeInv, StateInv, StreamInv, flagVars
  <2> QED
    BY <1>6, <1>11, <1>12, <1>13, <1>14, <2>2, <2>3, <2>4 DEF FreeInv, StateInv
<1> QED
  BY <1>3, <1>15, <1>16, <1>17, <1>18 DEF o

LEMMA CallerThread ==
  ASSUME TodoType, FreeInv, PreviewThread(Caller)
  PROVE  FreeInv'
<1> DEFINE o == Head(todo[Caller])
<1>1. todo[Caller] # << >> /\ o.op = "preview_thread"
  BY DEF PreviewThread, At
<1>2. UNCHANGED <<opened, driver, fds, preview_memory, previewStarted, recording_enabled,
                  recording_memory, picture_thread_running, picture_memory, mapped>>
  BY DEF PreviewThread, recordingFlags, pictureFlags, pictureMaps
<1>3. CASE Fails(Caller) /\ NodeFault("preview_thread") /\ UNCHANGED <<preview_enabled, preview_thread_started>>
  <2>1. mishaps \subseteq mishaps'
    BY <1>3 DEF NodeFault
  <2>2. o.onFailure = "preview_error_on"
    BY <1>1, CallerHas DEF FreeInv, Faces, FailsWell
  <2> QED
    BY <1>1, <1>2, <1>3, <2>1, <2>2, CallerGivesUp
<1>4. CASE Goes(Caller) /\ NoFault /\ preview_enabled' = TRUE /\ preview_thread_started' = TRUE
  <2>1. Faces(o, C0', C2') /\ Has0(o, C0') /\ Has2(o, C2') /\ Rests(Caller) /\ OrderInv'
    BY <1>1, <1>4, CallerGoes DEF FreeInv
  <2>2. /\ UNCHANGED <<L0, L2, T0, todo[PreviewLoop]>> /\ (Alone' <=> Alone)
        /\ (Dirty' <=> Dirty) /\ (DirtyMaps' <=> DirtyMaps)
    BY <1>4, <2>1, ActorsAre DEF NoFault, Rests, Dirty, DirtyMaps
  <2>3. "started" \in C0' /\ "preview_thread" \notin C0' /\ o.node = 0
    BY <1>1, <2>1 DEF Faces, StartsWell, SharedOps
  <2> HIDE DEF o
  <2>4. \A x : x \in C0 <=> x \in C0' \/ x = "preview_thread"
    BY <1>1, <2>1, <2>3 DEF Has0, o
  <2>5. C2' = C2
    BY <2>1, <2>3 DEF Has2
  <2>6. StartInv'
    BY <1>2, <2>3, <2>4 DEF FreeInv, StateInv, StartInv, Giving
  <2>7. PreviewInv'
    BY <1>2, <1>4, <2>2, <2>3 DEF FreeInv, StateInv, PreviewInv, Started
  <2>8. RecordingInv'
    BY <1>2, <2>2, <2>3, <2>4, <2>5 DEF FreeInv, StateInv, RecordingInv, Started
  <2>9. StreamInv'
    BY <1>2, <2>2, <2>4 DEF FreeInv, StateInv, StreamInv
  <2>10. ThreadInv'
    BY <1>2, <2>2, <2>4 DEF FreeInv, StateInv, ThreadInv
  <2>11. MapInv'
    BY <1>2, <2>2, <2>4 DEF FreeInv, StateInv, MapInv
  <2>12. DriverType'
    BY <1>2 DEF FreeInv, DriverType
  <2> QED
    BY <2>1, <2>6, <2>7, <2>8, <2>9, <2>10, <2>11, <2>12 DEF FreeInv, StateInv
<1> QED
  BY <1>3, <1>4 DEF PreviewThread

(* From then on the thread of the still has to stop the stream.              *)
LEMMA CallerTakes ==
  ASSUME NodesInv, FreeInv, PictureThreadStarts(Caller)
  PROVE  FreeInv'
<1> DEFINE o == Head(todo[Caller])
<1>1. todo[Caller] # << >> /\ o.op = "picture_thread" /\ TodoType
  BY DEF PictureThreadStarts, At, NodesInv
<1>2. UNCHANGED <<opened, driver, fds, preview_memory, preview_enabled, preview_thread_started,
                  previewStarted, recording_enabled, recording_memory, picture_thread_running,
                  picture_memory, mapped>>
  BY DEF PictureThreadStarts, previewFlags, recordingFlags, pictureMaps
<1>3. /\ todo[Caller] \in Seq(Ops) /\ o \in Ops
      /\ Faces(o, From(Tail(todo[Caller]), 1, 0), From(Tail(todo[Caller]), 1, 2))
      /\ Has0(o, From(Tail(todo[Caller]), 1, 0)) /\ Has2(o, From(Tail(todo[Caller]), 1, 2))
      /\ Ordered(Tail(todo[Caller]))
  BY <1>1, CallerHas DEF FreeInv
<1>4. o.onFailure = "return" /\ o.node = 0 /\ "picture_thread" \in C0
  <2>1. o.onFailure = "return"
    BY <1>1, <1>3 DEF Faces, TakesWell
  <2>2. o.node = 0
    BY <1>1, <1>3, <2>1 DEF Faces, TakesWell
  <2> QED
    BY <1>1, <1>3, <2>1, <2>2 DEF Has0
<1>5. Alone \/ Dirty
  BY <1>4 DEF FreeInv, StateInv, ThreadInv
<1>6. CASE /\ Fails(Caller)
           /\ IF picture_thread_running THEN NoFault ELSE NodeFault("picture_thread")
  <2>1. mishaps \subseteq mishaps'
    BY <1>6 DEF NodeFault, NoFault
  <2>2. Dirty'
    <3>1. CASE picture_thread_running
      <4>1. Dirty
        BY <1>5, <3>1, AloneIs DEF FreeInv, StateInv, ThreadInv
      <4> QED
        BY <2>1, <4>1 DEF Dirty
    <3>2. CASE ~picture_thread_running
      BY <1>6, <3>2 DEF NodeFault, Dirty, Unclean
    <3> QED
      BY <3>1, <3>2
  <2> QED
    BY <1>1, <1>2, <1>4, <1>6, <2>1, <2>2, CallerGivesUp
<1>7. CASE /\ todo' = [todo EXCEPT ![Caller] = Tail(@), ![CurrentStill] = <<Do("picture_begin")>>]
           /\ NoFault
  <2>1. CurrentStill \in Stills /\ todo[CurrentStill] = << >>
    BY <1>1, CallFacts DEF NodesInv, At, Fresh
  <2>2. /\ todo'[Caller] = Tail(todo[Caller]) /\ todo'[CurrentStill] = BeginThread
        /\ \A a \in Actors : a # Caller /\ a # CurrentStill => todo'[a] = todo[a]
    BY <1>1, <1>7, <2>1, ActorsAre DEF TodoType, BeginThread
  <2> DEFINE A0 == From(Tail(todo[Caller]), 1, 0)
  <2>3. C0' = A0 /\ C2' = From(Tail(todo[Caller]), 1, 2)
    BY <2>2 DEF C0, C2
  <2>4. UNCHANGED <<L0, L2, todo[PreviewLoop]>>
    BY <2>1, <2>2, ActorsAre DEF L0, L2
  <2>5. T0 \subseteq T0' /\ "picture_begin" \in T0'
    <3>1. T0' = UNION { From(todo'[s], 1, 0) : s \in Stills }
      BY DEF T0
    <3>2. "picture_begin" \in T0'
      BY <2>1, <2>2, <3>1, BeginThreadOrdered
    <3>3. ASSUME NEW x \in T0 PROVE x \in T0'
      <4>1. PICK s \in Stills : x \in From(todo[s], 1, 0)
        BY DEF T0
      <4>2. s # CurrentStill
        BY <2>1, <4>1, FromNone
      <4> QED
        BY <2>2, <3>1, <4>1, <4>2, ActorsAre
    <3> QED
      BY <3>2, <3>3
  <2>6. OrderInv'
    <3>1. Ordered(todo'[Caller]) /\ LoopOrdered(todo'[PreviewLoop])
      BY <1>3, <2>1, <2>2, ActorsAre DEF FreeInv, OrderInv
    <3>2. \A s \in Stills : ThreadOrdered(todo'[s])
      BY <2>2, BeginThreadOrdered, ActorsAre DEF FreeInv, OrderInv
    <3> QED
      BY <3>1, <3>2 DEF OrderInv
  <2>7. (Dirty' <=> Dirty) /\ (DirtyMaps' <=> DirtyMaps)
    BY <1>7 DEF NoFault, Dirty, DirtyMaps
  <2> HIDE DEF o, A0
  <2>8. \A x : x \in C0 <=> x \in C0' \/ x = "picture_thread"
    BY <1>1, <1>3, <1>4, <2>3 DEF Has0, o, A0
  <2>9. "picture_thread" \notin C0' /\ C2' = C2
    <3>1. "picture_thread" \notin C0'
      BY <1>1, <1>3, <2>3 DEF Faces, TakesWell, A0, o
    <3>2. \A x : x \in C2 <=> x \in C2'
      BY <1>3, <1>4, <2>3 DEF Has2
    <3> QED
      BY <3>1, <3>2
  <2>10. StartInv'
    BY <1>2, <2>8 DEF FreeInv, StateInv, StartInv, Giving
  <2>11. PreviewInv'
    BY <1>2, <2>4, <2>8 DEF FreeInv, StateInv, PreviewInv, Started
  <2>12. RecordingInv'
    BY <1>2, <2>4, <2>7, <2>8, <2>9 DEF FreeInv, StateInv, RecordingInv, Started
  <2>13. StreamInv'
    BY <1>2, <2>5, <2>7, <2>8 DEF FreeInv, StateInv, StreamInv
  <2>14. ThreadInv'
    BY <1>2, <2>5, <2>7, <2>9 DEF FreeInv, StateInv, ThreadInv
  <2>15. MapInv'
    BY <1>2, <2>5, <2>7 DEF FreeInv, StateInv, MapInv
  <2>16. DriverType'
    BY <1>2 DEF FreeInv, DriverType
  <2> QED
    BY <2>6, <2>10, <2>11, <2>12, <2>13, <2>14, <2>15, <2>16 DEF FreeInv, StateInv
<1> QED
  BY <1>6, <1>7 DEF PictureThreadStarts

(* By the time the backend is freed nobody else has anything to give back.   *)
LEMMA CallerTurns ==
  ASSUME NodesInv, FreeInv, OpenedOrFreed
  PROVE  FreeInv'
<1> DEFINE o == Head(todo[Caller])
<1>1. /\ todo[Caller] # << >> /\ o.op \in {"opened", "silenced", "freed"} /\ TodoType /\ Goes(Caller)
      /\ UNCHANGED <<driver, previewStarted, mapped, mishaps>>
  BY DEF OpenedOrFreed, At, NodesInv
<1>2. Faces(o, C0', C2') /\ Has0(o, C0') /\ Has2(o, C2') /\ Rests(Caller) /\ OrderInv'
  BY <1>1, CallerGoes DEF FreeInv
<1>3. /\ UNCHANGED <<L0, L2, T0, todo[PreviewLoop]>> /\ (Alone' <=> Alone)
      /\ (Dirty' <=> Dirty) /\ (DirtyMaps' <=> DirtyMaps) /\ (Dirty => DirtyMaps)
  BY <1>1, <1>2, ActorsAre DEF Rests, Dirty, DirtyMaps
<1>4. o.node = 0
  BY <1>1, <1>2 DEF Faces, StartsWell, SharedOps
<1>5. o.op = "freed" => Alone \/ Bad
  BY <1>1, CallFacts DEF NodesInv, At
<1>6. /\ opened' <=> o.op = "opened"
      /\ o.op # "freed" => UNCHANGED <<fds, previewFlags, recordingFlags, pictureFlags, picture_memory>>
      /\ o.op = "freed" =>
           /\ fds' = [n \in Nodes |-> "zero"]
           /\ ~preview_enabled' /\ ~preview_memory' /\ ~recording_enabled' /\ ~recording_memory'
           /\ ~picture_thread_running'
  BY <1>1 DEF OpenedOrFreed, At
<1> HIDE DEF o
<1>7. /\ \A x : x \in C0 <=> x \in C0' \/ x = o.op
      /\ C2' = C2
  <2>1. \A x : x \in C0 <=> x \in C0' \/ x = o.op
    BY <1>2, <1>4 DEF Has0
  <2>2. \A x : x \in C2 <=> x \in C2'
    BY <1>2, <1>4 DEF Has2
  <2> QED
    BY <2>1, <2>2
<1>8. ~previewStarted
  BY <1>1, <1>7 DEF FreeInv, StateInv, StartInv
<1>9. CASE o.op \in {"opened", "silenced"}
  <2>1. "started" \notin C0'
    BY <1>2, <1>9 DEF Faces, StartsWell
  <2>2. StartInv'
    BY <1>1, <1>8, <2>1 DEF StartInv
  <2>3. PreviewInv'
    BY <1>1, <1>3, <1>6, <1>7, <1>9 DEF FreeInv, StateInv, PreviewInv, Started, previewFlags, recordingFlags
  <2>4. RecordingInv'
    BY <1>1, <1>3, <1>6, <1>7, <1>9 DEF FreeInv, StateInv, RecordingInv, Started, recordingFlags
  <2>5. StreamInv'
    BY <1>1, <1>3, <1>6, <1>7, <1>9 DEF FreeInv, StateInv, StreamInv, previewFlags
  <2>6. ThreadInv'
    BY <1>1, <1>3, <1>6, <1>7, <1>9 DEF FreeInv, StateInv, ThreadInv, pictureFlags
  <2>7. MapInv'
    BY <1>1, <1>3, <1>6, <1>7, <1>9 DEF FreeInv, StateInv, MapInv
  <2>8. DriverType'
    BY <1>1, <1>6, <1>9 DEF FreeInv, DriverType
  <2> QED
    BY <1>2, <2>2, <2>3, <2>4, <2>5, <2>6, <2>7, <2>8 DEF FreeInv, StateInv
<1>10. CASE o.op = "freed"
  <2>1. C0' = {} /\ C2' = {} /\ C2 = {} /\ \A x : x \in C0 <=> x = "freed"
    BY <1>2, <1>7, <1>10 DEF Faces, StartsWell
  <2>2. T0 = {} \/ Dirty
    BY <1>5, <1>10, AloneIs DEF Bad, Overlapped, Dirty, Unclean
  <2>3. ~Started
    BY <1>8, <2>1 DEF Started
  <2>4. todo[PreviewLoop] = << >> /\ L0 = {}
    BY <2>1, <2>3, IdleIs DEF FreeInv, StateInv, PreviewInv
  <2>5. driver[2].streaming => Dirty
    BY <2>1, <2>3, <2>4 DEF FreeInv, StateInv, RecordingInv
  <2>6. driver[0].streaming => Dirty
    BY <1>8, <2>1, <2>2 DEF FreeInv, StateInv, StreamInv
  <2>7. mapped # {} => DirtyMaps
    BY <1>3, <2>1, <2>2 DEF FreeInv, StateInv, MapInv
  <2>8. StartInv'
    BY <1>1, <1>8, <2>1 DEF StartInv
  <2>9. PreviewInv'
    BY <1>3, <1>6, <1>10, <2>4 DEF PreviewInv
  <2>10. RecordingInv'
    BY <1>1, <1>3, <1>6, <1>10, <2>5 DEF RecordingInv
  <2>11. StreamInv'
    BY <1>1, <1>3, <2>5, <2>6 DEF StreamInv, Nodes
  <2>12. ThreadInv'
    BY <1>6, <1>10, <2>1 DEF ThreadInv
  <2>13. MapInv'
    BY <1>1, <1>3, <2>7 DEF MapInv
  <2>14. DriverType'
    BY <1>1, <1>6, <1>10 DEF FreeInv, DriverType
  <2> QED
    BY <1>2, <2>8, <2>9, <2>10, <2>11, <2>12, <2>13, <2>14 DEF FreeInv, StateInv
<1> QED
  BY <1>1, <1>9, <1>10 DEF o

-----------------------------------------------------------------------------
(* A new call finds that the last one has left nothing but what the threads  *)
(* and a running preview have.                                               *)
LEMMA CallBegins ==
  ASSUME TodoType, FreeInv, NEW q, Calls(q), Ordered(q)
  PROVE  /\ C0 = {} /\ C2 = {} /\ C0' = From(q, 1, 0) /\ C2' = From(q, 1, 2)
         /\ UNCHANGED <<L0, L2, T0, todo[PreviewLoop]>> /\ (Alone' <=> Alone) /\ OrderInv'
<1>1. todo[Caller] = << >> /\ todo' = [todo EXCEPT ![Caller] = q]
  BY DEF Calls, NoCall
<1>2. todo'[Caller] = q /\ Rests(Caller)
  BY <1>1, OthersRest, OthersAhead, ActorsAre
<1>3. OrderInv'
  BY <1>2, ActorsAre DEF FreeInv, OrderInv, Rests
<1>4. C0' = From(q, 1, 0) /\ C2' = From(q, 1, 2)
  BY <1>2 DEF C0, C2
<1>5. UNCHANGED <<L0, L2, T0, todo[PreviewLoop]>> /\ (Alone' <=> Alone)
  BY <1>2, ActorsAre DEF Rests
<1> QED
  BY <1>1, <1>3, <1>4, <1>5, IdleIs

(* The calls that leave a preview, if there is one, as it is.                *)
LEMMA CallResumes ==
  ASSUME TodoType, FreeInv, OpenBackend \/ ResetNodes \/ StartPreview
  PROVE  FreeInv'
<1>1. UNCHANGED <<flagVars, driver, fds, mishaps>>
  BY DEF OpenBackend, ResetNodes, StartPreview, flagVars, keptByCalls, previewFlags, recordingFlags,
         pictureFlags, pictureMaps
<1>2. (Dirty' <=> Dirty) /\ (DirtyMaps' <=> DirtyMaps)
  BY <1>1 DEF Dirty, DirtyMaps
<1>3. ASSUME NEW q, Calls(q), Ordered(q),
             From(q, 1, 0) \cap {"picture_thread", "silenced", "freed", "release", "preview_reset"} = {},
             "opened" \in From(q, 1, 0) => ~previewStarted,
             "started" \in From(q, 1, 0) => opened /\ ~previewStarted /\ "memory" \in From(q, 1, 0)
      PROVE  FreeInv'
  <2>1. /\ C0 = {} /\ C2 = {} /\ C0' = From(q, 1, 0) /\ C2' = From(q, 1, 2)
        /\ UNCHANGED <<L0, L2, T0, todo[PreviewLoop]>> /\ (Alone' <=> Alone) /\ OrderInv'
    BY <1>3, CallBegins
  <2>2. "release" \notin C0' /\ "preview_reset" \notin C0'
    BY <1>3, <2>1
  <2>3. StartInv'
    BY <1>1, <1>3, <2>1, <2>2 DEF FreeInv, StateInv, StartInv, flagVars
  <2>4. PreviewInv'
    BY <1>1, <2>1 DEF FreeInv, StateInv, PreviewInv, Started, flagVars
  <2>5. RecordingInv'
    BY <1>1, <1>2, <2>1 DEF FreeInv, StateInv, RecordingInv, Started, flagVars
  <2>6. StreamInv'
    BY <1>1, <1>2, <2>1, <2>2 DEF FreeInv, StateInv, StreamInv, flagVars
  <2>7. ThreadInv'
    BY <1>1, <1>2, <1>3, <2>1 DEF FreeInv, StateInv, ThreadInv, flagVars
  <2>8. MapInv'
    BY <1>1, <1>2, <2>1 DEF FreeInv, StateInv, MapInv, flagVars
  <2>9. DriverType'
    BY <1>1 DEF FreeInv, DriverType
  <2> QED
    BY <2>1, <2>3, <2>4, <2>5, <2>6, <2>7, <2>8, <2>9 DEF FreeInv, StateInv
<1>4. CASE OpenBackend
  <2>1. Calls(InitOps) /\ ~opened
    BY <1>4, CallsAre DEF OpenBackend
  <2>2. ~previewStarted
    BY <2>1 DEF FreeInv, StateInv, StartInv
  <2> QED
    BY <1>3, <2>1, <2>2, InitOpsOrdered
<1>5. CASE ResetNodes
  <2>1. Calls(ResetOps)
    BY <1>5, CallsAre DEF ResetNodes
  <2> QED
    BY <1>3, <2>1, ResetOpsOrdered
<1>6. CASE StartPreview
  <2>1. Calls(StartOps) /\ opened /\ ~previewStarted
    BY <1>6, CallsAre DEF StartPreview
  <2> QED
    BY <1>3, <2>1, StartOpsOrdered
<1> QED
  BY <1>4, <1>5, <1>6

(* The calls that stop it.                                                   *)
LEMMA CallStops ==
  ASSUME TodoType, FreeInv, CloseBackend \/ Flush \/ TakePicture
  PROVE  FreeInv'
<1>1. /\ UNCHANGED <<opened, preview_memory, preview_enabled, preview_thread_started,
                     recording_enabled, recording_memory, picture_thread_running, picture_memory,
                     mapped, driver, fds>>
      /\ previewStarted' = FALSE /\ mishaps \subseteq mishaps'
  BY DEF CloseBackend, Flush, TakePicture, keptByCalls, previewFlags, recordingFlags,
         pictureFlags, pictureMaps
<1>2. (Dirty => Dirty') /\ (DirtyMaps => DirtyMaps')
  BY <1>1 DEF Dirty, DirtyMaps
<1>3. ASSUME NEW q, Calls(q), Ordered(q), "preview_stop" \in From(q, 1, 0),
             From(q, 1, 0) \cap {"started", "release"} = {},
             "picture_thread" \in From(q, 1, 0) =>
               "reqbufs1" \in From(q, 1, 0) /\ (Alone \/ Dirty')
      PROVE  FreeInv'
  <2>1. /\ C0 = {} /\ C2 = {} /\ C0' = From(q, 1, 0) /\ C2' = From(q, 1, 2)
        /\ UNCHANGED <<L0, L2, T0, todo[PreviewLoop]>> /\ (Alone' <=> Alone) /\ OrderInv'
    BY <1>3, CallBegins
  <2>2. "preview_stop" \in C0' /\ "started" \notin C0' /\ "release" \notin C0'
    BY <1>3, <2>1
  <2>3. StartInv'
    BY <1>1, <2>2 DEF StartInv
  <2>4. PreviewInv'
    BY <1>1, <2>1, <2>2 DEF FreeInv, StateInv, PreviewInv
  <2>5. RecordingInv'
    BY <1>1, <1>2, <2>1, <2>2 DEF FreeInv, StateInv, RecordingInv
  <2>6. StreamInv'
    BY <1>1, <1>2, <2>1, <2>2 DEF FreeInv, StateInv, StreamInv
  <2>7. ThreadInv'
    BY <1>1, <1>2, <1>3, <2>1 DEF FreeInv, StateInv, ThreadInv
  <2>8. MapInv'
    BY <1>1, <1>2, <2>1 DEF FreeInv, StateInv, MapInv
  <2>9. DriverType'
    BY <1>1 DEF FreeInv, DriverType
  <2> QED
    BY <2>1, <2>3, <2>4, <2>5, <2>6, <2>7, <2>8, <2>9 DEF FreeInv, StateInv
<1>4. CASE CloseBackend
  <2>1. Calls(CloseOps)
    BY <1>4, CallsAre DEF CloseBackend
  <2> QED
    BY <1>3, <2>1, CloseOpsOrdered
<1>5. CASE Flush
  <2>1. Calls(FlushCall)
    BY <1>5 DEF Flush
  <2> QED
    BY <1>3, <2>1, FlushCallOrdered
<1>6. CASE TakePicture
  <2>1. Calls(PictureOps)
    BY <1>6, CallsAre DEF TakePicture
  <2>2. Alone \/ Dirty'
    BY <1>6 DEF TakePicture, Alone, Dirty, Unclean
  <2> QED
    BY <1>3, <2>1, <2>2, PictureOpsOrdered
<1> QED
  BY <1>4, <1>5, <1>6

-----------------------------------------------------------------------------
(* A step of the preview thread.                                             *)

(* A stop that has still to disable the preview has still to lock its mutex, *)
(* and one that has still to lock it has still to stop the movie.           *)
LEMMA StopsInOrder ==
  ASSUME OrderInv, todo[Caller] \in Seq(Ops)
  PROVE  /\ "preview_disable" \in C0 => "preview_lock" \in C0
         /\ "preview_lock" \in C0 => "recording_stop" \in C0
<1> DEFINE q == todo[Caller]
<1>1. Len(q) \in Nat /\ Ordered(q)
  BY LenProperties DEF OrderInv
<1> HIDE DEF q
<1>2. ASSUME NEW k \in 1..Len(q) PROVE From(q, k + 1, 0) \subseteq From(q, 1, 0)
  <2>1. \A i \in (k + 1)..Len(q) : i \in 1..Len(q)
    BY <1>1
  <2> QED
    BY <2>1 DEF From
<1>3. ASSUME NEW x \in From(q, 1, 0)
      PROVE  \E k \in 1..Len(q) : q[k].op = x /\ StopsWell(q[k], From(q, k + 1, 0), From(q, k + 1, 2))
  BY <1>1 DEF From, Ordered, Faces
<1>4. "preview_disable" \in From(q, 1, 0) => "preview_lock" \in From(q, 1, 0)
  BY <1>2, <1>3 DEF StopsWell
<1>5. "preview_lock" \in From(q, 1, 0) => "recording_stop" \in From(q, 1, 0)
  BY <1>2, <1>3 DEF StopsWell
<1> QED
  BY <1>4, <1>5 DEF q, C0

LEMMA LoopKeeps ==
  ASSUME FreeInv, Rests(PreviewLoop), OrderInv', DriverType', RecordingInv',
         UNCHANGED <<opened, preview_memory, picture_memory, mapped>>,
         previewStarted' <=> previewStarted, preview_thread_started' <=> preview_thread_started,
         picture_thread_running' <=> picture_thread_running,
         mishaps \subseteq mishaps', preview_enabled' => preview_enabled,
         driver'[0] = driver[0], fds'[0] = fds[0],
         driver'[2].streaming => fds'[2] = "open" \/ Dirty',
         todo'[PreviewLoop] # << >> => todo[PreviewLoop] # << >> /\ ~recording_enabled'
  PROVE  FreeInv'
<1>1. /\ UNCHANGED <<C0, C2, T0>> /\ (Alone' <=> Alone)
      /\ (Dirty => Dirty') /\ (DirtyMaps => DirtyMaps')
  BY ActorsAre DEF Rests, Dirty, DirtyMaps
<1>2. StartInv'
  BY <1>1 DEF FreeInv, StateInv, StartInv
<1>3. PreviewInv'
  BY <1>1 DEF FreeInv, StateInv, PreviewInv, Started
<1>4. StreamInv'
  <2>1. \A n \in Nodes : driver'[n].streaming => fds'[n] = "open" \/ Dirty'
    BY <1>1 DEF FreeInv, StateInv, StreamInv, Nodes
  <2> QED
    BY <1>1, <2>1 DEF FreeInv, StateInv, StreamInv
<1>5. ThreadInv'
  BY <1>1 DEF FreeInv, StateInv, ThreadInv
<1>6. MapInv'
  BY <1>1 DEF FreeInv, StateInv, MapInv
<1> QED
  BY <1>2, <1>3, <1>4, <1>5, <1>6 DEF FreeInv, StateInv

LEMMA LoopOperates ==
  ASSUME NodesInv, FreeInv, NodeOperation(PreviewLoop)
  PROVE  FreeInv'
<1> DEFINE o == Head(todo[PreviewLoop])
<1>1. todo[PreviewLoop] # << >> /\ o.op \in Ioctls /\ TodoType /\ LoopOK
  BY DEF NodeOperation, At, NodesInv
<1>2. /\ o \in Ops /\ o.op \notin {"recording_on", "recording_off", "preview_failed", "release"}
      /\ o.node = 2
  <2>1. o \in Ops
    BY <1>1, LoopFacts, LoopIs
  <2>2. o.op \notin {"recording_on", "recording_off", "preview_failed", "release"}
    BY <1>1 DEF Ioctls, BufferIoctls, StreamIoctls, FormatIoctls, InputIoctls, ControlIoctls
  <2>3. o.node = 2
    BY <1>1, <2>2, LoopHas DEF LoopFaces, FreeInv
  <2> QED
    BY <2>1, <2>2, <2>3
<1>3. UNCHANGED <<flagVars, todo[Caller]>>
  <2>1. UNCHANGED flagVars
    BY DEF NodeOperation, previewFlags, pictureFlags, pictureMaps, flagVars
  <2>2. todo'[Caller] = todo[Caller]
    BY <1>1, ActorsAre DEF NodeOperation, Goes, Fails, TodoType
  <2> QED
    BY <2>1, <2>2
<1>4. ~recording_enabled
  BY <1>1 DEF FreeInv, StateInv, PreviewInv
<1>5. CASE Accepts(o) /\ Reached(o) /\ Goes(PreviewLoop) /\ NoFault
  <2>1. /\ LoopFaces(o, L0', L2') /\ LoopHas0(o, L0') /\ LoopHas2(o, L2')
        /\ Rests(PreviewLoop) /\ OrderInv'
    BY <1>1, <1>5, LoopGoes DEF FreeInv
  <2>2. /\ DriverType'
        /\ \A n \in Nodes : n # o.node => driver'[n] = driver[n] /\ fds'[n] = fds[n]
        /\ driver'[o.node].streaming =
             IF o.op \in {"open", "close", "streamoff"} THEN FALSE
             ELSE IF o.op = "streamon" THEN TRUE ELSE driver[o.node].streaming
        /\ fds'[o.node] = IF o.op = "open" THEN "open" ELSE IF o.op = "close" THEN "closed" ELSE fds[o.node]
    BY <1>2, <1>5, ReachedIs DEF FreeInv
  <2>3. UNCHANGED <<C0, C2>> /\ (Dirty' <=> Dirty) /\ mishaps' = mishaps
    BY <1>5, <2>1, ActorsAre DEF Rests, NoFault, Dirty
  <2> HIDE DEF o
  <2>4. driver'[0] = driver[0] /\ fds'[0] = fds[0]
    BY <1>2, <2>2 DEF Nodes
  <2>5. driver'[2].streaming => fds'[2] = "open"
    BY <1>2, <1>5, <2>2 DEF Accepts
  <2>6. /\ driver'[2].streaming => \/ driver[2].streaming
                                   \/ "recording_on" \in L0' /\ L2' = {}
        /\ L2 # {}
    <3>1. L2 # {}
      BY <1>2, <2>1 DEF LoopHas2
    <3>2. o.op = "streamon" => "recording_on" \in L0' /\ L2' = {}
      BY <2>1 DEF LoopFaces
    <3>3. o.op # "streamon" /\ driver'[2].streaming => driver[2].streaming
      BY <1>2, <2>2
    <3> QED
      BY <3>1, <3>2, <3>3
  <2>7. /\ "recording_on" \in L0 => "recording_on" \in L0'
        /\ "release" \in L2 => "release" \in L2'
    BY <1>2, <2>1 DEF LoopHas0, LoopHas2
  <2>8. RecordingInv'
    BY <1>3, <1>4, <2>3, <2>6, <2>7 DEF FreeInv, StateInv, RecordingInv, Started, flagVars
  <2> QED
    BY <1>1, <1>3, <1>4, <2>1, <2>2, <2>3, <2>4, <2>5, <2>8, LoopKeeps DEF flagVars
<1>6. CASE Fails(PreviewLoop) /\ UNCHANGED <<fds, driver>> /\ mishaps \subseteq mishaps'
  <2>1. PICK A0, A2 :
          /\ LoopFaces(o, A0, A2) /\ LoopHas0(o, A0) /\ LoopHas2(o, A2)
          /\ \/ L0' = A0 /\ L2' = A2
             \/ L0' = {"recording_off", "preview_failed"} /\ L2' = {"release", "reqbufs0"}
          /\ Rests(PreviewLoop) /\ OrderInv'
    BY <1>1, <1>6, LoopFails DEF FreeInv
  <2>2. UNCHANGED <<C0, C2>> /\ (Dirty => Dirty')
    BY <1>6, <2>1, ActorsAre DEF Rests, Dirty
  <2> HIDE DEF o
  <2>3. L2 # {}
    BY <1>2, <2>1 DEF LoopHas2
  <2>4. \/ "release" \in L2'
        \/ /\ "recording_on" \in L0 => "recording_on" \in L0'
           /\ "release" \in L2 => "release" \in L2'
    BY <1>2, <2>1 DEF LoopHas0, LoopHas2
  <2>5. RecordingInv'
    BY <1>3, <1>4, <1>6, <2>2, <2>3, <2>4 DEF FreeInv, StateInv, RecordingInv, Started, flagVars
  <2>6. DriverType' /\ (driver'[2].streaming => fds'[2] = "open" \/ Dirty')
    BY <1>6, <2>2 DEF FreeInv, DriverType, StateInv, StreamInv, Nodes
  <2> QED
    BY <1>1, <1>3, <1>4, <1>6, <2>1, <2>5, <2>6, LoopKeeps DEF flagVars
<1>7. \/ Accepts(o) /\ Reached(o) /\ Goes(PreviewLoop) /\ NoFault
      \/ Fails(PreviewLoop) /\ UNCHANGED <<fds, driver>> /\ mishaps \subseteq mishaps'
  BY DEF NodeOperation, NodeFault, NoFault
<1> QED
  BY <1>5, <1>6, <1>7

LEMMA LoopBuffers ==
  ASSUME NodesInv, FreeInv, MapBuffers(PreviewLoop)
  PROVE  FreeInv'
<1> DEFINE o == Head(todo[PreviewLoop])
<1>1. todo[PreviewLoop] # << >> /\ o.op \in {"memory", "release"} /\ TodoType /\ LoopOK
  BY DEF MapBuffers, At, NodesInv
<1>2. o.node = 2
  BY <1>1, LoopHas DEF LoopFaces, FreeInv
<1>3. UNCHANGED <<opened, fds, driver, preview_memory, preview_enabled, preview_thread_started,
                  previewStarted, recording_enabled, picture_thread_running, picture_memory, mapped>>
  BY <1>2 DEF MapBuffers, pictureFlags, pictureMaps
<1>4. mishaps \subseteq mishaps'
  BY DEF MapBuffers, NodeFault, NoFault
<1>5. ~recording_enabled
  BY <1>1 DEF FreeInv, StateInv, PreviewInv
<1>6. ASSUME NEW A0, NEW A2, LoopFaces(o, A0, A2), LoopHas0(o, A0), LoopHas2(o, A2),
             \/ L0' = A0 /\ L2' = A2
             \/ L0' = {"recording_off", "preview_failed"} /\ L2' = {"release", "reqbufs0"},
             Rests(PreviewLoop), OrderInv',
             ~recording_memory' \/ (o.op = "memory" /\ L0' = A0)
      PROVE  FreeInv'
  <2>1. UNCHANGED <<C0, C2>> /\ (Dirty => Dirty')
    BY <1>4, <1>6, ActorsAre DEF Rests, Dirty
  <2> HIDE DEF o
  <2>2. L2 # {}
    BY <1>2, <1>6 DEF LoopHas2
  <2>3. recording_memory' => "recording_on" \in L0'
    BY <1>6 DEF LoopFaces
  <2>4. RecordingInv'
    BY <1>3, <1>5, <2>1, <2>2, <2>3 DEF FreeInv, StateInv, RecordingInv, Started
  <2>5. DriverType' /\ (driver'[2].streaming => fds'[2] = "open" \/ Dirty')
    BY <1>3, <2>1 DEF FreeInv, DriverType, StateInv, StreamInv, Nodes
  <2> QED
    BY <1>1, <1>3, <1>4, <1>5, <1>6, <2>4, <2>5, LoopKeeps
<1>7. CASE Goes(PreviewLoop)
  <2>1. o.op = "memory" \/ ~recording_memory'
    BY <1>2, <1>7 DEF MapBuffers, At
  <2>2. /\ LoopFaces(o, L0', L2') /\ LoopHas0(o, L0') /\ LoopHas2(o, L2')
        /\ Rests(PreviewLoop) /\ OrderInv'
    BY <1>1, <1>7, LoopGoes DEF FreeInv
  <2> HIDE DEF o
  <2> QED
    BY <1>6, <2>1, <2>2
<1>8. CASE Fails(PreviewLoop) /\ ~recording_memory'
  <2>1. PICK A0, A2 :
          /\ LoopFaces(o, A0, A2) /\ LoopHas0(o, A0) /\ LoopHas2(o, A2)
          /\ \/ L0' = A0 /\ L2' = A2
             \/ L0' = {"recording_off", "preview_failed"} /\ L2' = {"release", "reqbufs0"}
          /\ Rests(PreviewLoop) /\ OrderInv'
    BY <1>1, <1>8, LoopFails DEF FreeInv
  <2> HIDE DEF o
  <2> QED
    BY <1>6, <1>8, <2>1
<1>9. Goes(PreviewLoop) \/ (Fails(PreviewLoop) /\ ~recording_memory')
  BY <1>2 DEF MapBuffers
<1> QED
  BY <1>7, <1>8, <1>9

(* The movie that is armed now is stopped by the call that waits for the     *)
(* mutex, if one does.                                                      *)
LEMMA LoopFlags ==
  ASSUME NodesInv, FreeInv, SetFlags(PreviewLoop)
  PROVE  FreeInv'
<1> DEFINE o == Head(todo[PreviewLoop])
<1>1. /\ todo[PreviewLoop] # << >> /\ TodoType /\ LoopOK /\ Goes(PreviewLoop)
      /\ todo[Caller] \in Seq(Ops)
  BY ActorsAre DEF SetFlags, At, NodesInv, TodoType
<1>2. o.op \in {"recording_on", "recording_off", "preview_failed"}
  <2>1. o.op \in Ioctls \cup {"memory", "release", "recording_on", "recording_off", "preview_failed"}
    BY <1>1, LoopFacts
  <2>2. o.op \in {"preview_reset", "preview_disable", "preview_failed", "started", "recording_on",
                  "recording_off", "picture_disable", "not_running", "not_started", "taken", "returned"}
    BY DEF SetFlags, At
  <2> HIDE DEF o
  <2> QED
    BY <2>1, <2>2 DEF Ioctls, BufferIoctls, StreamIoctls, FormatIoctls, InputIoctls, ControlIoctls
<1>3. /\ LoopFaces(o, L0', L2') /\ LoopHas0(o, L0') /\ LoopHas2(o, L2')
      /\ o.op = "recording_on" => todo'[PreviewLoop] = << >>
      /\ Rests(PreviewLoop) /\ OrderInv'
  BY <1>1, LoopGoes DEF FreeInv
<1>4. /\ UNCHANGED <<opened, preview_memory, driver, fds, picture_memory, mapped, mishaps, recording_memory>>
      /\ recording_enabled' <=> ((recording_enabled /\ o.op # "recording_off") \/ o.op = "recording_on")
      /\ preview_enabled' => preview_enabled
  <2>1. \A ops : At(PreviewLoop, ops) <=> o.op \in ops
    BY <1>1 DEF At
  <2>2. UNCHANGED <<opened, preview_memory, driver, fds, picture_memory, mapped, mishaps, recording_memory>>
    BY DEF SetFlags, keptByFlags, pictureMaps
  <2>3. /\ recording_enabled' <=> ((recording_enabled /\ o.op # "recording_off") \/ o.op = "recording_on")
        /\ preview_enabled' => preview_enabled
    BY <2>1 DEF SetFlags, Unless
  <2> QED
    BY <2>2, <2>3
<1>5. UNCHANGED <<C0, C2>> /\ (Dirty' <=> Dirty)
  BY <1>3, <1>4, ActorsAre DEF Rests, Dirty
<1>6. /\ ~recording_enabled
      /\ Started \/ "preview_stop" \in C0 \/ "recording_stop" \in C0
  BY <1>1, StopsInOrder DEF FreeInv, StateInv, PreviewInv
<1>7. /\ previewStarted' <=> previewStarted
      /\ preview_thread_started' <=> preview_thread_started
      /\ picture_thread_running' <=> picture_thread_running
  <2>1. \A ops : At(PreviewLoop, ops) <=> o.op \in ops
    BY <1>1 DEF At
  <2> QED
    BY <1>2, <2>1 DEF SetFlags, Unless
<1> HIDE DEF o
<1>8. RecordingInv'
  <2>1. CASE o.op = "recording_on"
    BY <1>4, <1>5, <1>6, <1>7, <2>1 DEF FreeInv, StateInv, RecordingInv, Started
  <2>2. CASE o.op # "recording_on"
    <3>1. /\ "recording_on" \in L0 => "recording_on" \in L0'
          /\ "release" \in L2 => "release" \in L2'
          /\ L2 = {} => L2' = {}
      BY <1>2, <1>3, <2>2 DEF LoopHas0, LoopHas2, LoopFaces
    <3>2. ~recording_enabled'
      BY <1>4, <1>6, <2>2
    <3> QED
      BY <1>4, <1>5, <1>6, <3>1, <3>2 DEF FreeInv, StateInv, RecordingInv
  <2> QED
    BY <2>1, <2>2
<1>9. todo'[PreviewLoop] # << >> => ~recording_enabled'
  BY <1>3, <1>4, <1>6
<1>10. DriverType' /\ (driver'[2].streaming => fds'[2] = "open" \/ Dirty')
  BY <1>4, <1>5 DEF FreeInv, DriverType, StateInv, StreamInv, Nodes
<1> QED
  BY <1>1, <1>3, <1>4, <1>7, <1>8, <1>9, <1>10, LoopKeeps

LEMMA LoopArms ==
  ASSUME NodesInv, FreeInv, PreviewArms
  PROVE  FreeInv'
<1>1. /\ preview_enabled /\ preview_thread_started /\ ~recording_enabled /\ todo[PreviewLoop] = << >>
      /\ todo' = [todo EXCEPT ![PreviewLoop] = ArmOps]
      /\ UNCHANGED <<flagVars, driver, fds, mishaps>>
  BY ArmsAre DEF PreviewArms, PreviewIsOn, keptByFlags, previewFlags, pictureFlags, pictureMaps, flagVars
<1>2. TodoType /\ todo[Caller] \in Seq(Ops)
  BY ActorsAre DEF NodesInv, TodoType
<1>3. todo'[PreviewLoop] = ArmOps /\ Rests(PreviewLoop)
  BY <1>1, <1>2, OthersRest, OthersAhead, ActorsAre
<1>4. /\ "recording_on" \in L0' /\ L0 = {}
      /\ UNCHANGED <<todo[Caller], C0, C2, T0>> /\ (Alone' <=> Alone)
      /\ \A s \in Stills : todo'[s] = todo[s]
  <2>1. "recording_on" \in L0'
    BY <1>3, ArmOpsOrdered DEF L0
  <2>2. L0 = {}
    BY <1>1, IdleIs
  <2> QED
    BY <1>3, <2>1, <2>2, ActorsAre DEF Rests
<1>5. OrderInv'
  BY <1>3, <1>4, ArmOpsOrdered DEF FreeInv, OrderInv
<1>6. (Dirty' <=> Dirty) /\ (DirtyMaps' <=> DirtyMaps)
  BY <1>1 DEF Dirty, DirtyMaps
<1>7. Started \/ "preview_stop" \in C0 \/ "preview_lock" \in C0
  BY <1>1, <1>2, StopsInOrder DEF FreeInv, StateInv, PreviewInv
<1>8. StartInv'
  BY <1>1, <1>4 DEF FreeInv, StateInv, StartInv, flagVars
<1>9. PreviewInv'
  BY <1>1, <1>4, <1>7 DEF FreeInv, StateInv, PreviewInv, Started, flagVars
<1>10. RecordingInv'
  BY <1>1, <1>4, <1>6 DEF FreeInv, StateInv, RecordingInv, Started, flagVars
<1>11. StreamInv'
  BY <1>1, <1>4, <1>6 DEF FreeInv, StateInv, StreamInv, flagVars
<1>12. ThreadInv'
  BY <1>1, <1>4, <1>6 DEF FreeInv, StateInv, ThreadInv, flagVars
<1>13. MapInv'
  BY <1>1, <1>4, <1>6 DEF FreeInv, StateInv, MapInv, flagVars
<1>14. DriverType'
  BY <1>1 DEF FreeInv, DriverType
<1> QED
  BY <1>5, <1>8, <1>9, <1>10, <1>11, <1>12, <1>13, <1>14 DEF FreeInv, StateInv

(* With no operation done, at most the preview thread gives its flags up.    *)
LEMMA NobodyMoves ==
  ASSUME FreeInv, UNCHANGED todo, mishaps \subseteq mishaps',
         UNCHANGED <<opened, preview_memory, previewStarted, recording_enabled, recording_memory,
                     picture_thread_running, picture_memory, mapped, driver, fds>>,
         preview_enabled' => preview_enabled,
         preview_thread_started' = preview_thread_started \/ todo[PreviewLoop] = << >>
  PROVE  FreeInv'
<1>1. /\ UNCHANGED <<C0, C2, L0, L2, T0>> /\ (Alone' <=> Alone)
      /\ (Dirty => Dirty') /\ (DirtyMaps => DirtyMaps')
  BY DEF C0, C2, L0, L2, T0, Alone, Dirty, DirtyMaps
<1>2. OrderInv'
  BY DEF FreeInv, OrderInv
<1>3. StartInv'
  BY <1>1 DEF FreeInv, StateInv, StartInv
<1>4. PreviewInv'
  BY <1>1 DEF FreeInv, StateInv, PreviewInv, Started
<1>5. RecordingInv'
  BY <1>1 DEF FreeInv, StateInv, RecordingInv, Started
<1>6. StreamInv'
  BY <1>1 DEF FreeInv, StateInv, StreamInv
<1>7. ThreadInv'
  BY <1>1 DEF FreeInv, StateInv, ThreadInv
<1>8. MapInv'
  BY <1>1 DEF FreeInv, StateInv, MapInv
<1>9. DriverType'
  BY DEF FreeInv, DriverType
<1> QED
  BY <1>2, <1>3, <1>4, <1>5, <1>6, <1>7, <1>8, <1>9 DEF FreeInv, StateInv

LEMMA LoopEnds ==
  ASSUME FreeInv, PreviewThreadFails \/ PreviewThreadEnds
  PROVE  FreeInv'
<1>1. /\ UNCHANGED <<todo, opened, preview_memory, previewStarted, recording_enabled, recording_memory,
                     picture_thread_running, picture_memory, mapped, driver, fds>>
      /\ preview_thread_started' = preview_thread_started \/ todo[PreviewLoop] = << >>
  BY DEF PreviewThreadFails, PreviewThreadEnds, PreviewIsOn, keptByFlags, recordingFlags, pictureFlags,
         pictureMaps
<1>2. mishaps \subseteq mishaps' /\ (preview_enabled' => preview_enabled)
  BY DEF PreviewThreadFails, PreviewThreadEnds, NodeFault, keptByFlags
<1> QED
  BY <1>1, <1>2, NobodyMoves

(* What only one of the actors does.                                         *)
LEMMA OnlyOne ==
  ASSUME NodesInv, NEW a \in Actors
  PROVE  /\ MapPicture(a) \/ PictureLock(a) => a # PreviewLoop
         /\ MapBuffers(a) => a \notin Stills
         /\ PreviewLock(a) \/ Wait(a) \/ Nested(a) \/ PreviewThread(a) \/ PictureThreadStarts(a) =>
              a = Caller
<1>1. CASE a = PreviewLoop
  <2>1. todo[a] # << >> =>
          Head(todo[a]).op \in Ioctls \cup {"memory", "release", "recording_on", "recording_off",
                                            "preview_failed"}
    BY <1>1, LoopFacts DEF NodesInv
  <2> QED
    BY <1>1, <2>1, ActorsAre DEF At, MapPicture, PictureLock, PreviewLock, Wait, Nested, PreviewThread,
       PictureThreadStarts, Ioctls, BufferIoctls, StreamIoctls, FormatIoctls, InputIoctls, ControlIoctls
<1>2. CASE a \in Stills
  <2>1. todo[a] # << >> => Head(todo[a]).op \in ThreadOps
    BY <1>2, StillFacts DEF NodesInv
  <2> QED
    BY <1>2, <2>1, ActorsAre DEF At, MapBuffers, PreviewLock, Wait, Nested, PreviewThread,
       PictureThreadStarts, ThreadOps, FillOps, Memories
<1> QED
  BY <1>1, <1>2, ActorsAre

-----------------------------------------------------------------------------
(* A step of the thread of a still.  While one lives, no call takes another  *)
(* without having been seen to overlap it.                                  *)
LEMMA StillKeeps ==
  ASSUME FreeInv, NEW s \in Stills, todo[s] # << >>, Rests(s), OrderInv', DriverType', MapInv',
         UNCHANGED <<opened, preview_memory, recording_memory, fds>>, mishaps \subseteq mishaps',
         preview_enabled' <=> preview_enabled, preview_thread_started' <=> preview_thread_started,
         previewStarted' <=> previewStarted, recording_enabled' <=> recording_enabled,
         driver'[2] = driver[2], driver'[0].buffers = driver[0].buffers,
         driver'[0].streaming => driver[0].streaming,
         driver'[0].streaming /\ ("picture_begin" \in T0 \/ "streamoff" \in T0) =>
           Dirty' \/ "picture_begin" \in T0' \/ "streamoff" \in T0',
         picture_thread_running' => Dirty' \/ "not_running" \in T0'
  PROVE  FreeInv'
<1>1. /\ UNCHANGED <<C0, C2, L0, L2, todo[PreviewLoop]>>
      /\ (Dirty => Dirty') /\ (DirtyMaps => DirtyMaps')
  BY ActorsAre DEF Rests, Dirty, DirtyMaps
<1>2. "picture_thread" \in C0 => Dirty
  BY DEF FreeInv, StateInv, ThreadInv, Alone
<1>3. StartInv'
  BY <1>1 DEF FreeInv, StateInv, StartInv
<1>4. PreviewInv'
  BY <1>1 DEF FreeInv, StateInv, PreviewInv, Started
<1>5. RecordingInv'
  BY <1>1 DEF FreeInv, StateInv, RecordingInv, Started
<1>6. StreamInv'
  <2>1. \A n \in Nodes : driver'[n].streaming => fds'[n] = "open" \/ Dirty'
    BY <1>1 DEF FreeInv, StateInv, StreamInv, Nodes
  <2> QED
    BY <1>1, <1>2, <2>1 DEF FreeInv, StateInv, StreamInv
<1>7. ThreadInv'
  BY <1>1, <1>2 DEF FreeInv, StateInv, ThreadInv
<1> QED
  BY <1>3, <1>4, <1>5, <1>6, <1>7 DEF FreeInv, StateInv

(* The mapping, as long as it does not change.                               *)
LEMMA MapStays ==
  ASSUME FreeInv, NEW s \in Stills, todo[s] # << >>, Rests(s), mishaps \subseteq mishaps',
         UNCHANGED <<mapped, picture_memory>>,
         "picture_begin" \in T0 \/ "release_picture" \in T0 =>
           DirtyMaps' \/ "picture_begin" \in T0' \/ "release_picture" \in T0'
  PROVE  MapInv'
<1>1. C0' = C0 /\ (DirtyMaps => DirtyMaps') /\ (Dirty => DirtyMaps)
  BY ActorsAre DEF Rests, Dirty, DirtyMaps
<1>2. "picture_thread" \in C0 => Dirty
  BY DEF FreeInv, StateInv, ThreadInv, Alone
<1> QED
  BY <1>1, <1>2 DEF FreeInv, StateInv, MapInv

LEMMA StillPasses ==
  ASSUME TodoType, FreeInv, NEW s \in Stills, todo[s] # << >>, Goes(s) \/ Fails(s),
         Head(todo[s]).op \notin {"picture_begin", "poll", "streamoff", "not_running", "release_picture"},
         UNCHANGED <<flagVars, driver, fds>>, mishaps \subseteq mishaps'
  PROVE  FreeInv'
<1>1. /\ Rests(s) /\ OrderInv'
      /\ \A x \in {"picture_begin", "streamoff", "not_running", "release_picture"} :
           x \in T0 => x \in T0'
  <2>1. CASE Goes(s)
    <3>1. Rests(s) /\ OrderInv' /\ \A x : x \in T0 => x \in T0' \/ x = Head(todo[s]).op
      BY <2>1, StillGoes DEF FreeInv
    <3> QED
      BY <3>1
  <2>2. CASE Fails(s)
    <3>1. /\ Rests(s) /\ OrderInv'
          /\ \A x \in {"not_running", "release_picture"} : x \in T0 => x \in T0' \/ x = Head(todo[s]).op
          /\ "streamoff" \in T0 => "streamoff" \in T0' \/ Head(todo[s]).op \in {"poll", "streamoff"}
          /\ "picture_begin" \in T0 => "picture_begin" \in T0' \/ Head(todo[s]).op = "picture_begin"
      BY <2>2, StillFails DEF FreeInv
    <3> QED
      BY <3>1
  <2> QED
    BY <2>1, <2>2
<1>2. MapInv'
  BY <1>1, MapStays DEF flagVars
<1>3. DriverType'
  BY DEF FreeInv, DriverType
<1>4. Dirty => Dirty'
  BY DEF Dirty
<1>5. picture_thread_running' => Dirty' \/ "not_running" \in T0'
  BY <1>1, <1>4 DEF FreeInv, StateInv, ThreadInv, flagVars
<1> QED
  BY <1>1, <1>2, <1>3, <1>5, StillKeeps DEF flagVars

LEMMA StillOperates ==
  ASSUME NodesInv, FreeInv, NEW s \in Stills, NodeOperation(s)
  PROVE  FreeInv'
<1> DEFINE o == Head(todo[s])
<1>1. todo[s] # << >> /\ o.op \in Ioctls /\ TodoType
  BY DEF NodeOperation, At, NodesInv
<1>2. o.op \in {"poll", "streamoff", "dqbuf", "g_ctrl"}
  <2>1. o.op \in ThreadOps
    BY <1>1, StillFacts DEF NodesInv
  <2> HIDE DEF o
  <2> QED
    BY <1>1, <2>1 DEF ThreadOps, FillOps, Memories, Ioctls, BufferIoctls, StreamIoctls, FormatIoctls,
       InputIoctls, ControlIoctls
<1>3. UNCHANGED flagVars
  BY DEF NodeOperation, previewFlags, pictureFlags, pictureMaps, flagVars
<1>4. o \in Ops /\ o.node = 0
  BY <1>1, StillHas DEF FreeInv, ThreadFaces
<1>5. \/ Accepts(o) /\ Reached(o) /\ Goes(s) /\ mishaps' = mishaps
      \/ /\ Fails(s) /\ UNCHANGED <<fds, driver>> /\ mishaps \subseteq mishaps'
         /\ Accepts(o) /\ o.op \in {"poll", "streamoff"} => Dirty'
  <2> HIDE DEF o
  <2>1. \/ Accepts(o) /\ Reached(o) /\ Goes(s) /\ NoFault
        \/ /\ Fails(s) /\ UNCHANGED <<fds, driver>>
           /\ IF Accepts(o) THEN NodeFault(o.op) ELSE NoFault
    BY DEF NodeOperation, o
  <2> QED
    BY <2>1 DEF NodeFault, NoFault, Dirty, Unclean
<1> HIDE DEF o
<1>6. CASE Accepts(o) /\ Reached(o) /\ Goes(s) /\ mishaps' = mishaps
  <2>1. Rests(s) /\ OrderInv' /\ \A x : x \in T0 => x \in T0' \/ x = o.op
    BY <1>1, <1>6, StillGoes DEF FreeInv, o
  <2>2. /\ DriverType' /\ driver'[2] = driver[2] /\ fds'[2] = fds[2] /\ fds'[0] = fds[0]
        /\ driver'[0].streaming = IF o.op = "streamoff" THEN FALSE ELSE driver[0].streaming
        /\ driver'[0].buffers = driver[0].buffers
    <3>1. /\ DriverType'
          /\ \A n \in Nodes : n # o.node => driver'[n] = driver[n] /\ fds'[n] = fds[n]
          /\ driver'[o.node].streaming =
               IF o.op \in {"open", "close", "streamoff"} THEN FALSE
               ELSE IF o.op = "streamon" THEN TRUE ELSE driver[o.node].streaming
          /\ driver'[o.node].buffers =
               IF o.op \in {"open", "close", "reqbufs0"} THEN FALSE
               ELSE IF o.op \in {"reqbufs", "reqbufs1"} THEN TRUE ELSE driver[o.node].buffers
          /\ fds'[o.node] = IF o.op = "open" THEN "open"
                            ELSE IF o.op = "close" THEN "closed" ELSE fds[o.node]
      BY <1>4, <1>6, ReachedIs DEF FreeInv
    <3>2. driver'[2] = driver[2] /\ fds'[2] = fds[2]
      BY <1>4, <3>1 DEF Nodes
    <3>3. o.op \notin {"open", "close", "reqbufs0", "reqbufs", "reqbufs1", "streamon"}
      BY <1>2
    <3> QED
      BY <1>4, <3>1, <3>2, <3>3
  <2>3. fds' = fds
    BY <1>2, <1>4, <1>6 DEF Reached, FreeInv, DriverType
  <2>4. MapInv'
    BY <1>1, <1>2, <1>3, <1>6, <2>1, MapStays DEF flagVars
  <2>5. Dirty' <=> Dirty
    BY <1>6 DEF Dirty
  <2>6. picture_thread_running' => Dirty' \/ "not_running" \in T0'
    BY <1>2, <1>3, <2>1, <2>5 DEF FreeInv, StateInv, ThreadInv, flagVars
  <2>7. driver'[0].streaming /\ ("picture_begin" \in T0 \/ "streamoff" \in T0) =>
           "picture_begin" \in T0' \/ "streamoff" \in T0'
    BY <1>2, <2>1, <2>2
  <2> QED
    BY <1>1, <1>3, <1>6, <2>1, <2>2, <2>3, <2>4, <2>6, <2>7, StillKeeps DEF flagVars
<1>7. CASE /\ Fails(s) /\ UNCHANGED <<fds, driver>> /\ mishaps \subseteq mishaps'
           /\ Accepts(o) /\ o.op \in {"poll", "streamoff"} => Dirty'
  <2>1. /\ Rests(s) /\ OrderInv'
        /\ \A x \in {"not_running", "release_picture"} : x \in T0 => x \in T0' \/ x = o.op
        /\ "streamoff" \in T0 => "streamoff" \in T0' \/ o.op \in {"poll", "streamoff"}
        /\ "picture_begin" \in T0 => "picture_begin" \in T0' \/ o.op = "picture_begin"
    BY <1>1, <1>7, StillFails DEF FreeInv, o
  <2>2. Dirty => Dirty'
    BY <1>7 DEF Dirty
  <2>3. o.op \in {"poll", "streamoff"} /\ driver[0].streaming => Dirty'
    <3>1. CASE Accepts(o)
      BY <1>7, <3>1
    <3>2. CASE ~Accepts(o)
      BY <1>4, <2>2, <3>2 DEF Accepts, FreeInv, StateInv, StreamInv, Nodes
    <3> QED
      BY <3>1, <3>2
  <2>4. MapInv'
    BY <1>1, <1>2, <1>3, <1>7, <2>1, MapStays DEF flagVars
  <2>5. DriverType'
    BY <1>7 DEF FreeInv, DriverType
  <2>6. picture_thread_running' => Dirty' \/ "not_running" \in T0'
    BY <1>2, <1>3, <2>1, <2>2 DEF FreeInv, StateInv, ThreadInv, flagVars
  <2>7. driver'[0].streaming /\ ("picture_begin" \in T0 \/ "streamoff" \in T0) =>
          Dirty' \/ "picture_begin" \in T0' \/ "streamoff" \in T0'
    BY <1>2, <1>7, <2>1, <2>3
  <2> QED
    BY <1>1, <1>3, <1>7, <2>1, <2>4, <2>5, <2>6, <2>7, StillKeeps DEF flagVars
<1> QED
  BY <1>5, <1>6, <1>7

(* The buffer that the thread releases is the only one mapped.               *)
LEMMA StillPictures ==
  ASSUME NodesInv, FreeInv, NEW s \in Stills, MapPicture(s)
  PROVE  FreeInv'
<1> DEFINE o == Head(todo[s])
<1>1. /\ todo[s] # << >> /\ TodoType /\ o.op \in {"release_picture", "clear_picture"}
      /\ o.op \notin {"release_old", "map_picture"}
  BY OnlyCalls, ActorsAre DEF MapPicture, At, NodesInv
<1>2. /\ UNCHANGED <<opened, preview_memory, recording_memory, fds, driver, preview_enabled,
                     preview_thread_started, previewStarted, recording_enabled,
                     picture_thread_running>>
      /\ mishaps' = mishaps
  BY <1>1 DEF MapPicture, At, NoFault, previewFlags, recordingFlags, pictureFlags
<1>3. /\ ThreadFaces(o, From(Tail(todo[s]), 1, 0), {}) /\ ThreadOrdered(Tail(todo[s]))
      /\ o.op = "release_picture" =>
           Tail(todo[s]) # << >> /\ Head(Tail(todo[s])).op = "clear_picture"
      /\ \A x : x \in From(todo[s], 1, 0) <=> x \in From(Tail(todo[s]), 1, 0) \/ x = o.op
      /\ Tail(todo[s]) \in Seq(Ops)
  BY <1>1, StillHas DEF FreeInv
<1>4. (Dirty' <=> Dirty) /\ (DirtyMaps' <=> DirtyMaps) /\ (Dirty => DirtyMaps)
  BY <1>2 DEF Dirty, DirtyMaps
<1>5. ASSUME Rests(s), OrderInv', MapInv',
             \A x \in {"picture_begin", "streamoff", "not_running"} : x \in T0 => x \in T0'
      PROVE  FreeInv'
  <2>1. DriverType'
    BY <1>2 DEF FreeInv, DriverType
  <2>2. picture_thread_running' => Dirty' \/ "not_running" \in T0'
    BY <1>2, <1>4, <1>5 DEF FreeInv, StateInv, ThreadInv
  <2> QED
    BY <1>1, <1>2, <1>5, <2>1, <2>2, StillKeeps
<1> HIDE DEF o
<1>6. CASE o.op = "clear_picture"
  <2>1. Goes(s) /\ mapped' = mapped
    BY <1>1, <1>6 DEF MapPicture, At, o
  <2>2. Rests(s) /\ OrderInv' /\ \A x : x \in T0 => x \in T0' \/ x = o.op
    BY <1>1, <2>1, StillGoes DEF FreeInv, o
  <2>3. "picture_begin" \in T0 \/ "release_picture" \in T0 => Dirty
    <3>1. ASSUME NEW x \in {"picture_begin", "release_picture"}, x \in T0 PROVE Dirty
      <4>1. PICK t \in Stills : x \in From(todo[t], 1, 0)
        BY <3>1 DEF T0
      <4>2. t # s
        BY <1>3, <1>6, <4>1 DEF ThreadFaces
      <4>3. todo[t] # << >>
        BY <4>1, FromNone
      <4> QED
        BY <1>1, <4>2, <4>3 DEF NodesInv, Running, Overlapped, Dirty, Unclean
    <3> QED
      BY <3>1
  <2>4. "picture_thread" \in C0 => Dirty
    BY <1>1 DEF FreeInv, StateInv, ThreadInv, Alone
  <2>5. MapInv'
    BY <1>4, <2>1, <2>3, <2>4 DEF FreeInv, StateInv, MapInv
  <2> QED
    BY <1>5, <1>6, <2>2, <2>5
<1>7. CASE o.op = "release_picture"
  <2>1. /\ mapped' = mapped \ {picture_memory} /\ UNCHANGED picture_memory
        /\ \E q \in {Tail(todo[s]), Tail(Tail(todo[s]))} : todo' = [todo EXCEPT ![s] = q]
    BY <1>1, <1>7, ActorsAre DEF MapPicture, At, TodoType, o
  <2>2. PICK q \in {Tail(todo[s]), Tail(Tail(todo[s]))} : todo' = [todo EXCEPT ![s] = q]
    BY <2>1
  <2>3. ThreadOrdered(q)
    BY <1>3, <1>7, ThreadOrderedTail
  <2>4. /\ Rests(s) /\ OrderInv' /\ From(q, 1, 0) \subseteq T0'
        /\ \A x : x \in T0 => x \in T0' \/ x \in From(todo[s], 1, 0)
    BY <1>1, <2>2, <2>3, StillRests DEF FreeInv
  <2>5. \A x : x \in From(todo[s], 1, 0) => x \in From(q, 1, 0) \/ x \in {"release_picture", "clear_picture"}
    <3>1. From(Tail(todo[s]), 1, 0) \subseteq From(Tail(Tail(todo[s])), 1, 0) \cup {"clear_picture"}
      <4> DEFINE r == Tail(todo[s])
      <4>1. r \in Seq(Ops) /\ r # << >> /\ Head(r).op = "clear_picture"
        BY <1>3, <1>7
      <4> HIDE DEF r
      <4>2. From(Tail(r), 1, 0) = From(r, 1 + 1, 0)
        BY <4>1, FromTail
      <4>3. From(r, 1, 0) = From(r, 2, 0) \cup (IF Head(r).node = 0 THEN {Head(r).op} ELSE {})
        BY <4>1, FromFirst
      <4>4. From(r, 1, 0) \subseteq From(Tail(r), 1, 0) \cup {"clear_picture"}
        BY <4>1, <4>2, <4>3
      <4> QED
        BY <4>4 DEF r
    <3> QED
      BY <1>3, <1>7, <3>1
  <2>6. MapInv'
    <3>1. mapped' # {} => DirtyMaps
      BY <2>1 DEF FreeInv, StateInv, MapInv
    <3> QED
      BY <1>4, <3>1 DEF MapInv
  <2>7. \A x \in {"picture_begin", "streamoff", "not_running"} : x \in T0 => x \in T0'
    BY <2>4, <2>5
  <2> QED
    BY <1>5, <2>4, <2>6, <2>7
<1> QED
  BY <1>1, <1>6, <1>7 DEF o

LEMMA StillFlags ==
  ASSUME NodesInv, FreeInv, NEW s \in Stills, SetFlags(s)
  PROVE  FreeInv'
<1> DEFINE o == Head(todo[s])
<1>1. todo[s] # << >> /\ TodoType /\ Goes(s)
  BY DEF SetFlags, At, NodesInv
<1>2. o.op \in {"not_running", "picture_disable", "not_started"}
  <2>1. o.op \in ThreadOps
    BY <1>1, StillFacts DEF NodesInv
  <2>2. o.op \in {"preview_reset", "preview_disable", "preview_failed", "started", "recording_on",
                  "recording_off", "picture_disable", "not_running", "not_started", "taken", "returned"}
    BY DEF SetFlags, At
  <2> HIDE DEF o
  <2> QED
    BY <2>1, <2>2 DEF ThreadOps, FillOps, Memories
<1>3. Rests(s) /\ OrderInv' /\ \A x : x \in T0 => x \in T0' \/ x = o.op
  BY <1>1, StillGoes DEF FreeInv
<1>4. /\ UNCHANGED <<opened, preview_memory, recording_memory, fds, driver, picture_memory, mapped, mishaps>>
      /\ preview_enabled' <=> preview_enabled
      /\ preview_thread_started' <=> preview_thread_started
      /\ previewStarted' <=> previewStarted
      /\ recording_enabled' <=> recording_enabled
      /\ picture_thread_running' <=> (picture_thread_running /\ o.op # "not_running")
  <2>1. \A ops : At(s, ops) <=> o.op \in ops
    BY <1>1 DEF At
  <2>2. UNCHANGED <<opened, preview_memory, recording_memory, fds, driver, picture_memory, mapped, mishaps>>
    BY DEF SetFlags, keptByFlags, pictureMaps
  <2>3. /\ preview_enabled' <=> preview_enabled
        /\ preview_thread_started' <=> preview_thread_started
        /\ previewStarted' <=> previewStarted
        /\ recording_enabled' <=> recording_enabled
        /\ picture_thread_running' <=> (picture_thread_running /\ o.op # "not_running")
    BY <1>2, <2>1 DEF SetFlags, Unless
  <2> QED
    BY <2>2, <2>3
<1> HIDE DEF o
<1>5. MapInv'
  BY <1>1, <1>2, <1>3, <1>4, MapStays
<1>6. DriverType'
  BY <1>4 DEF FreeInv, DriverType
<1>7. Dirty' <=> Dirty
  BY <1>4 DEF Dirty
<1>8. picture_thread_running' => Dirty' \/ "not_running" \in T0'
  BY <1>3, <1>4, <1>7 DEF FreeInv, StateInv, ThreadInv
<1>9. driver'[0].streaming /\ ("picture_begin" \in T0 \/ "streamoff" \in T0) =>
        "picture_begin" \in T0' \/ "streamoff" \in T0'
  BY <1>2, <1>3
<1> QED
  BY <1>1, <1>3, <1>4, <1>5, <1>6, <1>8, <1>9, StillKeeps

(* A thread has the whole of its program before it when it begins, and one   *)
(* that is cancelled by then leaves the stream and the buffer to nobody.    *)
LEMMA StillBegins ==
  ASSUME NodesInv, FreeInv, NEW s \in Stills, PictureThreadBegins(s)
  PROVE  FreeInv'
<1>1. todo[s] # << >> /\ Head(todo[s]).op = "picture_begin" /\ TodoType /\ PictureType
  BY DEF PictureThreadBegins, At, NodesInv
<1>2. UNCHANGED <<opened, preview_memory, recording_memory, fds, driver, preview_enabled,
                  preview_thread_started, previewStarted, recording_enabled, picture_memory, mapped>>
  BY DEF PictureThreadBegins, previewFlags, recordingFlags, pictureMaps
<1>3. Tail(todo[s]) = << >>
  <2>1. PICK P \in ThreadPrograms : \E k \in 1..(Len(Thread(P)) + 1) : On(s, P, k)
    BY DEF NodesInv, StillOK
  <2>2. PICK k \in 1..(Len(Thread(P)) + 1) : On(s, P, k)
    BY <2>1
  <2>3. /\ k \in 1..Len(Thread(P)) /\ Tail(todo[s]) = Rest(Thread(P), k + 1)
        /\ Goes1(P, k, Head(todo[s]), picture[s].memories, picture[s].encoder)
    BY <1>1, <2>2, StillHead
  <2>4. P = "begin"
    BY <1>1, <2>3 DEF Goes1
  <2>5. Len(Thread(P)) = 1 /\ Thread(P) \in Seq(Ops)
    BY <2>4, ThreadsAre DEF Thread, BeginThread
  <2>6. k = 1
    BY <2>3, <2>5
  <2> QED
    BY <2>3, <2>5, <2>6, RestEnds
<1>4. /\ todo'[s] = PictureThread \/ (todo'[s] = CancelledThread /\ Dirty')
      /\ todo' = [todo EXCEPT ![s] = todo'[s]] /\ mishaps \subseteq mishaps'
  <2>1. \/ todo' = [todo EXCEPT ![s] = PictureThread \o << >>] /\ mishaps' = mishaps
        \/ todo' = [todo EXCEPT ![s] = CancelledThread \o << >>] /\ mishaps' = mishaps \cup {"cancelled"}
    BY <1>1, <1>3, ActorsAre DEF PictureThreadBegins, GoesOn, TodoType, CancelledThread
  <2>2. PictureThread \o << >> = PictureThread /\ CancelledThread \o << >> = CancelledThread
    <3>1. PictureThread = Thread("thread") /\ CancelledThread = Thread("cancelled")
      BY FrontIs, RearIs DEF Thread
    <3>2. Thread("thread") \in Seq(Ops) /\ Thread("cancelled") \in Seq(Ops)
      BY ThreadsAre DEF ThreadPrograms
    <3> QED
      BY <3>1, <3>2, ConcatEmptySeq
  <2>3. "cancelled" \in mishaps' => Dirty'
    BY DEF Dirty, Unclean
  <2> QED
    BY <1>1, <2>1, <2>2, <2>3, ActorsAre DEF TodoType
<1> DEFINE q == todo'[s]
<1>5. /\ ThreadOrdered(q) /\ "not_running" \in From(q, 1, 0)
      /\ Dirty' \/ ("streamoff" \in From(q, 1, 0) /\ "release_picture" \in From(q, 1, 0))
  <2>1. CASE q = CancelledThread /\ Dirty'
    BY <2>1, CancelledThreadOrdered
  <2>2. CASE q = PictureThread
    BY <2>2, FrontIs, RearIs, FrontThreadOrdered, RearThreadOrdered
  <2> QED
    BY <1>4, <2>1, <2>2
<1> HIDE DEF q
<1>6. /\ Rests(s) /\ OrderInv' /\ From(q, 1, 0) \subseteq T0'
      /\ \A x : x \in T0 => x \in T0' \/ x \in From(todo[s], 1, 0)
  BY <1>1, <1>4, <1>5, StillRests DEF FreeInv, q
<1>7. \A x : x \in T0 => x \in T0' \/ x = "picture_begin"
  <2>1. \A x : x \in From(todo[s], 1, 0) <=> x \in From(<< >>, 1, 0) \/ x = "picture_begin"
    BY <1>1, <1>3, StillHas DEF FreeInv
  <2> QED
    BY <1>6, <2>1, FromNone
<1>8. "not_running" \in T0' /\ (Dirty' \/ ("streamoff" \in T0' /\ "release_picture" \in T0'))
  BY <1>5, <1>6
<1>9. MapInv'
  <2>1. Dirty' => DirtyMaps'
    BY DEF Dirty, DirtyMaps
  <2> QED
    BY <1>1, <1>2, <1>4, <1>6, <1>8, <2>1, MapStays
<1>10. DriverType'
  BY <1>2 DEF FreeInv, DriverType
<1> QED
  BY <1>1, <1>2, <1>4, <1>6, <1>8, <1>9, <1>10, StillKeeps

(* The rest of what a thread does leaves the nodes and their flags alone.    *)
LEMMA StillPlain ==
  ASSUME NodesInv, FreeInv, NEW s \in Stills, PictureLock(s) \/ Fill(s) \/ Callbacks(s)
  PROVE  FreeInv'
<1>1. /\ todo[s] # << >> /\ TodoType
      /\ Head(todo[s]).op \in FillOps \cup {"picture_lock", "picture_unlock", "callbacks"}
  BY DEF PictureLock, Fill, Callbacks, At, NodesInv, FillOps
<1>2. Head(todo[s]).op \notin {"picture_begin", "poll", "streamoff", "not_running", "release_picture"}
  BY <1>1 DEF FillOps, Memories
<1>3. /\ Goes(s) \/ Fails(s)
      /\ UNCHANGED <<flagVars, driver, fds>> /\ mishaps \subseteq mishaps'
  <2>1. CASE PictureLock(s) \/ Callbacks(s)
    BY <2>1 DEF PictureLock, Callbacks, keptByFlags, previewFlags, recordingFlags, pictureFlags,
       pictureMaps, flagVars
  <2>2. CASE Fill(s)
    BY <2>2 DEF Fill, NodeFault, NoFault, previewFlags, recordingFlags, pictureFlags,
       pictureMaps, flagVars
  <2> QED
    BY <2>1, <2>2
<1> QED
  BY <1>1, <1>2, <1>3, StillPasses

-----------------------------------------------------------------------------
(* Nobody has begun anything.                                                *)
LEMMA FreeStarts == NodesInit => FreeInv
<1> SUFFICES ASSUME NodesInit PROVE FreeInv
  OBVIOUS
<1>1. \A a \in Actors : todo[a] = << >>
  BY DEF NodesInit
<1>2. C0 = {} /\ C2 = {} /\ L0 = {} /\ L2 = {}
  BY <1>1, IdleIs, ActorsAre
<1>3. T0 = {}
  BY <1>1, AloneIs, ActorsAre DEF Alone
<1>4. OrderInv
  BY <1>1, ActorsAre DEF OrderInv, Ordered, LoopOrdered, ThreadOrdered
<1>5. DriverType
  BY DEF NodesInit, DriverType, Quiet
<1>6. \A n \in Nodes : ~driver[n].streaming
  BY DEF NodesInit, Quiet
<1>7. StartInv /\ PreviewInv /\ ThreadInv /\ MapInv
  BY <1>1, <1>2, ActorsAre DEF NodesInit, StartInv, PreviewInv, ThreadInv, MapInv
<1>8. RecordingInv /\ StreamInv
  BY <1>2, <1>6 DEF NodesInit, RecordingInv, StreamInv, Nodes
<1> QED
  BY <1>4, <1>5, <1>7, <1>8 DEF FreeInv, StateInv

LEMMA FreeKept == NodesInv /\ FreeInv /\ [NodesNext]_nodesVars => FreeInv'
<1> SUFFICES ASSUME NodesInv, FreeInv, [NodesNext]_nodesVars PROVE FreeInv'
  OBVIOUS
<1>1. TodoType
  BY DEF NodesInv
<1>2. ASSUME NEW a \in Actors,
             \/ NodeOperation(a) \/ MapBuffers(a) \/ MapPicture(a) \/ SetFlags(a)
             \/ PreviewLock(a) \/ PictureLock(a) \/ Wait(a) \/ Nested(a)
             \/ PreviewThread(a) \/ PictureThreadStarts(a)
      PROVE  FreeInv'
  <2>1. CASE a = Caller
    BY <1>1, <1>2, <2>1, CallerOperates, CallerBuffers, CallerPictures, CallerFlags, CallerLocks,
       CallerPlain, CallerNests, CallerThread, CallerTakes
  <2>2. CASE a = PreviewLoop
    BY <1>2, <2>2, OnlyOne, ActorsAre, LoopOperates, LoopBuffers, LoopFlags
  <2>3. CASE a \in Stills
    <3>1. NodeOperation(a) \/ MapPicture(a) \/ SetFlags(a) \/ PictureLock(a)
      BY <1>2, <2>3, OnlyOne, ActorsAre
    <3> QED
      BY <2>3, <3>1, StillOperates, StillPictures, StillFlags, StillPlain
  <2> QED
    BY <2>1, <2>2, <2>3, ActorsAre
<1>3. ASSUME NEW s \in Stills, PictureThreadBegins(s) \/ Fill(s) \/ Callbacks(s) PROVE FreeInv'
  BY <1>3, StillBegins, StillPlain
<1>4. CASE PreviewArms \/ PreviewThreadFails \/ PreviewThreadEnds
  BY <1>4, LoopArms, LoopEnds
<1>5. CASE OpenBackend \/ CloseBackend \/ OpenedOrFreed \/ ResetNodes \/ StartPreview \/ Flush \/ TakePicture
  BY <1>1, <1>5, CallResumes, CallStops, CallerTurns
<1>6. CASE UNCHANGED nodesVars
  BY <1>6, NobodyMoves DEF nodesVars, previewFlags, recordingFlags, pictureFlags, pictureMaps
<1> QED
  BY <1>2, <1>3, <1>4, <1>5, <1>6 DEF NodesNext

(* With nothing ahead and no preview there is nothing left of a call.        *)
LEMMA FreeIsFree == FreeInv => NodesAreFree
<1> SUFFICES ASSUME FreeInv, \A a \in Actors : todo[a] = << >>, ~previewStarted
             PROVE  /\ (driver[0].streaming \/ driver[2].streaming) => mishaps \cap Unclean # {}
                    /\ ~preview_memory /\ ~recording_memory
                    /\ mapped # {} => mishaps \cap (Unclean \cup Unmapped) # {}
  BY DEF NodesAreFree
<1>1. C0 = {} /\ C2 = {} /\ L0 = {} /\ L2 = {}
  BY IdleIs, ActorsAre
<1>2. T0 = {}
  BY AloneIs, ActorsAre DEF Alone
<1>3. ~preview_memory /\ ~recording_enabled
  BY <1>1 DEF FreeInv, StateInv, PreviewInv, RecordingInv, Started
<1>4. ~recording_memory
  BY <1>1, <1>3 DEF FreeInv, StateInv, RecordingInv
<1>5. driver[0].streaming \/ driver[2].streaming => Dirty
  BY <1>1, <1>2, <1>3 DEF FreeInv, StateInv, StreamInv, RecordingInv
<1>6. mapped # {} => DirtyMaps
  BY <1>1, <1>2 DEF FreeInv, StateInv, MapInv
<1> QED
  BY <1>3, <1>4, <1>5, <1>6 DEF Dirty, DirtyMaps

(* A call that failed anywhere, or succeeded, has given everything back, once*)
(* the threads it started are through as well: with no preview, no node      *)
(* streams and no buffer is mapped but for the failures that nobody cleans up*)
(* after (the stops of exynos_camera.c and the error paths of its starts).  *)
THEOREM NodesGiveBack == NodesSpec => []NodesAreFree
<1>1. NodesInit => NodesInv /\ FreeInv
  BY NodesStarts, FreeStarts
<1>2. NodesInv /\ FreeInv /\ [NodesNext]_nodesVars => (NodesInv /\ FreeInv)'
  BY NodesKept, FreeKept
<1>3. FreeInv => NodesAreFree
  BY FreeIsFree
<1> QED
  BY <1>1, <1>2, <1>3, PTL DEF NodesSpec
=============================================================================
