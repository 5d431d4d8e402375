--------------------------- MODULE FrameContract ---------------------------
(***************************************************************************)
(* What a camera device owes the framework for each capture request        *)
(* (camera3_callback_ops as camera3/Camera3.cpp uses it, in                *)
(* process_capture_request, sendResults, sendMetadata, sendRequestError     *)
(* and returnBufferError): every buffer comes back at most once, and a      *)
(* request is answered by its metadata or by a request error, never by      *)
(* both.                                                                   *)
(***************************************************************************)
EXTENDS Naturals

CONSTANT MaxRequests    \* bound: the number of requests

Requests == 1..MaxRequests
Kinds == {"preview", "video", "jpeg"}

VARIABLES
  submitted,  \* number of requests the framework has made
  owed,       \* owed[r][k]: how many buffers of kind k the device still has
  answer      \* answer[r]: which of "metadata" and "error" were sent

vars == <<submitted, owed, answer>>

Init ==
  /\ submitted = 0
  /\ owed = [r \in Requests |-> [k \in Kinds |-> 0]]
  /\ answer = [r \in Requests |-> {}]

(* The device takes over the buffers ks of the next request.                *)
Submit(ks) ==
  /\ submitted < MaxRequests
  /\ submitted' = submitted + 1
  /\ owed' = [owed EXCEPT ![submitted + 1] = [k \in Kinds |-> IF k \in ks THEN 1 ELSE 0]]
  /\ UNCHANGED answer

(* Refused on the spot: the error and all the buffers go back at once.       *)
Reject ==
  /\ submitted < MaxRequests
  /\ submitted' = submitted + 1
  /\ answer' = [answer EXCEPT ![submitted + 1] = {"error"}]
  /\ UNCHANGED owed

(* Buffers of a request go back, and a first answer may go with them.        *)
Result(r, ks) ==
  /\ r <= submitted
  /\ \A k \in ks : owed[r][k] = 1
  /\ owed' = [owed EXCEPT ![r] = [k \in Kinds |-> IF k \in ks THEN 0 ELSE @[k]]]
  /\ \/ UNCHANGED answer
     \/ /\ answer[r] = {}
        /\ \E a \in {"metadata", "error"} : answer' = [answer EXCEPT ![r] = {a}]
  /\ UNCHANGED submitted

Next ==
  \/ \E ks \in SUBSET Kinds : Submit(ks)
  \/ Reject
  \/ \E r \in Requests, ks \in SUBSET Kinds : Result(r, ks)

Spec == Init /\ [][Next]_vars
=============================================================================
