-------------------------- MODULE NetworkRecovery --------------------------
(***************************************************************************)
(* The network recovery of the RIL shim (shims/libsecril-shim/             *)
(* secril-shim.cpp): when an XMM626x modem stays unregistered without       *)
(* searching, the shim asks libsec-ril.so for an automatic network          *)
(* selection, after a delay and a bounded number of times.                  *)
(*                                                                         *)
(*   request   libril's thread in onRequestShim and onStateRequestShim      *)
(*   vendor    libsec-ril.so's thread in onRequestCompleteShim, and in      *)
(*             onStateRequestShim when it reports a new radio state         *)
(*   timer     libril's thread in networkRecoveryTimerCallback              *)
(*                                                                         *)
(* Timers and requests outlive the state that started them: a generation    *)
(* number tells the stale ones.  One action is one section under            *)
(* networkRecoveryMutex, or the code between two of them.  Delays are left  *)
(* out (a timer fires at any time), and everRegistered with them, which     *)
(* only chooses the first delay.                                           *)
(***************************************************************************)
EXTENDS Naturals

CONSTANTS
  MaxAttempts,     \* NETWORK_RECOVERY_MAX_ATTEMPTS
  MaxGenerations   \* bound: the generation that is not left any more

ASSUME BoundAssumption == MaxAttempts \in Nat /\ MaxGenerations \in Nat \ {0}

Generations == 1..MaxGenerations
Threads     == {"request", "vendor", "timer"}
(* The registration states that matter, and -1 (no valid reply).            *)
RegStates   == {"unknown", "registered", "not_searching", "other"}
(* The vendor's radio states; those of a locked SIM, of RUIM and of NV have   *)
(* the effect of "not_ready".                                              *)
RadioStates == {"off", "unavailable", "not_ready", "ready", "on"}
NoNote      == [on |-> FALSE, ready |-> FALSE]

VARIABLES
  pc,                 \* where each thread is
  local,              \* the generation in its hands
  noted,              \* the radio state it is about to record
  voiceState, dataState, radioOn, simReady, selectionKnown, selectionAutomatic,
  callActive, timerPending, requestInFlight, attempts, generation,
  simRuimReady,       \* simRuimStatus = RADIO_STATE_SIM_READY
  timers,             \* timers[g]: timed callbacks waiting, of generation g
  requests,           \* requests[g]: requests in the hands of libsec-ril.so
  starved             \* history: a calloc() failed

facts == <<voiceState, dataState, radioOn, simReady, selectionKnown, selectionAutomatic,
           callActive>>
marks == <<timerPending, requestInFlight, attempts, generation>>
away  == <<timers, requests>>
vars  == <<pc, local, noted, facts, marks, simRuimReady, away, starved>>

Init ==
  /\ pc = [t \in Threads |-> "idle"] /\ local = [t \in Threads |-> 1]
  /\ noted = [t \in Threads |-> NoNote]
  /\ voiceState = "unknown" /\ dataState = "unknown"
  /\ radioOn = FALSE /\ simReady = FALSE
  /\ selectionKnown = FALSE /\ selectionAutomatic = FALSE /\ callActive = FALSE
  /\ timerPending = FALSE /\ requestInFlight = FALSE /\ attempts = 0 /\ generation = 1
  /\ simRuimReady = FALSE
  /\ timers = [g \in Generations |-> 0] /\ requests = [g \in Generations |-> 0]
  /\ starved = FALSE

(* networkRecoveryConditionsLocked                                         *)
ConditionsUnbounded ==
  /\ radioOn /\ simReady /\ selectionKnown /\ selectionAutomatic
  /\ ~callActive /\ ~requestInFlight
  /\ voiceState = "not_searching" /\ dataState = "not_searching"

Conditions ==
  /\ radioOn /\ simReady /\ selectionKnown /\ selectionAutomatic
  /\ ~callActive /\ ~requestInFlight
  /\ voiceState = "not_searching" /\ dataState = "not_searching"
  /\ attempts < MaxAttempts

Goto(t, place) == pc' = [pc EXCEPT ![t] = place]

(* invalidateNetworkRecoveryLocked                                         *)
InvalidateKeepingGeneration(resetAttempts) ==
  /\ timerPending' = FALSE /\ requestInFlight' = FALSE
  /\ attempts' = IF resetAttempts THEN 0 ELSE attempts
  /\ UNCHANGED generation
Invalidate(resetAttempts) ==
  /\ generation < MaxGenerations
  /\ generation' = generation + 1
  /\ timerPending' = FALSE /\ requestInFlight' = FALSE
  /\ attempts' = IF resetAttempts THEN 0 ELSE attempts

(* Bound: a radio state that was noted keeps a generation for its recording.  *)
Reserved(t) == IF pc[t] = "radio" /\ ~noted[t].ready THEN 1 ELSE 0
Room        == generation + Reserved("request") + Reserved("vendor") < MaxGenerations

(* Each update is a section under the mutex; after some of them the thread   *)
(* goes on to scheduleNetworkRecovery().                                    *)
AndSchedule(t, wanted) == Goto(t, IF wanted THEN "schedule" ELSE "idle")
-----------------------------------------------------------------------------
(* Updates                                                                 *)

UpdateRegistration(voice, state) ==
  /\ pc["vendor"] = "idle"
  /\ voiceState' = IF voice THEN state ELSE voiceState
  /\ dataState' = IF voice THEN dataState ELSE state
  /\ IF state = "registered" THEN Room /\ Invalidate(TRUE) ELSE UNCHANGED marks
  /\ AndSchedule("vendor", state # "registered")
  /\ UNCHANGED <<local, noted, radioOn, simReady, selectionKnown, selectionAutomatic,
                 callActive, simRuimReady, away, starved>>

(* simRuimStatus has no lock: what a thread made of it is recorded later.    *)
Note(t, on, ready) ==
  /\ pc[t] = "idle" /\ (ready \/ Room)
  /\ noted' = [noted EXCEPT ![t] = [on |-> on, ready |-> ready]]
  /\ Goto(t, "radio")
  /\ UNCHANGED <<local, facts, marks, away, starved>>

(* RIL_REQUEST_RADIO_POWER, before it is forwarded.                         *)
RadioPower(on) == Note("request", on, on /\ simRuimReady) /\ UNCHANGED simRuimReady

(* onStateRequestShim: processRadioState of what the vendor says.            *)
ProcessRadioState(t, state) ==
  /\ simRuimReady' = IF state \in {"not_ready", "ready"} THEN state = "ready" ELSE simRuimReady
  /\ Note(t, state # "off", state = "ready" \/ (state = "on" /\ simRuimReady))

UpdateRadioState(t) ==
  LET on    == noted[t].on
      ready == noted[t].ready IN
  /\ pc[t] = "radio"
  /\ IF ~on \/ ~ready
     THEN /\ Invalidate(TRUE)
          /\ voiceState' = "unknown" /\ dataState' = "unknown"
     ELSE UNCHANGED <<marks, voiceState, dataState>>
  /\ radioOn' = on /\ simReady' = ready
  /\ noted' = [noted EXCEPT ![t] = NoNote]
  /\ AndSchedule(t, on /\ ready)
  /\ UNCHANGED <<local, selectionKnown, selectionAutomatic, callActive, simRuimReady, away,
                 starved>>

UpdateSelectionMode(t, automatic, resetAttempts) ==
  /\ pc[t] = "idle"
  /\ selectionKnown' = TRUE /\ selectionAutomatic' = automatic
  /\ IF ~automatic \/ resetAttempts THEN Room /\ Invalidate(resetAttempts) ELSE UNCHANGED marks
  /\ AndSchedule(t, automatic)
  /\ UNCHANGED <<local, noted, voiceState, dataState, radioOn, simReady, callActive,
                 simRuimReady, away, starved>>

(* RIL_REQUEST_SET_NETWORK_SELECTION_AUTOMATIC and _MANUAL, and the reply to *)
(* RIL_REQUEST_QUERY_NETWORK_SELECTION_MODE.                                *)
SetSelection(automatic)   == UpdateSelectionMode("request", automatic, TRUE)
SelectionReply(automatic) == UpdateSelectionMode("vendor", automatic, FALSE)

(* The reply to RIL_REQUEST_GET_CURRENT_CALLS.                              *)
UpdateCallStateNotInvalidating(active) ==
  /\ pc["vendor"] = "idle"
  /\ callActive' = active
  /\ UNCHANGED marks
  /\ AndSchedule("vendor", ~active)
  /\ UNCHANGED <<local, noted, voiceState, dataState, radioOn, simReady, selectionKnown,
                 selectionAutomatic, simRuimReady, away, starved>>

UpdateCallState(active) ==
  /\ pc["vendor"] = "idle"
  /\ callActive' = active
  /\ IF active THEN Room /\ Invalidate(FALSE) ELSE UNCHANGED marks
  /\ AndSchedule("vendor", ~active)
  /\ UNCHANGED <<local, noted, voiceState, dataState, radioOn, simReady, selectionKnown,
                 selectionAutomatic, simRuimReady, away, starved>>
-----------------------------------------------------------------------------
(* scheduleNetworkRecovery, on the thread of the update                     *)

ScheduleTwice(t) ==
  /\ pc[t] = "schedule"
  /\ IF Conditions
     THEN /\ timerPending' = TRUE
          /\ local' = [local EXCEPT ![t] = generation]
          /\ Goto(t, "arm")
     ELSE Goto(t, "idle") /\ UNCHANGED <<timerPending, local>>
  /\ UNCHANGED <<noted, facts, requestInFlight, attempts, generation, simRuimReady, away,
                 starved>>

Schedule(t) ==
  /\ pc[t] = "schedule"
  /\ IF Conditions /\ ~timerPending
     THEN /\ timerPending' = TRUE
          /\ local' = [local EXCEPT ![t] = generation]
          /\ Goto(t, "arm")
     ELSE Goto(t, "idle") /\ UNCHANGED <<timerPending, local>>
  /\ UNCHANGED <<noted, facts, requestInFlight, attempts, generation, simRuimReady, away,
                 starved>>

(* calloc() of the timer failed: nothing pending, in a section of its own.   *)
ForgetTimer(t) ==
  /\ timerPending' = (timerPending /\ local[t] # generation)
  /\ starved' = TRUE
  /\ UNCHANGED timers

Arm(t) ==
  /\ pc[t] = "arm"
  /\ \/ /\ timers' = [timers EXCEPT ![local[t]] = @ + 1]
        /\ UNCHANGED <<timerPending, starved>>
     \/ ForgetTimer(t)
  /\ Goto(t, "idle")
  /\ UNCHANGED <<local, noted, facts, requestInFlight, attempts, generation, simRuimReady,
                 requests>>
-----------------------------------------------------------------------------
(* networkRecoveryTimerCallback                                            *)

TimerFires(g) ==
  /\ pc["timer"] = "idle" /\ timers[g] > 0
  /\ timers' = [timers EXCEPT ![g] = @ - 1]
  /\ local' = [local EXCEPT !["timer"] = g]
  /\ Goto("timer", "fired")
  /\ UNCHANGED <<noted, facts, marks, simRuimReady, requests, starved>>

(* The section decides; the request is sent after it.                       *)
TimerDecides ==
  LET current == local["timer"] = generation
      issue   == current /\ Conditions IN
  /\ pc["timer"] = "fired"
  /\ \/ /\ timerPending' = (timerPending /\ ~current)
        /\ requestInFlight' = (requestInFlight \/ issue)
        /\ attempts' = IF issue THEN attempts + 1 ELSE attempts
        /\ Goto("timer", IF issue THEN "send" ELSE "idle")
        /\ UNCHANGED <<timers, starved>>
     \/ /\ ForgetTimer("timer")
        /\ Goto("timer", "idle")
        /\ UNCHANGED <<requestInFlight, attempts>>
  /\ UNCHANGED <<local, noted, facts, generation, simRuimReady, requests>>

SendRequest ==
  /\ pc["timer"] = "send"
  /\ requests' = [requests EXCEPT ![local["timer"]] = @ + 1]
  /\ Goto("timer", "idle")
  /\ UNCHANGED <<local, noted, facts, marks, simRuimReady, timers, starved>>

(* onRequestCompleteNetworkRecovery                                        *)
RequestCompleteForgotten(g) ==
  /\ pc["vendor"] = "idle" /\ requests[g] > 0
  /\ requests' = [requests EXCEPT ![g] = @ - 1]
  /\ requestInFlight' = (requestInFlight /\ g # generation)
  /\ Goto("vendor", "idle")
  /\ UNCHANGED <<local, noted, facts, timerPending, attempts, generation, simRuimReady, timers,
                 starved>>

RequestComplete(g) ==
  /\ pc["vendor"] = "idle" /\ requests[g] > 0
  /\ requests' = [requests EXCEPT ![g] = @ - 1]
  /\ requestInFlight' = (requestInFlight /\ g # generation)
  /\ AndSchedule("vendor", g = generation)
  /\ UNCHANGED <<local, noted, facts, timerPending, attempts, generation, simRuimReady, timers,
                 starved>>
-----------------------------------------------------------------------------
Updates ==
  \/ \E on \in BOOLEAN : RadioPower(on)
  \/ \E t \in {"request", "vendor"}, state \in RadioStates : ProcessRadioState(t, state)
  \/ \E automatic \in BOOLEAN : SetSelection(automatic) \/ SelectionReply(automatic)
  \/ \E active \in BOOLEAN : UpdateCallState(active)
  \/ \E voice \in BOOLEAN, state \in RegStates : UpdateRegistration(voice, state)

Caller(t) == UpdateRadioState(t) \/ Schedule(t) \/ Arm(t)
Timer     == (\E g \in Generations : TimerFires(g)) \/ TimerDecides \/ SendRequest

Next ==
  \/ Updates
  \/ Caller("request") \/ Caller("vendor")
  \/ Timer
  \/ \E g \in Generations : RequestComplete(g)

Spec == Init /\ [][Next]_vars

(* The threads run; the modem and Android may say nothing any more.         *)
FairSpec ==
  Spec /\ WF_vars(Caller("request")) /\ WF_vars(Caller("vendor")) /\ WF_vars(Timer)
-----------------------------------------------------------------------------
TypeOK ==
  /\ pc \in [Threads -> {"idle", "radio", "schedule", "arm", "fired", "send"}]
  /\ local \in [Threads -> Generations]
  /\ noted \in [Threads -> [on : BOOLEAN, ready : BOOLEAN]]
  /\ voiceState \in RegStates /\ dataState \in RegStates
  /\ radioOn \in BOOLEAN /\ simReady \in BOOLEAN /\ selectionKnown \in BOOLEAN
  /\ selectionAutomatic \in BOOLEAN /\ callActive \in BOOLEAN
  /\ timerPending \in BOOLEAN /\ requestInFlight \in BOOLEAN
  /\ attempts \in 0..MaxAttempts /\ generation \in Generations
  /\ simRuimReady \in BOOLEAN /\ starved \in BOOLEAN
  /\ timers \in [Generations -> Nat] /\ requests \in [Generations -> Nat]

(* Who has a timer or a request of generation g: the queue of timed          *)
(* callbacks, libsec-ril.so, or a thread on its way there or back.          *)
Holds(t, place, g) == IF pc[t] = place /\ local[t] = g THEN 1 ELSE 0
TimersOf(g)   == timers[g] + Holds("request", "arm", g) + Holds("vendor", "arm", g)
                 + Holds("timer", "fired", g)
RequestsOf(g) == requests[g] + Holds("timer", "send", g)

(* A generation never has two timers, two requests, or both: whatever the    *)
(* order in which updates, timers and completions meet, the recovery of one  *)
(* generation is one chain of steps.                                        *)
OneChain == \A g \in Generations : TimersOf(g) + RequestsOf(g) <= 1

(* networkRecoveryTimerPending and networkRecoveryRequestInFlight say what    *)
(* is really under way in the current generation: a mark that stays behind   *)
(* would stop the recovery for good, one that is lost would start a second.  *)
MarksAreExact ==
  \A g \in Generations : g = generation =>
    /\ timerPending <=> TimersOf(g) = 1
    /\ requestInFlight <=> RequestsOf(g) = 1

(* While a call is active, the radio or the SIM is not there, selection is    *)
(* manual or unknown, or one domain is registered, nothing of the current    *)
(* generation is under way: a timer that still fires finds itself stale.     *)
QuietWhenBlocked ==
  \/ callActive \/ ~radioOn \/ ~simReady \/ ~selectionKnown \/ ~selectionAutomatic
  \/ voiceState = "registered" \/ dataState = "registered"
  => ~timerPending /\ ~requestInFlight

(* A modem that is stuck is asked again: as long as no allocation fails, the *)
(* conditions of the recovery do not last, because an attempt is made or     *)
(* because the modem or Android report something else.                      *)
StuckIsRetried == Conditions /\ ~starved ~> ~Conditions \/ starved
=============================================================================
