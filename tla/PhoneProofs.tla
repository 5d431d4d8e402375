---------------------------- MODULE PhoneProofs -----------------------------
(***************************************************************************)
(* Proofs about the shims of the phone: SapSession, JavaRil, GpsShim,       *)
(* RilRequests and NetworkRecovery, which share no state.                   *)
(***************************************************************************)
EXTENDS SapSession, JavaRil, GpsShim, RilRequests, NetworkRecovery, TLAPS
-----------------------------------------------------------------------------
(***************************************************************************)
(* Proofs about SapSession, for any number of requests and failing          *)
(* allocations.  A request is in one place at a time: with the SAP thread,  *)
(* with a command on its way to the vendor, or with the vendor's completion;*)
(* and each place knows whether the client has its answer yet.  A CONNECT   *)
(* that goes on to its card reset after the answer is the case that needs   *)
(* the command to tell.                                                     *)
(***************************************************************************)
AnswersOf(thread) == IF thread.at = "assign" THEN 1 ELSE 0

TokenInv(t) ==
  /\ sapRequest[t] = "none" =>
       sapAnswers[t] = 0 /\ sapAt[t] = "idle" /\ sapThread.token # t /\ sapVendor.token # t
  /\ sapThread.token = t => sapAt[t] = "idle" /\ sapAnswers[t] = AnswersOf(sapThread)
  /\ sapVendor.token = t <=> sapAt[t] = "replied"
  /\ sapVendor.token = t => sapAnswers[t] = AnswersOf(sapVendor)
  /\ sapAt[t] \in {"timed", "vendor"} =>
       sapAnswers[t] = IF sapCommand[t] = "connectReset" THEN 1 ELSE 0
  /\ sapAnswers[t] <= 1 /\ sapAt[t] # "stuck"
  /\ sapParam[t] <=> sapAt[t] # "idle"

SapInv == SapTypeOK /\ \A t \in SapTokens : TokenInv(t)

LEMMA IdleIsThread == ThreadOK(Idle)
  BY DEF ThreadOK, Idle

LEMMA DoingIsThread ==
  ASSUME NEW step \in {"start", "answer", "assign"}, NEW t \in SapTokens, NEW ok \in BOOLEAN
  PROVE  ThreadOK(Doing(step, t, ok))
  BY DEF ThreadOK, Doing, Idle

LEMMA AnsweringIsThread ==
  ASSUME NEW thread, ThreadOK(thread), thread.at = "answer"
  PROVE  ThreadOK([thread EXCEPT !.at = "assign"])
  BY DEF ThreadOK, Idle

LEMMA NoMemoryIsBounded ==
  ASSUME SapTypeOK, NoMemory PROVE sapNoMemory' \in 0..MaxNoMemory
  BY MaxNoMemoryAssumption DEF SapTypeOK, NoMemory

LEMMA SapReceiveKeeps == ASSUME SapInv, NEW u \in SapTokens, SapReceive(u) PROVE SapInv'
<1>1. SapTypeOK'
  BY IdleIsThread, DoingIsThread, AnsweringIsThread, MaxNoMemoryAssumption
     DEF SapInv, SapTypeOK, SapReceive, SapKinds, SapCommands, ConnectionStates
<1>2. ASSUME NEW t \in SapTokens PROVE TokenInv(t)'
  <2>1. CASE t = u
    <3>1. PICK kind \in SapKinds, step \in {"answer", "start"} :
            /\ sapThread' = Doing(step, t, TRUE)
            /\ sapRequest' = [sapRequest EXCEPT ![t] = kind]
      BY <2>1 DEF SapReceive
    <3>2. sapThread'.token = t /\ AnswersOf(sapThread') = 0
      BY <3>1 DEF AnswersOf, Doing
    <3>3. sapAnswers[t] = 0 /\ sapAt[t] = "idle" /\ sapVendor.token # t
      BY <2>1 DEF SapInv, TokenInv, SapReceive
    <3>4. sapRequest'[t] # "none"
      BY <3>1 DEF SapKinds, SapInv, SapTypeOK
    <3>5. UNCHANGED <<sapAnswers, sapAt, sapVendor, sapCommand, sapParam>>
      BY DEF SapReceive
    <3>6. sapParam[t] <=> sapAt[t] # "idle"
      BY DEF SapInv, TokenInv
    <3> QED
      BY <3>2, <3>3, <3>4, <3>5, <3>6 DEF TokenInv, AnswersOf
  <2>2. CASE t # u
    BY <2>2, SapTokensAssumption
       DEF SapInv, SapTypeOK, TokenInv, AnswersOf, ThreadOK, SapReceive, Doing, Idle
  <2> QED
    BY <2>1, <2>2
<1> QED
  BY <1>1, <1>2 DEF SapInv

LEMMA SapRefuseKeeps == ASSUME SapInv, NEW u \in SapTokens, SapRefuse(u) PROVE SapInv'
<1>1. SapTypeOK'
  BY IdleIsThread, DoingIsThread, AnsweringIsThread, MaxNoMemoryAssumption
     DEF SapInv, SapTypeOK, SapRefuse, SapKinds, SapCommands, ConnectionStates, Answer
<1>2. ASSUME NEW t \in SapTokens PROVE TokenInv(t)'
  <2>1. CASE t = u
    BY <2>1, SapTokensAssumption
       DEF SapInv, SapTypeOK, TokenInv, AnswersOf, ThreadOK, SapRefuse, Answer, Doing, Idle
  <2>2. CASE t # u
    BY <2>2, SapTokensAssumption
       DEF SapInv, SapTypeOK, TokenInv, AnswersOf, ThreadOK, SapRefuse, Answer, Doing, Idle
  <2> QED
    BY <2>1, <2>2
<1> QED
  BY <1>1, <1>2 DEF SapInv

LEMMA SapStartKeeps == ASSUME SapInv, NEW u \in SapTokens, SapStart(u) PROVE SapInv'
<1>1. SapTypeOK'
  BY IdleIsThread, DoingIsThread, AnsweringIsThread, MaxNoMemoryAssumption
     DEF SapInv, SapTypeOK, SapStart, SapKinds, SapCommands, ConnectionStates,
            SendSapRequest, Entered, FirstCommand, Allocated
<1>2. ASSUME NEW t \in SapTokens PROVE TokenInv(t)'
  <2>1. CASE t = u
    BY <2>1, SapTokensAssumption
       DEF SapInv, SapTypeOK, TokenInv, AnswersOf, ThreadOK, SapStart, SendSapRequest,
              Entered, FirstCommand, Allocated, Doing, Idle
  <2>2. CASE t # u
    BY <2>2, SapTokensAssumption
       DEF SapInv, SapTypeOK, TokenInv, AnswersOf, ThreadOK, SapStart, SendSapRequest,
              Entered, FirstCommand, Allocated, Doing, Idle
  <2> QED
    BY <2>1, <2>2
<1> QED
  BY <1>1, <1>2 DEF SapInv

LEMMA SapStartFailsKeeps == ASSUME SapInv, NEW u \in SapTokens, SapStartFails(u)
  PROVE SapInv'
<1>1. SapTypeOK'
  <2>1. sapNoMemory' \in 0..MaxNoMemory
    BY NoMemoryIsBounded DEF SapInv, SapStartFails
  <2>2. ThreadOK(sapThread')
    <3>1. sapThread' = Doing("answer", u, FALSE) \/ sapThread' = Idle
      BY DEF SapStartFails
    <3> QED
      BY <3>1, IdleIsThread, DoingIsThread
  <2>3. sapAt' \in [SapTokens -> {"idle", "timed", "vendor", "replied", "stuck"}]
        /\ sapCommand' \in [SapTokens -> SapCommands \cup {"none"}]
        /\ sapParam' \in [SapTokens -> BOOLEAN]
    BY DEF SapInv, SapTypeOK, SapStartFails, SendSapRequest, SapCommands
  <2>4. sapState' \in ConnectionStates
    BY DEF SapInv, SapTypeOK, SapStartFails, Entered, ConnectionStates
  <2> QED
    BY <2>1, <2>2, <2>3, <2>4 DEF SapInv, SapTypeOK, SapStartFails, ThreadOK
<1>2. ASSUME NEW t \in SapTokens PROVE TokenInv(t)'
  <2>1. CASE t = u
    BY <2>1, SapTokensAssumption
       DEF SapInv, SapTypeOK, TokenInv, AnswersOf, ThreadOK, SapStartFails,
              SendSapRequest, Entered, NoMemory, Doing, Idle
  <2>2. CASE t # u
    BY <2>2, SapTokensAssumption
       DEF SapInv, SapTypeOK, TokenInv, AnswersOf, ThreadOK, SapStartFails,
              SendSapRequest, Entered, NoMemory, Doing, Idle
  <2> QED
    BY <2>1, <2>2
<1> QED
  BY <1>1, <1>2 DEF SapInv

LEMMA SapAnswerKeeps == ASSUME SapInv, NEW u \in SapTokens, SapAnswer(u) PROVE SapInv'
<1>1. SapTypeOK'
  BY IdleIsThread, DoingIsThread, AnsweringIsThread, MaxNoMemoryAssumption
     DEF SapInv, SapTypeOK, SapAnswer, SapKinds, SapCommands, ConnectionStates, Answer
<1>2. ASSUME NEW t \in SapTokens PROVE TokenInv(t)'
  <2>1. CASE t = u
    BY <2>1, SapTokensAssumption
       DEF SapInv, SapTypeOK, TokenInv, AnswersOf, ThreadOK, SapAnswer, Answer, Idle
  <2>2. CASE t # u
    BY <2>2, SapTokensAssumption
       DEF SapInv, SapTypeOK, TokenInv, AnswersOf, ThreadOK, SapAnswer, Answer, Idle
  <2> QED
    BY <2>1, <2>2
<1> QED
  BY <1>1, <1>2 DEF SapInv

LEMMA SapAssignKeeps == ASSUME SapInv, NEW u \in SapTokens, SapAssign(u) PROVE SapInv'
<1>1. SapTypeOK'
  BY IdleIsThread, DoingIsThread, AnsweringIsThread, MaxNoMemoryAssumption
     DEF SapInv, SapTypeOK, SapAssign, SapKinds, SapCommands, ConnectionStates, StateAfter
<1>2. ASSUME NEW t \in SapTokens PROVE TokenInv(t)'
  <2>1. CASE t = u
    BY <2>1, SapTokensAssumption
       DEF SapInv, SapTypeOK, TokenInv, AnswersOf, ThreadOK, SapAssign, StateAfter, Idle
  <2>2. CASE t # u
    BY <2>2, SapTokensAssumption
       DEF SapInv, SapTypeOK, TokenInv, AnswersOf, ThreadOK, SapAssign, StateAfter, Idle
  <2> QED
    BY <2>1, <2>2
<1> QED
  BY <1>1, <1>2 DEF SapInv

LEMMA SapTimedKeeps == ASSUME SapInv, NEW u \in SapTokens, SapTimed(u) PROVE SapInv'
<1>1. SapTypeOK'
  BY IdleIsThread, DoingIsThread, AnsweringIsThread, MaxNoMemoryAssumption
     DEF SapInv, SapTypeOK, SapTimed, SapKinds, SapCommands, ConnectionStates
<1>2. ASSUME NEW t \in SapTokens PROVE TokenInv(t)'
  <2>1. CASE t = u
    BY <2>1, SapTokensAssumption
       DEF SapInv, SapTypeOK, TokenInv, AnswersOf, ThreadOK, SapTimed
  <2>2. CASE t # u
    BY <2>2, SapTokensAssumption
       DEF SapInv, SapTypeOK, TokenInv, AnswersOf, ThreadOK, SapTimed
  <2> QED
    BY <2>1, <2>2
<1> QED
  BY <1>1, <1>2 DEF SapInv

LEMMA SapTimedFailsKeeps == ASSUME SapInv, NEW u \in SapTokens, SapTimedFails(u)
  PROVE SapInv'
<1>1. SapTypeOK'
  BY IdleIsThread, DoingIsThread, AnsweringIsThread, MaxNoMemoryAssumption
     DEF SapInv, SapTypeOK, SapTimedFails, SapKinds, SapCommands, ConnectionStates,
            NoMemory, NoCommand, Answer
<1>2. ASSUME NEW t \in SapTokens PROVE TokenInv(t)'
  <2>1. CASE t = u
    BY <2>1, SapTokensAssumption
       DEF SapInv, SapTypeOK, TokenInv, AnswersOf, ThreadOK, SapTimedFails, NoMemory,
              NoCommand, Answer
  <2>2. CASE t # u
    BY <2>2, SapTokensAssumption
       DEF SapInv, SapTypeOK, TokenInv, AnswersOf, ThreadOK, SapTimedFails, NoMemory,
              NoCommand, Answer
  <2> QED
    BY <2>1, <2>2
<1> QED
  BY <1>1, <1>2 DEF SapInv

LEMMA VendorReplyKeeps == ASSUME SapInv, NEW u \in SapTokens, VendorReply(u) PROVE SapInv'
<1>1. SapTypeOK'
  BY IdleIsThread, DoingIsThread, AnsweringIsThread, MaxNoMemoryAssumption
     DEF SapInv, SapTypeOK, VendorReply, SapKinds, SapCommands, ConnectionStates, LinkAfter
<1>2. ASSUME NEW t \in SapTokens PROVE TokenInv(t)'
  <2>1. CASE t = u
    BY <2>1, SapTokensAssumption
       DEF SapInv, SapTypeOK, TokenInv, AnswersOf, ThreadOK, VendorReply, LinkAfter,
              Doing, Idle
  <2>2. CASE t # u
    BY <2>2, SapTokensAssumption
       DEF SapInv, SapTypeOK, TokenInv, AnswersOf, ThreadOK, VendorReply, LinkAfter,
              Doing, Idle
  <2> QED
    BY <2>1, <2>2
<1> QED
  BY <1>1, <1>2 DEF SapInv

LEMMA CardResetKeeps == ASSUME SapInv, NEW u \in SapTokens, CardReset(u) PROVE SapInv'
<1>1. SapTypeOK'
  BY IdleIsThread, DoingIsThread, AnsweringIsThread, MaxNoMemoryAssumption
     DEF SapInv, SapTypeOK, CardReset, SapKinds, SapCommands, ConnectionStates, NoCommand
<1>2. ASSUME NEW t \in SapTokens PROVE TokenInv(t)'
  <2>1. CASE t = u
    BY <2>1, SapTokensAssumption
       DEF SapInv, SapTypeOK, TokenInv, AnswersOf, ThreadOK, CardReset, NoCommand
  <2>2. CASE t # u
    BY <2>2, SapTokensAssumption
       DEF SapInv, SapTypeOK, TokenInv, AnswersOf, ThreadOK, CardReset, NoCommand
  <2> QED
    BY <2>1, <2>2
<1> QED
  BY <1>1, <1>2 DEF SapInv

LEMMA CardResetBeforeDisconnectKeeps == ASSUME SapInv, NEW u \in SapTokens, CardResetBeforeDisconnect(u)
  PROVE SapInv'
<1>1. SapTypeOK'
  <2>1. sapNoMemory' \in 0..MaxNoMemory
    BY NoMemoryIsBounded DEF SapInv, SapTypeOK, CardResetBeforeDisconnect, Allocated
  <2>2. ThreadOK(sapVendor')
    <3>1. sapVendor' = Doing("answer", u, FALSE) \/ sapVendor' = sapVendor
      BY DEF CardResetBeforeDisconnect
    <3>2. ThreadOK(sapVendor)
      BY DEF SapInv, SapTypeOK
    <3> QED
      BY <3>1, <3>2, DoingIsThread
  <2>3. sapAt' \in [SapTokens -> {"idle", "timed", "vendor", "replied", "stuck"}]
        /\ sapCommand' \in [SapTokens -> SapCommands \cup {"none"}]
    BY DEF SapInv, SapTypeOK, CardResetBeforeDisconnect, SendSapRequest, SapCommands
  <2> QED
    BY <2>1, <2>2, <2>3 DEF SapInv, SapTypeOK, CardResetBeforeDisconnect, ThreadOK
<1>2. ASSUME NEW t \in SapTokens PROVE TokenInv(t)'
  <2>1. CASE t = u
    BY <2>1, SapTokensAssumption
       DEF SapInv, SapTypeOK, TokenInv, AnswersOf, ThreadOK, CardResetBeforeDisconnect,
              Allocated, NoMemory, SendSapRequest, Doing, Idle
  <2>2. CASE t # u
    BY <2>2, SapTokensAssumption
       DEF SapInv, SapTypeOK, TokenInv, AnswersOf, ThreadOK, CardResetBeforeDisconnect,
              Allocated, NoMemory, SendSapRequest, Doing, Idle
  <2> QED
    BY <2>1, <2>2
<1> QED
  BY <1>1, <1>2 DEF SapInv

LEMMA VendorAnswerKeeps == ASSUME SapInv, NEW u \in SapTokens, VendorAnswer(u) PROVE SapInv'
<1>1. SapTypeOK'
  BY IdleIsThread, DoingIsThread, AnsweringIsThread, MaxNoMemoryAssumption
     DEF SapInv, SapTypeOK, VendorAnswer, SapKinds, SapCommands, ConnectionStates, Answer
<1>2. ASSUME NEW t \in SapTokens PROVE TokenInv(t)'
  <2>1. CASE t = u
    BY <2>1, SapTokensAssumption
       DEF SapInv, SapTypeOK, TokenInv, AnswersOf, ThreadOK, VendorAnswer, Answer, Idle
  <2>2. CASE t # u
    BY <2>2, SapTokensAssumption
       DEF SapInv, SapTypeOK, TokenInv, AnswersOf, ThreadOK, VendorAnswer, Answer, Idle
  <2> QED
    BY <2>1, <2>2
<1> QED
  BY <1>1, <1>2 DEF SapInv

LEMMA VendorAssignKeeps == ASSUME SapInv, NEW u \in SapTokens, VendorAssign(u) PROVE SapInv'
<1>1. SapTypeOK'
  <2>1. sapNoMemory' \in 0..MaxNoMemory
    BY NoMemoryIsBounded DEF SapInv, SapTypeOK, VendorAssign, Allocated
  <2>2. sapAt' \in [SapTokens -> {"idle", "timed", "vendor", "replied", "stuck"}]
        /\ sapCommand' \in [SapTokens -> SapCommands \cup {"none"}]
    BY DEF SapInv, SapTypeOK, VendorAssign, SendSapRequest, NoCommand, SapCommands
  <2>3. sapParam' \in [SapTokens -> BOOLEAN]
    <3>1. ExchangeGoesOn(u) \in BOOLEAN
      BY DEF ExchangeGoesOn, ResetFollows, SapInv, SapTypeOK, ThreadOK
    <3> QED
      BY <3>1 DEF SapInv, SapTypeOK, VendorAssign
  <2>4. sapState' \in ConnectionStates
    BY DEF SapInv, SapTypeOK, VendorAssign, StateAfter, ConnectionStates
  <2>5. sapLeftUp' \in BOOLEAN
    BY DEF SapInv, SapTypeOK, VendorAssign
  <2>6. ThreadOK(sapVendor')
    BY IdleIsThread DEF VendorAssign
  <2> QED
    BY <2>1, <2>2, <2>3, <2>4, <2>5, <2>6 DEF SapInv, SapTypeOK, VendorAssign, ThreadOK
<1>2. ASSUME NEW t \in SapTokens PROVE TokenInv(t)'
  <2>1. CASE t = u
    BY <2>1, SapTokensAssumption
       DEF SapInv, SapTypeOK, TokenInv, AnswersOf, ThreadOK, VendorAssign, StateAfter,
              ResetFollows, ExchangeGoesOn, Allocated, NoMemory, NoCommand,
                 SendSapRequest, Idle
  <2>2. CASE t # u
    BY <2>2, SapTokensAssumption
       DEF SapInv, SapTypeOK, TokenInv, AnswersOf, ThreadOK, VendorAssign, StateAfter,
              ResetFollows, ExchangeGoesOn, Allocated, NoMemory, NoCommand,
                 SendSapRequest, Idle
  <2> QED
    BY <2>1, <2>2
<1> QED
  BY <1>1, <1>2 DEF SapInv

LEMMA SapInvStarts == ASSUME SapInit PROVE SapInv
<1>1. SapTypeOK
  <2>1. ThreadOK(sapThread) /\ ThreadOK(sapVendor)
    BY IdleIsThread DEF SapInit
  <2>2. sapNoMemory \in 0..MaxNoMemory
    BY MaxNoMemoryAssumption DEF SapInit
  <2> QED
    BY <2>1, <2>2 DEF SapInit, SapTypeOK, ConnectionStates
<1>2. ASSUME NEW t \in SapTokens PROVE TokenInv(t)
  BY SapTokensAssumption DEF SapInit, TokenInv, Idle
<1> QED
  BY <1>1, <1>2 DEF SapInv

LEMMA SapInvKept == ASSUME SapInv, [SapNext]_sapVars PROVE SapInv'
<1>1. CASE UNCHANGED sapVars
  BY <1>1 DEF SapInv, SapTypeOK, TokenInv, AnswersOf, ThreadOK, sapVars
<1>2. ASSUME NEW t \in SapTokens,
             \/ SapReceive(t) \/ SapThreadStep(t) \/ SapTimed(t) \/ SapTimedFails(t)
             \/ VendorThreadStep(t)
      PROVE  SapInv'
  BY <1>2, SapReceiveKeeps, SapRefuseKeeps, SapStartKeeps, SapStartFailsKeeps,
     SapAnswerKeeps, SapAssignKeeps, SapTimedKeeps, SapTimedFailsKeeps,
     VendorReplyKeeps, CardResetKeeps, CardResetBeforeDisconnectKeeps,
     VendorAnswerKeeps, VendorAssignKeeps
     DEF SapThreadStep, VendorThreadStep
<1> QED
  BY <1>1, <1>2 DEF SapNext

(* The invariant of every reachable state, whatever the number of requests.  *)
LEMMA SapInvHolds == SapSpec => []SapInv
  BY SapInvStarts, SapInvKept, PTL DEF SapSpec

(* The shim's state has its types (sec-sap.cpp, sap-functions.cpp).          *)
THEOREM SapTypes == SapSpec => []SapTypeOK
<1>1. SapInv => SapTypeOK
  BY DEF SapInv
<1> QED
  BY <1>1, SapInvHolds, PTL

(* No token is completed twice, not by a CONNECT whose card reset follows    *)
(* its answer, nor by an allocation that fails on any of the three threads;  *)
(* and an exchange's parameters are there for every completion that will be  *)
(* handed them, and are freed with the last one.                             *)
THEOREM SapExact == SapSpec => []SapExchangesAreExact
<1>1. SapInv => SapAnsweredOnce
  BY DEF SapInv, TokenInv, SapAnsweredOnce
<1>2. SapInv => SapMemoryIsExact
  BY DEF SapInv, TokenInv, SapMemoryIsExact
<1>3. SapInv => SapExchangesAreExact
  BY <1>1, <1>2 DEF SapExchangesAreExact
<1> QED
  BY <1>3, SapInvHolds, PTL

(* A token's exchange that its client still waits for: with one of the       *)
(* threads, or with a command that is not the card reset after a CONNECT.    *)
Waiting(t) == sapAt[t] \in {"timed", "vendor"} /\ sapCommand[t] # "connectReset"
InFlight(t) == sapThread.token = t \/ sapVendor.token = t \/ Waiting(t)

CommandOK(t) ==
  sapAt[t] # "idle" =>
    CASE sapRequest[t] = "CONNECT" -> sapCommand[t] \in {"connect", "connectReset"}
      [] sapRequest[t] = "DISCONNECT" -> sapCommand[t] \in {"disconnectReset", "disconnect"}
      [] OTHER -> sapCommand[t] = "plain"
CommandsOK == \A t \in SapTokens : CommandOK(t)
RepliedOK ==
  \A t \in SapTokens : sapAt[t] = "replied" => sapCommand[t] \in {"connect", "disconnect", "plain"}
TokensInOrder ==
  \A t, u \in SapTokens : u < t /\ sapRequest[t] # "none" => sapRequest[u] # "none"

Settled ==
  /\ sapState = "Connected" => sapLink
  /\ sapState # "Connected" => sapState = "Disconnected" /\ (sapLink => sapLeftUp)

(* What g_connectionState and the modem are to each other while t is under   *)
(* way.                                                                     *)
ThreadKnows(t) ==
  LET asked == sapRequest[t] IN
  IF sapThread.at = "start"
  THEN /\ Settled
       /\ asked = "CONNECT" => sapState = "Disconnected"
       /\ asked = "DISCONNECT" => sapState = "Connected"
  ELSE IF sapThread.ok
  THEN /\ Settled
       /\ asked = "CONNECT" => sapState = "Connected"
       /\ asked = "DISCONNECT" => sapState = "Disconnected"
  ELSE IF asked = "CONNECT" THEN sapLink => sapLeftUp
  ELSE asked = "DISCONNECT" \/ Settled
CommandKnows(t) ==
  CASE sapRequest[t] = "CONNECT" -> sapLink => sapLeftUp
    [] sapRequest[t] = "DISCONNECT" -> TRUE
    [] OTHER -> Settled
VendorKnows(t) ==
  CASE sapRequest[t] = "CONNECT" -> IF sapVendor.ok THEN sapLink ELSE sapLink => sapLeftUp
    [] sapRequest[t] = "DISCONNECT" -> sapVendor.ok => ~sapLink
    [] OTHER -> Settled
Alone == \A t, u \in SapTokens : InFlight(t) /\ InFlight(u) => t = u
Knows(t) ==
  /\ sapThread.token = t => ThreadKnows(t)
  /\ sapVendor.token = t => VendorKnows(t)
  /\ Waiting(t) => CommandKnows(t)
RestIsSettled == (\A t \in SapTokens : ~InFlight(t)) => Settled
LinkKnown == sapPatient => Alone /\ (\A t \in SapTokens : Knows(t)) /\ RestIsSettled
LinkInv == CommandsOK /\ RepliedOK /\ TokensInOrder /\ LinkKnown

LEMMA SapReceiveCommands == ASSUME SapInv, CommandsOK, RepliedOK, TokensInOrder,
       NEW u \in SapTokens, SapReceive(u)
  PROVE  CommandsOK' /\ RepliedOK' /\ TokensInOrder'
<1>1. CommandsOK'
  BY SapTokensAssumption
     DEF SapInv, SapTypeOK, TokenInv, CommandsOK, CommandOK, ThreadOK, Idle, Doing,
        SapReceive, SapKinds
<1>2. RepliedOK'
  BY SapTokensAssumption
     DEF SapInv, SapTypeOK, RepliedOK, CommandsOK, CommandOK, SapReceive
<1>3. TokensInOrder'
  BY SapTokensAssumption
     DEF SapInv, SapTypeOK, TokensInOrder, SapReceive, SapKinds, TokenInv
<1> QED
  BY <1>1, <1>2, <1>3

LEMMA SapRefuseCommands == ASSUME SapInv, CommandsOK, RepliedOK, TokensInOrder,
       NEW u \in SapTokens, SapRefuse(u)
  PROVE  CommandsOK' /\ RepliedOK' /\ TokensInOrder'
<1>1. CommandsOK'
  BY SapTokensAssumption
     DEF SapInv, SapTypeOK, TokenInv, CommandsOK, CommandOK, ThreadOK, Idle, Doing,
        SapRefuse
<1>2. RepliedOK'
  BY SapTokensAssumption
     DEF SapInv, SapTypeOK, RepliedOK, CommandsOK, CommandOK, SapRefuse
<1>3. TokensInOrder'
  BY DEF TokensInOrder, SapRefuse
<1> QED
  BY <1>1, <1>2, <1>3

LEMMA SapStartCommands == ASSUME SapInv, CommandsOK, RepliedOK, TokensInOrder,
       NEW u \in SapTokens, SapStart(u)
  PROVE  CommandsOK' /\ RepliedOK' /\ TokensInOrder'
<1>1. CommandsOK'
  BY SapTokensAssumption
     DEF SapInv, SapTypeOK, TokenInv, CommandsOK, CommandOK, ThreadOK, Idle, Doing,
        SapStart, Entered, FirstCommand, SendSapRequest
<1>2. RepliedOK'
  BY SapTokensAssumption
     DEF SapInv, SapTypeOK, RepliedOK, CommandsOK, CommandOK, SapStart, Entered,
        FirstCommand, SendSapRequest
<1>3. TokensInOrder'
  BY DEF TokensInOrder, SapStart
<1> QED
  BY <1>1, <1>2, <1>3

LEMMA SapStartFailsCommands == ASSUME SapInv, CommandsOK, RepliedOK, TokensInOrder,
       NEW u \in SapTokens, SapStartFails(u)
  PROVE  CommandsOK' /\ RepliedOK' /\ TokensInOrder'
<1>1. CommandsOK'
  BY SapTokensAssumption
     DEF SapInv, SapTypeOK, TokenInv, CommandsOK, CommandOK, ThreadOK, Idle, Doing,
        SapStartFails, Entered, SendSapRequest
<1>2. RepliedOK'
  BY SapTokensAssumption
     DEF SapInv, SapTypeOK, RepliedOK, CommandsOK, CommandOK, SapStartFails, Entered,
        SendSapRequest
<1>3. TokensInOrder'
  BY DEF TokensInOrder, SapStartFails
<1> QED
  BY <1>1, <1>2, <1>3

LEMMA SapAnswerCommands == ASSUME SapInv, CommandsOK, RepliedOK, TokensInOrder,
       NEW u \in SapTokens, SapAnswer(u)
  PROVE  CommandsOK' /\ RepliedOK' /\ TokensInOrder'
<1>1. CommandsOK'
  BY SapTokensAssumption
     DEF SapInv, SapTypeOK, TokenInv, CommandsOK, CommandOK, ThreadOK, Idle, SapAnswer
<1>2. RepliedOK'
  BY SapTokensAssumption
     DEF SapInv, SapTypeOK, RepliedOK, CommandsOK, CommandOK, SapAnswer
<1>3. TokensInOrder'
  BY DEF TokensInOrder, SapAnswer
<1> QED
  BY <1>1, <1>2, <1>3

LEMMA SapAssignCommands == ASSUME SapInv, CommandsOK, RepliedOK, TokensInOrder,
       NEW u \in SapTokens, SapAssign(u)
  PROVE  CommandsOK' /\ RepliedOK' /\ TokensInOrder'
<1>1. CommandsOK'
  BY SapTokensAssumption
     DEF SapInv, SapTypeOK, TokenInv, CommandsOK, CommandOK, ThreadOK, Idle, SapAssign
<1>2. RepliedOK'
  BY SapTokensAssumption
     DEF SapInv, SapTypeOK, RepliedOK, CommandsOK, CommandOK, SapAssign
<1>3. TokensInOrder'
  BY DEF TokensInOrder, SapAssign
<1> QED
  BY <1>1, <1>2, <1>3

LEMMA SapTimedCommands == ASSUME SapInv, CommandsOK, RepliedOK, TokensInOrder,
       NEW u \in SapTokens, SapTimed(u)
  PROVE  CommandsOK' /\ RepliedOK' /\ TokensInOrder'
<1>1. CommandsOK'
  BY SapTokensAssumption
     DEF SapInv, SapTypeOK, TokenInv, CommandsOK, CommandOK, ThreadOK, Idle, SapTimed
<1>2. RepliedOK'
  BY SapTokensAssumption DEF SapInv, SapTypeOK, RepliedOK, CommandsOK, CommandOK, SapTimed
<1>3. TokensInOrder'
  BY DEF TokensInOrder, SapTimed
<1> QED
  BY <1>1, <1>2, <1>3

LEMMA SapTimedFailsCommands == ASSUME SapInv, CommandsOK, RepliedOK, TokensInOrder,
       NEW u \in SapTokens, SapTimedFails(u)
  PROVE  CommandsOK' /\ RepliedOK' /\ TokensInOrder'
<1>1. CommandsOK'
  BY SapTokensAssumption
     DEF SapInv, SapTypeOK, TokenInv, CommandsOK, CommandOK, ThreadOK, Idle,
        SapTimedFails, NoCommand
<1>2. RepliedOK'
  BY SapTokensAssumption
     DEF SapInv, SapTypeOK, RepliedOK, CommandsOK, CommandOK, SapTimedFails, NoCommand
<1>3. TokensInOrder'
  BY DEF TokensInOrder, SapTimedFails
<1> QED
  BY <1>1, <1>2, <1>3

LEMMA VendorReplyCommands == ASSUME SapInv, CommandsOK, RepliedOK, TokensInOrder,
       NEW u \in SapTokens, VendorReply(u)
  PROVE  CommandsOK' /\ RepliedOK' /\ TokensInOrder'
<1>1. CommandsOK'
  BY SapTokensAssumption
     DEF SapInv, SapTypeOK, TokenInv, CommandsOK, CommandOK, ThreadOK, Idle, Doing,
        VendorReply
<1>2. RepliedOK'
  BY SapTokensAssumption
     DEF SapInv, SapTypeOK, RepliedOK, CommandsOK, CommandOK, VendorReply
<1>3. TokensInOrder'
  BY DEF TokensInOrder, VendorReply
<1> QED
  BY <1>1, <1>2, <1>3

LEMMA CardResetCommands == ASSUME SapInv, CommandsOK, RepliedOK, TokensInOrder,
       NEW u \in SapTokens, CardReset(u)
  PROVE  CommandsOK' /\ RepliedOK' /\ TokensInOrder'
<1>1. CommandsOK'
  BY SapTokensAssumption
     DEF SapInv, SapTypeOK, TokenInv, CommandsOK, CommandOK, ThreadOK, Idle, CardReset,
        NoCommand
<1>2. RepliedOK'
  BY SapTokensAssumption
     DEF SapInv, SapTypeOK, RepliedOK, CommandsOK, CommandOK, CardReset, NoCommand
<1>3. TokensInOrder'
  BY DEF TokensInOrder, CardReset
<1> QED
  BY <1>1, <1>2, <1>3

LEMMA CardResetBeforeDisconnectCommands == ASSUME SapInv, CommandsOK, RepliedOK, TokensInOrder,
       NEW u \in SapTokens, CardResetBeforeDisconnect(u)
  PROVE  CommandsOK' /\ RepliedOK' /\ TokensInOrder'
<1>1. CommandsOK'
  BY SapTokensAssumption
     DEF SapInv, SapTypeOK, TokenInv, CommandsOK, CommandOK, ThreadOK, Idle, Doing,
        CardResetBeforeDisconnect, SendSapRequest
<1>2. RepliedOK'
  BY SapTokensAssumption
     DEF SapInv, SapTypeOK, RepliedOK, CommandsOK, CommandOK, CardResetBeforeDisconnect,
        SendSapRequest
<1>3. TokensInOrder'
  BY DEF TokensInOrder, CardResetBeforeDisconnect
<1> QED
  BY <1>1, <1>2, <1>3

LEMMA VendorAnswerCommands == ASSUME SapInv, CommandsOK, RepliedOK, TokensInOrder,
       NEW u \in SapTokens, VendorAnswer(u)
  PROVE  CommandsOK' /\ RepliedOK' /\ TokensInOrder'
<1>1. CommandsOK'
  BY SapTokensAssumption
     DEF SapInv, SapTypeOK, TokenInv, CommandsOK, CommandOK, ThreadOK, Idle,
        VendorAnswer
<1>2. RepliedOK'
  BY SapTokensAssumption
     DEF SapInv, SapTypeOK, RepliedOK, CommandsOK, CommandOK, VendorAnswer
<1>3. TokensInOrder'
  BY DEF TokensInOrder, VendorAnswer
<1> QED
  BY <1>1, <1>2, <1>3

LEMMA VendorAssignCommands == ASSUME SapInv, CommandsOK, RepliedOK, TokensInOrder,
       NEW u \in SapTokens, VendorAssign(u)
  PROVE  CommandsOK' /\ RepliedOK' /\ TokensInOrder'
<1>1. CommandsOK'
  BY SapTokensAssumption
     DEF SapInv, SapTypeOK, TokenInv, CommandsOK, CommandOK, ThreadOK, Idle,
        VendorAssign, ExchangeGoesOn, NoCommand, ResetFollows, SendSapRequest
<1>2. RepliedOK'
  BY SapTokensAssumption
     DEF SapInv, SapTypeOK, RepliedOK, CommandsOK, CommandOK, VendorAssign,
        ExchangeGoesOn, NoCommand, ResetFollows, SendSapRequest
<1>3. TokensInOrder'
  BY DEF TokensInOrder, VendorAssign
<1> QED
  BY <1>1, <1>2, <1>3

LEMMA SapReceiveLinks == ASSUME SapInv, LinkInv, NEW u \in SapTokens, SapReceive(u)
  PROVE  LinkKnown'
<1> SUFFICES ASSUME sapPatient
             PROVE  Alone' /\ (\A t \in SapTokens : Knows(t)') /\ RestIsSettled'
  BY DEF LinkKnown, SapReceive
<1>1. ASSUME NEW t \in SapTokens, t # u PROVE ~InFlight(t)
  BY SapTokensAssumption, <1>1
     DEF SapInv, TokenInv, SapTypeOK, LinkInv, TokensInOrder, InFlight, Waiting, Idle,
        SapReceive
<1>2. ASSUME NEW t \in SapTokens, t # u PROVE ~InFlight(t)'
  BY SapTokensAssumption, <1>1, <1>2
     DEF SapInv, SapTypeOK, TokenInv, ThreadOK, InFlight, Waiting, Idle, SapReceive,
        Doing
<1>3. Knows(u)' /\ (~InFlight(u)' => Settled')
  BY SapTokensAssumption, <1>1
     DEF SapInv, SapTypeOK, SapKinds, TokenInv, ThreadOK, LinkInv, LinkKnown,
        RestIsSettled, CommandsOK, CommandOK, Knows, ThreadKnows, VendorKnows,
        CommandKnows, Settled, InFlight, Waiting, Idle, SapReceive, Doing
<1>4. ASSUME NEW t \in SapTokens, t # u PROVE Knows(t)'
  BY <1>2, <1>4 DEF Knows, InFlight
<1>5. Alone'
  BY <1>2 DEF Alone
<1>6. RestIsSettled'
  BY <1>3 DEF RestIsSettled
<1> QED
  BY <1>3, <1>4, <1>5, <1>6

LEMMA SapRefuseLinks == ASSUME SapInv, LinkInv, NEW u \in SapTokens, SapRefuse(u)
  PROVE  LinkKnown'
<1> SUFFICES ASSUME sapPatient
             PROVE  Alone' /\ (\A t \in SapTokens : Knows(t)') /\ RestIsSettled'
  BY DEF LinkKnown, SapRefuse
<1>1. ASSUME NEW t \in SapTokens, t # u PROVE ~InFlight(t)
  BY <1>1
     DEF SapInv, SapTypeOK, TokenInv, ThreadOK, LinkInv, LinkKnown, Alone, InFlight,
        Waiting, Idle, SapRefuse, Doing
<1>2. ASSUME NEW t \in SapTokens, t # u PROVE ~InFlight(t)'
  BY SapTokensAssumption, <1>1, <1>2
     DEF SapInv, SapTypeOK, TokenInv, ThreadOK, InFlight, Waiting, Idle, SapRefuse,
        Doing
<1>3. Knows(u)' /\ (~InFlight(u)' => Settled')
  BY SapTokensAssumption, <1>1
     DEF SapInv, SapTypeOK, SapKinds, TokenInv, ThreadOK, LinkInv, LinkKnown,
        RestIsSettled, CommandsOK, CommandOK, Knows, ThreadKnows, VendorKnows,
        CommandKnows, Settled, InFlight, Waiting, Idle, SapRefuse, Doing
<1>4. ASSUME NEW t \in SapTokens, t # u PROVE Knows(t)'
  BY <1>2, <1>4 DEF Knows, InFlight
<1>5. Alone'
  BY <1>2 DEF Alone
<1>6. RestIsSettled'
  BY <1>3 DEF RestIsSettled
<1> QED
  BY <1>3, <1>4, <1>5, <1>6

LEMMA SapStartLinks == ASSUME SapInv, LinkInv, NEW u \in SapTokens, SapStart(u)
  PROVE  LinkKnown'
<1> SUFFICES ASSUME sapPatient
             PROVE  Alone' /\ (\A t \in SapTokens : Knows(t)') /\ RestIsSettled'
  BY DEF LinkKnown, SapStart
<1>1. ASSUME NEW t \in SapTokens, t # u PROVE ~InFlight(t)
  BY <1>1
     DEF SapInv, SapTypeOK, TokenInv, ThreadOK, LinkInv, LinkKnown, Alone, InFlight,
        Waiting, Idle, SapStart, Entered, FirstCommand, SendSapRequest, Doing
<1>2. ASSUME NEW t \in SapTokens, t # u PROVE ~InFlight(t)'
  BY SapTokensAssumption, <1>1, <1>2
     DEF SapInv, SapTypeOK, TokenInv, ThreadOK, InFlight, Waiting, Idle, SapStart,
        Entered, FirstCommand, SendSapRequest, Doing
<1>3. Knows(u)' /\ (~InFlight(u)' => Settled')
  BY SapTokensAssumption, <1>1
     DEF SapInv, SapTypeOK, SapKinds, TokenInv, ThreadOK, LinkInv, LinkKnown,
        RestIsSettled, CommandsOK, CommandOK, Knows, ThreadKnows, VendorKnows,
        CommandKnows, Settled, InFlight, Waiting, Idle, SapStart, Entered, FirstCommand,
        SendSapRequest, Doing
<1>4. ASSUME NEW t \in SapTokens, t # u PROVE Knows(t)'
  BY <1>2, <1>4 DEF Knows, InFlight
<1>5. Alone'
  BY <1>2 DEF Alone
<1>6. RestIsSettled'
  BY <1>3 DEF RestIsSettled
<1> QED
  BY <1>3, <1>4, <1>5, <1>6

LEMMA SapStartFailsLinks == ASSUME SapInv, LinkInv, NEW u \in SapTokens, SapStartFails(u)
  PROVE  LinkKnown'
<1> SUFFICES ASSUME sapPatient
             PROVE  Alone' /\ (\A t \in SapTokens : Knows(t)') /\ RestIsSettled'
  BY DEF LinkKnown, SapStartFails
<1>1. ASSUME NEW t \in SapTokens, t # u PROVE ~InFlight(t)
  BY <1>1
     DEF SapInv, SapTypeOK, TokenInv, ThreadOK, LinkInv, LinkKnown, Alone, InFlight,
        Waiting, Idle, SapStartFails, Entered, SendSapRequest, Doing
<1>2. ASSUME NEW t \in SapTokens, t # u PROVE ~InFlight(t)'
  BY SapTokensAssumption, <1>1, <1>2
     DEF SapInv, SapTypeOK, TokenInv, ThreadOK, InFlight, Waiting, Idle, SapStartFails,
        Entered, SendSapRequest, Doing
<1>3. Knows(u)' /\ (~InFlight(u)' => Settled')
  BY SapTokensAssumption, <1>1
     DEF SapInv, SapTypeOK, SapKinds, TokenInv, ThreadOK, LinkInv, LinkKnown,
        RestIsSettled, CommandsOK, CommandOK, Knows, ThreadKnows, VendorKnows,
        CommandKnows, Settled, InFlight, Waiting, Idle, SapStartFails, Entered,
        SendSapRequest, Doing
<1>4. ASSUME NEW t \in SapTokens, t # u PROVE Knows(t)'
  BY <1>2, <1>4 DEF Knows, InFlight
<1>5. Alone'
  BY <1>2 DEF Alone
<1>6. RestIsSettled'
  BY <1>3 DEF RestIsSettled
<1> QED
  BY <1>3, <1>4, <1>5, <1>6

LEMMA SapAnswerLinks == ASSUME SapInv, LinkInv, NEW u \in SapTokens, SapAnswer(u)
  PROVE  LinkKnown'
<1> SUFFICES ASSUME sapPatient
             PROVE  Alone' /\ (\A t \in SapTokens : Knows(t)') /\ RestIsSettled'
  BY DEF LinkKnown, SapAnswer
<1>1. ASSUME NEW t \in SapTokens, t # u PROVE ~InFlight(t)
  BY <1>1
     DEF SapInv, SapTypeOK, TokenInv, ThreadOK, LinkInv, LinkKnown, Alone, InFlight,
        Waiting, Idle, SapAnswer
<1>2. ASSUME NEW t \in SapTokens, t # u PROVE ~InFlight(t)'
  BY SapTokensAssumption, <1>1, <1>2
     DEF SapInv, SapTypeOK, TokenInv, ThreadOK, InFlight, Waiting, Idle, SapAnswer
<1>3. Knows(u)' /\ (~InFlight(u)' => Settled')
  BY SapTokensAssumption, <1>1
     DEF SapInv, SapTypeOK, SapKinds, TokenInv, ThreadOK, LinkInv, LinkKnown,
        RestIsSettled, CommandsOK, CommandOK, Knows, ThreadKnows, VendorKnows,
        CommandKnows, Settled, InFlight, Waiting, Idle, SapAnswer
<1>4. ASSUME NEW t \in SapTokens, t # u PROVE Knows(t)'
  BY <1>2, <1>4 DEF Knows, InFlight
<1>5. Alone'
  BY <1>2 DEF Alone
<1>6. RestIsSettled'
  BY <1>3 DEF RestIsSettled
<1> QED
  BY <1>3, <1>4, <1>5, <1>6

LEMMA SapAssignLinks == ASSUME SapInv, LinkInv, NEW u \in SapTokens, SapAssign(u)
  PROVE  LinkKnown'
<1> SUFFICES ASSUME sapPatient
             PROVE  Alone' /\ (\A t \in SapTokens : Knows(t)') /\ RestIsSettled'
  BY DEF LinkKnown, SapAssign
<1>1. ASSUME NEW t \in SapTokens, t # u PROVE ~InFlight(t)
  BY <1>1
     DEF SapInv, SapTypeOK, TokenInv, ThreadOK, LinkInv, LinkKnown, Alone, InFlight,
        Waiting, Idle, SapAssign, StateAfter
<1>2. ASSUME NEW t \in SapTokens, t # u PROVE ~InFlight(t)'
  BY SapTokensAssumption, <1>1, <1>2
     DEF SapInv, SapTypeOK, TokenInv, ThreadOK, InFlight, Waiting, Idle, SapAssign
<1>3. Knows(u)' /\ (~InFlight(u)' => Settled')
  BY SapTokensAssumption, <1>1
     DEF SapInv, SapTypeOK, SapKinds, TokenInv, ThreadOK, LinkInv, LinkKnown,
        RestIsSettled, CommandsOK, CommandOK, Knows, ThreadKnows, VendorKnows,
        CommandKnows, Settled, InFlight, Waiting, Idle, SapAssign, StateAfter
<1>4. ASSUME NEW t \in SapTokens, t # u PROVE Knows(t)'
  BY <1>2, <1>4 DEF Knows, InFlight
<1>5. Alone'
  BY <1>2 DEF Alone
<1>6. RestIsSettled'
  BY <1>3 DEF RestIsSettled
<1> QED
  BY <1>3, <1>4, <1>5, <1>6

LEMMA SapTimedLinks == ASSUME SapInv, LinkInv, NEW u \in SapTokens, SapTimed(u)
  PROVE  LinkKnown'
<1> SUFFICES ASSUME sapPatient
             PROVE  Alone' /\ (\A t \in SapTokens : Knows(t)') /\ RestIsSettled'
  BY DEF LinkKnown, SapTimed
<1>1. ASSUME NEW t \in SapTokens PROVE InFlight(t)' <=> InFlight(t)
  BY <1>1 DEF SapInv, SapTypeOK, InFlight, Waiting, SapTimed
<1>2. ASSUME NEW t \in SapTokens PROVE Knows(t)'
  BY <1>2
     DEF SapInv, SapTypeOK, LinkInv, LinkKnown, Knows, ThreadKnows, VendorKnows,
        CommandKnows, Settled, Waiting, SapTimed
<1>3. Settled' <=> Settled
  BY DEF Settled, SapTimed
<1> QED
  BY <1>1, <1>2, <1>3 DEF LinkInv, LinkKnown, Alone, RestIsSettled

LEMMA SapTimedFailsLinks == ASSUME SapInv, LinkInv, NEW u \in SapTokens, SapTimedFails(u)
  PROVE  LinkKnown'
<1> SUFFICES ASSUME sapPatient
             PROVE  Alone' /\ (\A t \in SapTokens : Knows(t)') /\ RestIsSettled'
  BY DEF LinkKnown, SapTimedFails
<1>1. ASSUME NEW t \in SapTokens, t # u PROVE ~InFlight(t)
  BY <1>1
     DEF SapInv, SapTypeOK, TokenInv, ThreadOK, LinkInv, LinkKnown, Alone, InFlight,
        Waiting, Idle, SapTimedFails, NoCommand
<1>2. ASSUME NEW t \in SapTokens, t # u PROVE ~InFlight(t)'
  BY SapTokensAssumption, <1>1, <1>2
     DEF SapInv, SapTypeOK, TokenInv, ThreadOK, InFlight, Waiting, Idle, SapTimedFails,
        NoCommand
<1>3. Knows(u)' /\ (~InFlight(u)' => Settled')
  BY SapTokensAssumption, <1>1
     DEF SapInv, SapTypeOK, SapKinds, TokenInv, ThreadOK, LinkInv, LinkKnown,
        RestIsSettled, CommandsOK, CommandOK, Knows, ThreadKnows, VendorKnows,
        CommandKnows, Settled, InFlight, Waiting, Idle, SapTimedFails, NoCommand
<1>4. ASSUME NEW t \in SapTokens, t # u PROVE Knows(t)'
  BY <1>2, <1>4 DEF Knows, InFlight
<1>5. Alone'
  BY <1>2 DEF Alone
<1>6. RestIsSettled'
  BY <1>3 DEF RestIsSettled
<1> QED
  BY <1>3, <1>4, <1>5, <1>6

LEMMA VendorReplyLinks == ASSUME SapInv, LinkInv, NEW u \in SapTokens, VendorReply(u)
  PROVE  LinkKnown'
<1> SUFFICES ASSUME sapPatient
             PROVE  Alone' /\ (\A t \in SapTokens : Knows(t)') /\ RestIsSettled'
  BY DEF LinkKnown, VendorReply
<1>1. ASSUME NEW t \in SapTokens, t # u PROVE ~InFlight(t)
  BY <1>1
     DEF SapInv, SapTypeOK, TokenInv, ThreadOK, LinkInv, LinkKnown, Alone, InFlight,
        Waiting, Idle, VendorReply, Doing
<1>2. ASSUME NEW t \in SapTokens, t # u PROVE ~InFlight(t)'
  BY SapTokensAssumption, <1>1, <1>2
     DEF SapInv, SapTypeOK, TokenInv, ThreadOK, InFlight, Waiting, Idle, VendorReply,
        Doing
<1>3. Knows(u)' /\ (~InFlight(u)' => Settled')
  BY SapTokensAssumption, <1>1
     DEF SapInv, SapTypeOK, SapKinds, TokenInv, ThreadOK, LinkInv, LinkKnown,
        RestIsSettled, CommandsOK, CommandOK, Knows, ThreadKnows, VendorKnows,
        CommandKnows, Settled, InFlight, Waiting, Idle, VendorReply, LinkAfter, Doing
<1>4. ASSUME NEW t \in SapTokens, t # u PROVE Knows(t)'
  BY <1>2, <1>4 DEF Knows, InFlight
<1>5. Alone'
  BY <1>2 DEF Alone
<1>6. RestIsSettled'
  BY <1>3 DEF RestIsSettled
<1> QED
  BY <1>3, <1>4, <1>5, <1>6

LEMMA CardResetLinks == ASSUME SapInv, LinkInv, NEW u \in SapTokens, CardReset(u)
  PROVE  LinkKnown'
<1> SUFFICES ASSUME sapPatient
             PROVE  Alone' /\ (\A t \in SapTokens : Knows(t)') /\ RestIsSettled'
  BY DEF LinkKnown, CardReset
<1>1. ASSUME NEW t \in SapTokens PROVE InFlight(t)' <=> InFlight(t)
  BY <1>1 DEF SapInv, SapTypeOK, InFlight, Waiting, CardReset, NoCommand
<1>2. ASSUME NEW t \in SapTokens PROVE Knows(t)'
  BY <1>2
     DEF SapInv, SapTypeOK, LinkInv, LinkKnown, Knows, ThreadKnows, VendorKnows,
        CommandKnows, Settled, Waiting, CardReset, NoCommand
<1>3. Settled' <=> Settled
  BY DEF Settled, CardReset
<1> QED
  BY <1>1, <1>2, <1>3 DEF LinkInv, LinkKnown, Alone, RestIsSettled

LEMMA CardResetBeforeDisconnectLinks == ASSUME SapInv, LinkInv, NEW u \in SapTokens, CardResetBeforeDisconnect(u)
  PROVE  LinkKnown'
<1> SUFFICES ASSUME sapPatient
             PROVE  Alone' /\ (\A t \in SapTokens : Knows(t)') /\ RestIsSettled'
  BY DEF LinkKnown, CardResetBeforeDisconnect
<1>1. ASSUME NEW t \in SapTokens, t # u PROVE ~InFlight(t)
  BY <1>1
     DEF SapInv, SapTypeOK, TokenInv, ThreadOK, LinkInv, LinkKnown, Alone, InFlight,
        Waiting, Idle, CardResetBeforeDisconnect, SendSapRequest, Doing
<1>2. ASSUME NEW t \in SapTokens, t # u PROVE ~InFlight(t)'
  BY SapTokensAssumption, <1>1, <1>2
     DEF SapInv, SapTypeOK, TokenInv, ThreadOK, InFlight, Waiting, Idle,
        CardResetBeforeDisconnect, SendSapRequest, Doing
<1>3. Knows(u)' /\ (~InFlight(u)' => Settled')
  BY SapTokensAssumption, <1>1
     DEF SapInv, SapTypeOK, SapKinds, TokenInv, ThreadOK, LinkInv, LinkKnown,
        RestIsSettled, CommandsOK, CommandOK, Knows, ThreadKnows, VendorKnows,
        CommandKnows, Settled, InFlight, Waiting, Idle, CardResetBeforeDisconnect,
        SendSapRequest, Doing
<1>4. ASSUME NEW t \in SapTokens, t # u PROVE Knows(t)'
  BY <1>2, <1>4 DEF Knows, InFlight
<1>5. Alone'
  BY <1>2 DEF Alone
<1>6. RestIsSettled'
  BY <1>3 DEF RestIsSettled
<1> QED
  BY <1>3, <1>4, <1>5, <1>6

LEMMA VendorAnswerLinks == ASSUME SapInv, LinkInv, NEW u \in SapTokens, VendorAnswer(u)
  PROVE  LinkKnown'
<1> SUFFICES ASSUME sapPatient
             PROVE  Alone' /\ (\A t \in SapTokens : Knows(t)') /\ RestIsSettled'
  BY DEF LinkKnown, VendorAnswer
<1>1. ASSUME NEW t \in SapTokens, t # u PROVE ~InFlight(t)
  BY <1>1
     DEF SapInv, SapTypeOK, TokenInv, ThreadOK, LinkInv, LinkKnown, Alone, InFlight,
        Waiting, Idle, VendorAnswer
<1>2. ASSUME NEW t \in SapTokens, t # u PROVE ~InFlight(t)'
  BY SapTokensAssumption, <1>1, <1>2
     DEF SapInv, SapTypeOK, TokenInv, ThreadOK, InFlight, Waiting, Idle, VendorAnswer
<1>3. Knows(u)' /\ (~InFlight(u)' => Settled')
  BY SapTokensAssumption, <1>1
     DEF SapInv, SapTypeOK, SapKinds, TokenInv, ThreadOK, LinkInv, LinkKnown,
        RestIsSettled, CommandsOK, CommandOK, Knows, ThreadKnows, VendorKnows,
        CommandKnows, Settled, InFlight, Waiting, Idle, VendorAnswer
<1>4. ASSUME NEW t \in SapTokens, t # u PROVE Knows(t)'
  BY <1>2, <1>4 DEF Knows, InFlight
<1>5. Alone'
  BY <1>2 DEF Alone
<1>6. RestIsSettled'
  BY <1>3 DEF RestIsSettled
<1> QED
  BY <1>3, <1>4, <1>5, <1>6

LEMMA VendorAssignLinks == ASSUME SapInv, LinkInv, NEW u \in SapTokens, VendorAssign(u)
  PROVE  LinkKnown'
<1> SUFFICES ASSUME sapPatient
             PROVE  Alone' /\ (\A t \in SapTokens : Knows(t)') /\ RestIsSettled'
  BY DEF LinkKnown, VendorAssign
<1>1. ASSUME NEW t \in SapTokens, t # u PROVE ~InFlight(t)
  BY <1>1
     DEF SapInv, SapTypeOK, TokenInv, ThreadOK, LinkInv, LinkKnown, Alone, InFlight,
        Waiting, Idle, VendorAssign, ExchangeGoesOn, NoCommand, ResetFollows,
        SendSapRequest, StateAfter
<1>2. ASSUME NEW t \in SapTokens, t # u PROVE ~InFlight(t)'
  BY SapTokensAssumption, <1>1, <1>2
     DEF SapInv, SapTypeOK, TokenInv, ThreadOK, InFlight, Waiting, Idle, VendorAssign,
        ExchangeGoesOn, NoCommand, ResetFollows, SendSapRequest
<1>3. Knows(u)' /\ (~InFlight(u)' => Settled')
  BY SapTokensAssumption, <1>1
     DEF SapInv, SapTypeOK, SapKinds, TokenInv, ThreadOK, LinkInv, LinkKnown,
        RestIsSettled, CommandsOK, CommandOK, Knows, ThreadKnows, VendorKnows,
        CommandKnows, Settled, InFlight, Waiting, Idle, VendorAssign, ExchangeGoesOn,
        NoCommand, ResetFollows, SendSapRequest, StateAfter
<1>4. ASSUME NEW t \in SapTokens, t # u PROVE Knows(t)'
  BY <1>2, <1>4 DEF Knows, InFlight
<1>5. Alone'
  BY <1>2 DEF Alone
<1>6. RestIsSettled'
  BY <1>3 DEF RestIsSettled
<1> QED
  BY <1>3, <1>4, <1>5, <1>6

LEMMA LinkInvStarts == ASSUME SapInit PROVE LinkInv
<1>1. CommandsOK /\ RepliedOK /\ TokensInOrder
  BY DEF SapInit, CommandsOK, CommandOK, RepliedOK, TokensInOrder
<1>2. \A t \in SapTokens : ~InFlight(t)
  BY SapTokensAssumption DEF SapInit, InFlight, Waiting, Idle
<1>3. Settled
  BY DEF SapInit, Settled
<1> QED
  BY <1>1, <1>2, <1>3 DEF LinkInv, LinkKnown, Alone, Knows, RestIsSettled, InFlight

LEMMA LinkInvKept == ASSUME SapInv, LinkInv, [SapNext]_sapVars PROVE LinkInv'
<1>1. CASE UNCHANGED sapVars
  BY <1>1 DEF sapVars, LinkInv, LinkKnown, CommandsOK, CommandOK, RepliedOK, TokensInOrder,
              Alone, Knows, RestIsSettled, ThreadKnows, VendorKnows, CommandKnows, Settled,
              InFlight, Waiting
<1>2. ASSUME NEW t \in SapTokens,
             \/ SapReceive(t) \/ SapThreadStep(t) \/ SapTimed(t) \/ SapTimedFails(t)
             \/ VendorThreadStep(t)
      PROVE  LinkInv'
  <2>1. SapInv /\ CommandsOK /\ RepliedOK /\ TokensInOrder
    BY DEF LinkInv
  <2>2. CommandsOK' /\ RepliedOK' /\ TokensInOrder'
    BY <2>1, SapReceiveCommands, SapRefuseCommands, SapStartCommands,
       SapStartFailsCommands, SapAnswerCommands, SapAssignCommands, SapTimedCommands,
       SapTimedFailsCommands, VendorReplyCommands, CardResetCommands,
       CardResetBeforeDisconnectCommands, VendorAnswerCommands, VendorAssignCommands,
       <1>2
       DEF SapThreadStep, VendorThreadStep
  <2>3. LinkKnown'
    BY <2>1, SapReceiveLinks, SapRefuseLinks, SapStartLinks, SapStartFailsLinks,
       SapAnswerLinks, SapAssignLinks, SapTimedLinks, SapTimedFailsLinks,
       VendorReplyLinks, CardResetLinks, CardResetBeforeDisconnectLinks,
       VendorAnswerLinks, VendorAssignLinks, <1>2
       DEF SapThreadStep, VendorThreadStep
  <2> QED
    BY <2>2, <2>3 DEF LinkInv
<1> QED
  BY <1>1, <1>2 DEF SapNext

(* With nothing under way g_connectionState tells whether the SIM is lent,   *)
(* for a client that lets a handler return before it asks again: whatever    *)
(* fails on the way, a request that is refused before its first command      *)
(* included (SapConnectRsp, SapDisconnectRsp and the vendor's completions).  *)
THEOREM SapLinkTracked == SapSpec => []SapStateTracksLink
<1>1. SapInv /\ LinkInv => SapStateTracksLink
  <2> SUFFICES ASSUME SapInv, LinkInv, sapPatient, SapQuiet PROVE Settled
    BY DEF SapStateTracksLink, Settled
  <2>1. ASSUME NEW t \in SapTokens PROVE ~InFlight(t)
    BY SapTokensAssumption DEF SapQuiet, InFlight, Waiting, Idle
  <2> QED
    BY <2>1 DEF LinkInv, LinkKnown, RestIsSettled
<1> QED
  BY <1>1, SapInvStarts, SapInvKept, LinkInvStarts, LinkInvKept, PTL DEF SapSpec
-----------------------------------------------------------------------------
(***************************************************************************)
(* Proofs about JavaRil, for any serials, responses and commands.  That a   *)
(* request has one result needs that only requests that were made are       *)
(* outstanding: a response takes its request off the list before it sends   *)
(* the result, and a serial is never used twice.                            *)
(***************************************************************************)
Requested ==
  /\ javaRequest \in [Serials -> JavaKinds \cup {"none"}]
  /\ javaResults \in [Serials -> Nat]
  /\ outstanding \subseteq { s \in Serials : javaRequest[s] # "none" }

JavaInv == Requested /\ JavaAnsweredOnce

(* A response that takes its request off the list and sends its result.      *)
LEMMA ResponseAnswersOnce ==
  ASSUME JavaInv, NEW s \in Serials, Take(s), Result(s), UNCHANGED javaRequest
  PROVE  JavaInv'
<1>1. Requested'
  BY DEF JavaInv, Requested, Take, Result
<1>2. JavaAnsweredOnce'
  <2> SUFFICES ASSUME NEW q \in Serials
      PROVE javaResults'[q] = IF javaRequest'[q] = "none" \/ q \in outstanding' THEN 0 ELSE 1
    BY DEF JavaAnsweredOnce
  <2>1. CASE q = s
    BY <2>1 DEF JavaInv, Requested, JavaAnsweredOnce, Take, Result
  <2>2. CASE q # s
    BY <2>2 DEF JavaInv, Requested, JavaAnsweredOnce, Take, Result
  <2> QED
    BY <2>1, <2>2
<1> QED
  BY <1>1, <1>2 DEF JavaInv

(* A request has its result exactly when it is no longer outstanding.        *)
THEOREM JavaAnswered == JavaSpec => []JavaAnsweredOnce
<1>1. JavaInit => JavaInv
  BY DEF JavaInit, JavaInv, Requested, JavaAnsweredOnce, JavaKinds
<1>2. JavaInv /\ [JavaNext]_javaVars => JavaInv'
  <2> SUFFICES ASSUME JavaInv, [JavaNext]_javaVars PROVE JavaInv'
    OBVIOUS
  <2>1. ASSUME NEW s \in Serials, JavaSend(s) PROVE JavaInv'
    <3>1. Requested'
      BY <2>1 DEF JavaSend, JavaInv, Requested, JavaKinds
    <3>2. JavaAnsweredOnce'
      BY <2>1 DEF JavaSend, JavaInv, Requested, JavaAnsweredOnce, JavaKinds
    <3> QED
      BY <3>1, <3>2 DEF JavaInv
  <2>2. ASSUME NEW s \in Serials, ResponseUnreadable(s) \/ ProcessSolicited(s) PROVE JavaInv'
    BY <2>2, ResponseAnswersOnce DEF ResponseUnreadable, ProcessSolicited
  <2>3. ASSUME UNCHANGED <<javaRequest, outstanding, javaResults>> PROVE JavaInv'
    BY <2>3 DEF JavaInv, Requested, JavaAnsweredOnce
  <2>4. ASSUME NEW s \in Serials, UnexpectedResponse(s) PROVE JavaInv'
    BY <2>3, <2>4 DEF UnexpectedResponse
  <2>5. CASE \E c \in CatCommands : CatArrives(c)
    BY <2>3, <2>5 DEF CatArrives, solicitedVars
  <2>6. CASE CatHandled \/ CatRegister \/ CatFlush \/ CatClear
    BY <2>3, <2>6 DEF CatHandled, CatRegister, CatFlush, CatClear, solicitedVars
  <2>7. CASE UNCHANGED javaVars
    BY <2>3, <2>7 DEF javaVars, solicitedVars
  <2> QED
    BY <2>1, <2>2, <2>4, <2>5, <2>6, <2>7 DEF JavaNext
<1>3. JavaInv => JavaAnsweredOnce
  BY DEF JavaInv
<1> QED
  BY <1>1, <1>2, <1>3, PTL DEF JavaSpec
-----------------------------------------------------------------------------
(***************************************************************************)
(* Proofs about GpsShim, for any callers, fixes and times.  A held place is *)
(* fresh because the kept one is itself among the fixes measured since the  *)
(* last that was passed on, unless its timestamp says that there is none;   *)
(* and because every entry of the filter's table that holds places gives    *)
(* them a minute.                                                           *)
(***************************************************************************)
KeptIsMeasured ==
  reportLocation.time # 0 =>
    \E old \in measured : old.place = reportLocation.place /\ old.time = reportLocation.time

GpsInv ==
  /\ reportLocation \in [place : Int \X Int \X Int, flags : Nat, time : Nat]
  /\ told.held \in BOOLEAN
  /\ KeptIsMeasured /\ HeldPositionIsFresh

(* get_filterlocation returns an entry of the table or the default one, and  *)
(* those that are enabled time out after 60 s.                               *)
LEMMA FilterTimeout ==
  ASSUME NEW accuracy \in Nat, FilterLocation(accuracy).enabled
  PROVE  FilterLocation(accuracy).timeout = 60
<1> DEFINE fits == {i \in DOMAIN GpsFilterLocations :
                      GpsFilterLocations[i].accuracy >= accuracy}
<1>1. ASSUME NEW i \in 1..6, GpsFilterLocations[i].enabled
      PROVE  GpsFilterLocations[i].timeout = 60
  <2>1. ASSUME NEW least \in Nat, NEW speed \in Nat, NEW locdiff \in Nat,
               Filter(least, speed, locdiff).enabled
        PROVE  Filter(least, speed, locdiff).timeout = 60
    BY <2>1 DEF Filter
  <2>2. \E least, speed, locdiff \in Nat :
          GpsFilterLocations[i] = Filter(least, speed, locdiff)
    <3>1. CASE i = 1
      BY <3>1 DEF GpsFilterLocations
    <3>2. CASE i = 2
      BY <3>2 DEF GpsFilterLocations
    <3>3. CASE i = 3
      BY <3>3 DEF GpsFilterLocations
    <3>4. CASE i = 4
      BY <3>4 DEF GpsFilterLocations
    <3>5. CASE i = 5
      BY <3>5 DEF GpsFilterLocations
    <3>6. CASE i = 6
      BY <3>6 DEF GpsFilterLocations
    <3> QED
      BY <3>1, <3>2, <3>3, <3>4, <3>5, <3>6
  <2> QED
    BY <1>1, <2>1, <2>2
<1>2. CASE fits = {}
  BY <1>2 DEF FilterLocation, DefaultFilterLocation, Filter
<1>3. CASE fits # {}
  <2>1. fits \subseteq 1..6
    BY DEF GpsFilterLocations
  <2>2. \E i \in fits : \A j \in fits : i <= j
    BY <1>3, <2>1, SMT
  <2>3. (CHOOSE i \in fits : \A j \in fits : i <= j) \in 1..6
    BY <2>1, <2>2
  <2>4. FilterLocation(accuracy) =
          GpsFilterLocations[CHOOSE i \in fits : \A j \in fits : i <= j]
    BY <1>3 DEF FilterLocation
  <2> QED
    BY <1>1, <2>3, <2>4
<1> QED
  BY <1>2, <1>3

LEMMA GpsStart == GpsInit => GpsInv
  BY DEF GpsInit, GpsInv, KeptIsMeasured, HeldPositionIsFresh

LEMMA UnfilteredKeeps ==
  ASSUME GpsInv, NEW fix \in GpsFixes, NEW time \in GpsTimes, LocationUnfiltered(fix, time)
  PROVE  GpsInv'
<1>1. reportLocation' = [reportLocation EXCEPT !.time = 0] /\ told'.held = FALSE
  BY DEF LocationUnfiltered, Report
<1>2. reportLocation' \in [place : Int \X Int \X Int, flags : Nat, time : Nat]
      /\ reportLocation'.time = 0
  BY <1>1 DEF GpsInv
<1> QED
  BY <1>1, <1>2 DEF GpsInv, KeptIsMeasured, HeldPositionIsFresh

LEMMA MovedKeeps ==
  ASSUME GpsInv, NEW fix \in GpsFixes, NEW time \in GpsTimes, LocationMoved(fix, time)
  PROVE  GpsInv'
<1>1. /\ reportLocation' = [place |-> fix.place, flags |-> fix.flags, time |-> time]
      /\ measured' = measured \cup {[place |-> fix.place, time |-> time]}
      /\ told'.held = FALSE
  BY DEF LocationMoved, Report
<1>2. reportLocation' \in [place : Int \X Int \X Int, flags : Nat, time : Nat]
      /\ reportLocation'.time = time /\ reportLocation'.place = fix.place
  BY <1>1, GpsAssumption
<1> QED
  BY <1>1, <1>2 DEF GpsInv, KeptIsMeasured, HeldPositionIsFresh

LEMMA HeldKeeps ==
  ASSUME GpsInv, NEW fix \in GpsFixes, NEW time \in GpsTimes, LocationHeld(fix, time)
  PROVE  GpsInv'
<1>1. /\ told' = [place |-> reportLocation.place, time |-> time, held |-> TRUE]
      /\ measured \subseteq measured' /\ reportLocation' = reportLocation
      /\ FilterLocation(fix.accuracy).enabled
      /\ ~UpdateLocation(fix, time)
  BY DEF LocationHeld, Report
<1>2. fix.accuracy \in Nat /\ time \in Nat /\ reportLocation.time \in Nat
  BY GpsAssumption DEF GpsInv
<1>3. reportLocation.time # 0 /\ ~(time > reportLocation.time + 60)
  BY <1>1, <1>2, FilterTimeout DEF UpdateLocation
<1>4. PICK old \in measured :
        old.place = reportLocation.place /\ old.time = reportLocation.time
  BY <1>3 DEF GpsInv, KeptIsMeasured
<1>5. told'.place = old.place /\ told'.time <= old.time + 60 /\ told'.held = TRUE
  BY <1>1, <1>2, <1>3, <1>4
<1> QED
  BY <1>1, <1>3, <1>4, <1>5 DEF GpsInv, KeptIsMeasured, HeldPositionIsFresh

LEMMA GpsInvHolds == GpsSpec => []GpsInv
<1>1. GpsInv /\ [GpsNext]_gpsVars => GpsInv'
  <2> SUFFICES ASSUME GpsInv, [GpsNext]_gpsVars PROVE GpsInv'
    OBVIOUS
  <2>1. ASSUME UNCHANGED <<reportLocation, told, measured>> PROVE GpsInv'
    BY <2>1 DEF GpsInv, KeptIsMeasured, HeldPositionIsFresh
  <2>2. CASE OpenGps \/ GetGpsInterface \/ \E name \in Interfaces : GetExtension(name)
    BY <2>1, <2>2 DEF OpenGps, GetGpsInterface, GetExtension
  <2>3. CASE \E i \in Interfaces, client \in GpsClients : InitInterface(i, client)
    BY <2>1, <2>3 DEF InitInterface
  <2>4. CASE \E fix \in GpsFixes, time \in GpsTimes : LocationUnfiltered(fix, time)
    BY <2>4, UnfilteredKeeps
  <2>5. CASE \E fix \in GpsFixes, time \in GpsTimes : LocationMoved(fix, time)
    BY <2>5, MovedKeeps
  <2>6. CASE \E fix \in GpsFixes, time \in GpsTimes : LocationHeld(fix, time)
    BY <2>6, HeldKeeps
  <2>7. CASE UNCHANGED gpsVars
    BY <2>1, <2>7 DEF gpsVars
  <2> QED
    BY <2>2, <2>3, <2>4, <2>5, <2>6, <2>7 DEF GpsNext
<1> QED
  BY <1>1, GpsStart, PTL DEF GpsSpec

(* shim_location_cb never repeats a place that is more than a minute older   *)
(* than the time it is reported with, or older than a fix that was accurate  *)
(* enough to be passed on, for any sequence of fixes and callers.            *)
THEOREM HeldStaysFresh == GpsSpec => []HeldPositionIsFresh
<1>1. GpsInv => HeldPositionIsFresh
  BY DEF GpsInv
<1> QED
  BY <1>1, GpsInvHolds, PTL

-----------------------------------------------------------------------------
(***************************************************************************)
(* Proofs about RilRequests, for any number of requests and radio changes.  *)
(* The radio state and the cells are invariants by themselves.  That no     *)
(* IMEI is lost rests on where a request is: a token with the vendor or     *)
(* with a timer has no answer yet, and its stage says whether its IMEI is   *)
(* valid.                                                                   *)
(***************************************************************************)
RequestInv(t) ==
  /\ rilRequest[t] = "none" =>
       rilAt[t] = "idle" /\ rilAnswers[t] = 0 /\ identityStage[t] = 0 /\ ~identityImei[t]
  /\ rilAt[t] # "idle" => rilAnswers[t] = 0
  /\ rilAnswers[t] <= 1
  /\ identityStage[t] = 1 => ~identityImei[t]
  /\ identityStage[t] = 2 => identityImei[t]
  /\ rilRequest[t] = "identity" /\ rilAnswers[t] > 0 =>
       (identityImei[t] <=> rilResult[t] \in {"imei", "imei_imeisv"})

RequestsInv == RilTypeOK /\ DOMAIN rilResult = RilTokens /\ \A t \in RilTokens : RequestInv(t)

(* Steps of the radio, which concern no token.                               *)
RadioStep == LoadVendorRil \/ VendorReady \/ Announce \/ ModemChanges \/ StateRequest

-----------------------------------------------------------------------------
(* Types.                                                                    *)

LEMMA RadioStepTyped == ASSUME RilTypeOK, RadioStep PROVE RilTypeOK'
<1>1. CASE LoadVendorRil \/ VendorReady \/ Announce
  BY <1>1 DEF RilTypeOK, LoadVendorRil, VendorReady, Announce, requestVars, cacheVars
<1>2. CASE ModemChanges
  <2>1. radioChanges' \in 0..MaxRadioChanges
    BY <1>2, MaxRadioChangesAssumption DEF RilTypeOK, ModemChanges
  <2> QED
    BY <1>2, <2>1 DEF RilTypeOK, ModemChanges, requestVars, cacheVars
<1>3. CASE StateRequest
  BY <1>3
     DEF RilTypeOK, StateRequest, Converted, DecodeRadioState, VoiceTechnology, requestVars
<1> QED
  BY <1>1, <1>2, <1>3 DEF RadioStep

LEMMA RequestTooEarlyKeeps ==
  ASSUME RequestsInv, NEW u \in RilTokens, RequestTooEarly(u) PROVE RequestsInv'
<1>1. RilTypeOK'
  BY RilTokensAssumption
     DEF RequestsInv, RilTypeOK, RequestTooEarly, Arrives, Complete, RilKinds,
         radioVars, requestVars, cacheVars
<1>2. DOMAIN rilResult' = RilTokens
  BY DEF RequestsInv, RequestTooEarly, Arrives, Complete, radioVars, requestVars,
         cacheVars
<1>3. ASSUME NEW t \in RilTokens PROVE RequestInv(t)'
  <2>1. CASE t = u
    <3>1. rilAt'[t] = "idle" /\ rilAnswers'[t] = 1 /\ rilResult'[t] = "not_available"
      BY <2>1 DEF RequestsInv, RilTypeOK, RequestInv, RequestTooEarly, Arrives, Complete
    <3>2. identityStage'[t] = 0 /\ ~identityImei'[t]
      BY <2>1 DEF RequestsInv, RequestInv, RequestTooEarly, Arrives
    <3>3. rilRequest'[t] # "none"
      BY <2>1 DEF RequestsInv, RilTypeOK, RequestTooEarly, Arrives, RilKinds
    <3> QED
      BY <3>1, <3>2, <3>3 DEF RequestInv
  <2>2. CASE t # u
    BY <2>2
       DEF RequestsInv, RilTypeOK, RequestInv, RequestTooEarly, Arrives, Complete,
           radioVars, requestVars, cacheVars
  <2> QED
    BY <2>1, <2>2
<1> QED
  BY <1>1, <1>2, <1>3 DEF RequestsInv

LEMMA RequestCellInfoKeeps ==
  ASSUME RequestsInv, NEW u \in RilTokens, RequestCellInfo(u) PROVE RequestsInv'
<1>1. RilTypeOK'
  BY RilTokensAssumption
     DEF RequestsInv, RilTypeOK, RequestCellInfo, Arrives, Complete, RilKinds,
         radioVars, requestVars, cacheVars
<1>2. DOMAIN rilResult' = RilTokens
  BY DEF RequestsInv, RequestCellInfo, Arrives, Complete, radioVars, requestVars,
         cacheVars
<1>3. ASSUME NEW t \in RilTokens PROVE RequestInv(t)'
  <2>1. CASE t = u
    BY <2>1
       DEF RequestsInv, RilTypeOK, RequestInv, RequestCellInfo, Arrives, Complete,
           radioVars, requestVars, cacheVars
  <2>2. CASE t # u
    BY <2>2
       DEF RequestsInv, RilTypeOK, RequestInv, RequestCellInfo, Arrives, Complete,
           radioVars, requestVars, cacheVars
  <2> QED
    BY <2>1, <2>2
<1> QED
  BY <1>1, <1>2, <1>3 DEF RequestsInv

LEMMA RequestRadioTechKeeps ==
  ASSUME RequestsInv, NEW u \in RilTokens, RequestRadioTech(u) PROVE RequestsInv'
<1>1. RilTypeOK'
  BY RilTokensAssumption
     DEF RequestsInv, RilTypeOK, RequestRadioTech, Arrives, Complete, VoiceTechnology,
         RilKinds, radioVars, requestVars, cacheVars
<1>2. DOMAIN rilResult' = RilTokens
  BY DEF RequestsInv, RequestRadioTech, Arrives, Complete, VoiceTechnology, radioVars,
         requestVars, cacheVars
<1>3. ASSUME NEW t \in RilTokens PROVE RequestInv(t)'
  <2>1. CASE t = u
    BY <2>1
       DEF RequestsInv, RilTypeOK, RequestInv, RequestRadioTech, Arrives, Complete,
           VoiceTechnology, radioVars, requestVars, cacheVars
  <2>2. CASE t # u
    BY <2>2
       DEF RequestsInv, RilTypeOK, RequestInv, RequestRadioTech, Arrives, Complete,
           VoiceTechnology, radioVars, requestVars, cacheVars
  <2> QED
    BY <2>1, <2>2
<1> QED
  BY <1>1, <1>2, <1>3 DEF RequestsInv

LEMMA RequestAnsweredHereKeeps ==
  ASSUME RequestsInv, NEW u \in RilTokens, RequestAnsweredHere(u) PROVE RequestsInv'
<1>1. RilTypeOK'
  BY RilTokensAssumption
     DEF RequestsInv, RilTypeOK, RequestAnsweredHere, Arrives, Complete, RilKinds,
         radioVars, requestVars, cacheVars
<1>2. DOMAIN rilResult' = RilTokens
  BY DEF RequestsInv, RequestAnsweredHere, Arrives, Complete, radioVars, requestVars,
         cacheVars
<1>3. ASSUME NEW t \in RilTokens PROVE RequestInv(t)'
  <2>1. CASE t = u
    BY <2>1
       DEF RequestsInv, RilTypeOK, RequestInv, RequestAnsweredHere, Arrives, Complete,
           radioVars, requestVars, cacheVars
  <2>2. CASE t # u
    BY <2>2
       DEF RequestsInv, RilTypeOK, RequestInv, RequestAnsweredHere, Arrives, Complete,
           radioVars, requestVars, cacheVars
  <2> QED
    BY <2>1, <2>2
<1> QED
  BY <1>1, <1>2, <1>3 DEF RequestsInv

LEMMA RequestFailsHereKeeps ==
  ASSUME RequestsInv, NEW u \in RilTokens, RequestFailsHere(u) PROVE RequestsInv'
<1>1. RilTypeOK'
  BY RilTokensAssumption
     DEF RequestsInv, RilTypeOK, RequestFailsHere, Arrives, Complete, RilKinds,
         radioVars, requestVars, cacheVars
<1>2. DOMAIN rilResult' = RilTokens
  BY DEF RequestsInv, RequestFailsHere, Arrives, Complete, radioVars, requestVars,
         cacheVars
<1>3. ASSUME NEW t \in RilTokens PROVE RequestInv(t)'
  <2>1. CASE t = u
    BY <2>1
       DEF RequestsInv, RilTypeOK, RequestInv, RequestFailsHere, Arrives, Complete,
           radioVars, requestVars, cacheVars
  <2>2. CASE t # u
    BY <2>2
       DEF RequestsInv, RilTypeOK, RequestInv, RequestFailsHere, Arrives, Complete,
           radioVars, requestVars, cacheVars
  <2> QED
    BY <2>1, <2>2
<1> QED
  BY <1>1, <1>2, <1>3 DEF RequestsInv

LEMMA RequestPassedKeeps ==
  ASSUME RequestsInv, NEW u \in RilTokens, RequestPassed(u) PROVE RequestsInv'
<1>1. RilTypeOK'
  BY RilTokensAssumption
     DEF RequestsInv, RilTypeOK, RequestPassed, Arrives, Translated, RilKinds,
         radioVars, requestVars, cacheVars
<1>2. DOMAIN rilResult' = RilTokens
  BY DEF RequestsInv, RequestPassed, Arrives, Translated, radioVars, requestVars,
         cacheVars
<1>3. ASSUME NEW t \in RilTokens PROVE RequestInv(t)'
  <2>1. CASE t = u
    BY <2>1
       DEF RequestsInv, RilTypeOK, RequestInv, RequestPassed, Arrives, Translated,
           radioVars, requestVars, cacheVars
  <2>2. CASE t # u
    BY <2>2
       DEF RequestsInv, RilTypeOK, RequestInv, RequestPassed, Arrives, Translated,
           radioVars, requestVars, cacheVars
  <2> QED
    BY <2>1, <2>2
<1> QED
  BY <1>1, <1>2, <1>3 DEF RequestsInv

LEMMA IdentityEndsKeeps ==
  ASSUME RequestsInv, NEW u \in RilTokens, IdentityEnds(u) PROVE RequestsInv'
<1>1. RilTypeOK'
  <2>1. rilAt' = [rilAt EXCEPT ![u] = "idle"] /\ rilAnswers' = [rilAnswers EXCEPT ![u] = @ + 1]
    BY DEF IdentityEnds, EndIdentity, Complete
  <2>2. identityStage' = [identityStage EXCEPT ![u] = 0]
    BY DEF IdentityEnds, EndIdentity
  <2>3. identityImei' \in [RilTokens -> BOOLEAN]
    BY DEF IdentityEnds, RequestsInv, RilTypeOK
  <2>4. rilAnswers' \in [RilTokens -> Nat] /\ identityStage' \in [RilTokens -> 0..2]
    BY <2>1, <2>2 DEF RequestsInv, RilTypeOK
  <2>5. rilAt' \in [RilTokens -> {"idle", "vendor", "timed", "stuck"}]
    BY <2>1 DEF RequestsInv, RilTypeOK
  <2>6. UNCHANGED <<radioVars, rilRequest, cacheVars>>
    BY DEF IdentityEnds
  <2> QED
    BY <2>3, <2>4, <2>5, <2>6 DEF RequestsInv, RilTypeOK, radioVars, cacheVars
<1>2. DOMAIN rilResult' = RilTokens
  BY DEF RequestsInv, IdentityEnds, EndIdentity, Complete, radioVars, requestVars,
         cacheVars
<1>3. ASSUME NEW t \in RilTokens PROVE RequestInv(t)'
  <2>1. CASE t = u
    BY <2>1
       DEF RequestsInv, RilTypeOK, RequestInv, IdentityEnds, EndIdentity, Complete,
           radioVars, requestVars, cacheVars
  <2>2. CASE t # u
    BY <2>2
       DEF RequestsInv, RilTypeOK, RequestInv, IdentityEnds, EndIdentity, Complete,
           radioVars, requestVars, cacheVars
  <2> QED
    BY <2>1, <2>2
<1> QED
  BY <1>1, <1>2, <1>3 DEF RequestsInv

LEMMA ImeiArrivesKeeps ==
  ASSUME RequestsInv, NEW u \in RilTokens, ImeiArrives(u) PROVE RequestsInv'
<1>1. RilTypeOK'
  BY RilTokensAssumption
     DEF RequestsInv, RilTypeOK, ImeiArrives, DeferImeisv, RilKinds, radioVars,
         requestVars, cacheVars
<1>2. DOMAIN rilResult' = RilTokens
  BY DEF RequestsInv, ImeiArrives, DeferImeisv, radioVars, requestVars, cacheVars
<1>3. ASSUME NEW t \in RilTokens PROVE RequestInv(t)'
  <2>1. CASE t = u
    BY <2>1
       DEF RequestsInv, RilTypeOK, RequestInv, ImeiArrives, DeferImeisv, radioVars,
           requestVars, cacheVars
  <2>2. CASE t # u
    BY <2>2
       DEF RequestsInv, RilTypeOK, RequestInv, ImeiArrives, DeferImeisv, radioVars,
           requestVars, cacheVars
  <2> QED
    BY <2>1, <2>2
<1> QED
  BY <1>1, <1>2, <1>3 DEF RequestsInv

LEMMA ImeisvArrivesKeeps ==
  ASSUME RequestsInv, NEW u \in RilTokens, ImeisvArrives(u) PROVE RequestsInv'
<1>1. RilTypeOK'
  BY RilTokensAssumption
     DEF RequestsInv, RilTypeOK, ImeisvArrives, EndIdentity, Complete, RilKinds,
         radioVars, requestVars, cacheVars
<1>2. DOMAIN rilResult' = RilTokens
  BY DEF RequestsInv, ImeisvArrives, EndIdentity, Complete, radioVars, requestVars,
         cacheVars
<1>3. ASSUME NEW t \in RilTokens PROVE RequestInv(t)'
  <2>1. CASE t = u
    BY <2>1
       DEF RequestsInv, RilTypeOK, RequestInv, ImeisvArrives, EndIdentity, Complete,
           radioVars, requestVars, cacheVars
  <2>2. CASE t # u
    BY <2>2
       DEF RequestsInv, RilTypeOK, RequestInv, ImeisvArrives, EndIdentity, Complete,
           radioVars, requestVars, cacheVars
  <2> QED
    BY <2>1, <2>2
<1> QED
  BY <1>1, <1>2, <1>3 DEF RequestsInv

LEMMA VoiceRegistrationKeeps ==
  ASSUME RequestsInv, NEW u \in RilTokens, VoiceRegistration(u) PROVE RequestsInv'
<1>1. RilTypeOK'
  <2>1. rilAt' = [rilAt EXCEPT ![u] = "idle"] /\ rilAnswers' = [rilAnswers EXCEPT ![u] = @ + 1]
    BY DEF VoiceRegistration, Complete
  <2>2. cells' \in [Families -> RilTokens \cup {NoCell}]
    <3>1. PICK cell \in {NoCell, u} : cells' = [cells EXCEPT !["wcdma"] = cell]
      BY Zenon DEF VoiceRegistration
    <3> QED
      BY <3>1 DEF RequestsInv, RilTypeOK
  <2>3. registrations' \subseteq {"voice", "data"}
    BY DEF VoiceRegistration, RequestsInv, RilTypeOK
  <2>4. /\ rilAnswers' \in [RilTokens -> Nat]
        /\ rilAt' \in [RilTokens -> {"idle", "vendor", "timed", "stuck"}]
    BY <2>1 DEF RequestsInv, RilTypeOK
  <2>5. lastVoice' = u
    BY DEF VoiceRegistration
  <2>6. UNCHANGED <<radioVars, rilRequest, identityStage, identityImei,
                    voiceRadioTechnology, registeredDataRadioTechnology, lastData>>
    BY DEF VoiceRegistration
  <2> QED
    BY <2>2, <2>3, <2>4, <2>5, <2>6 DEF RequestsInv, RilTypeOK, radioVars
<1>2. DOMAIN rilResult' = RilTokens
  BY DEF RequestsInv, VoiceRegistration, Complete, radioVars, requestVars, cacheVars
<1>3. ASSUME NEW t \in RilTokens PROVE RequestInv(t)'
  <2>1. CASE t = u
    BY <2>1
       DEF RequestsInv, RilTypeOK, RequestInv, VoiceRegistration, Complete, radioVars,
           requestVars, cacheVars
  <2>2. CASE t # u
    BY <2>2
       DEF RequestsInv, RilTypeOK, RequestInv, VoiceRegistration, Complete, radioVars,
           requestVars, cacheVars
  <2> QED
    BY <2>1, <2>2
<1> QED
  BY <1>1, <1>2, <1>3 DEF RequestsInv

LEMMA DataRegistrationKeeps ==
  ASSUME RequestsInv, NEW u \in RilTokens, DataRegistration(u) PROVE RequestsInv'
<1>1. RilTypeOK'
  <2>1. rilAt' = [rilAt EXCEPT ![u] = "idle"] /\ rilAnswers' = [rilAnswers EXCEPT ![u] = @ + 1]
    BY DEF DataRegistration, Complete
  <2>2. PICK family \in Families \cup {"unknown"}, cell \in {NoCell, u} :
           cells' = CellsOfData(u, family, cell)
    BY Zenon DEF DataRegistration
  <2>3. cells' \in [Families -> RilTokens \cup {NoCell}]
    BY <2>2 DEF CellsOfData
  <2>4. registrations' \subseteq {"voice", "data"}
    BY DEF DataRegistration, RequestsInv, RilTypeOK
  <2>5. registeredDataRadioTechnology' \in Families \cup {"unknown"}
    BY DEF DataRegistration
  <2> QED
    BY <2>1, <2>3, <2>4, <2>5 DEF RequestsInv, RilTypeOK, DataRegistration, radioVars
<1>2. DOMAIN rilResult' = RilTokens
  BY DEF RequestsInv, DataRegistration, Complete, CellsOfData, radioVars, requestVars,
         cacheVars
<1>3. ASSUME NEW t \in RilTokens PROVE RequestInv(t)'
  <2>1. CASE t = u
    BY <2>1
       DEF RequestsInv, RilTypeOK, RequestInv, DataRegistration, Complete, CellsOfData,
           radioVars, requestVars, cacheVars
  <2>2. CASE t # u
    BY <2>2
       DEF RequestsInv, RilTypeOK, RequestInv, DataRegistration, Complete, CellsOfData,
           radioVars, requestVars, cacheVars
  <2> QED
    BY <2>1, <2>2
<1> QED
  BY <1>1, <1>2, <1>3 DEF RequestsInv

LEMMA DataRegistrationShortKeeps ==
  ASSUME RequestsInv, NEW u \in RilTokens, DataRegistrationShort(u) PROVE RequestsInv'
<1>1. RilTypeOK'
  BY RilTokensAssumption
     DEF RequestsInv, RilTypeOK, DataRegistrationShort, Complete, RilKinds, radioVars,
         requestVars, cacheVars
<1>2. DOMAIN rilResult' = RilTokens
  BY DEF RequestsInv, DataRegistrationShort, Complete, radioVars, requestVars, cacheVars
<1>3. ASSUME NEW t \in RilTokens PROVE RequestInv(t)'
  <2>1. CASE t = u
    BY <2>1
       DEF RequestsInv, RilTypeOK, RequestInv, DataRegistrationShort, Complete,
           radioVars, requestVars, cacheVars
  <2>2. CASE t # u
    BY <2>2
       DEF RequestsInv, RilTypeOK, RequestInv, DataRegistrationShort, Complete,
           radioVars, requestVars, cacheVars
  <2> QED
    BY <2>1, <2>2
<1> QED
  BY <1>1, <1>2, <1>3 DEF RequestsInv

LEMMA ReplyPassedKeeps ==
  ASSUME RequestsInv, NEW u \in RilTokens, ReplyPassed(u) PROVE RequestsInv'
<1>1. RilTypeOK'
  BY RilTokensAssumption
     DEF RequestsInv, RilTypeOK, ReplyPassed, Complete, RilKinds, radioVars,
         requestVars, cacheVars
<1>2. DOMAIN rilResult' = RilTokens
  BY DEF RequestsInv, ReplyPassed, Complete, radioVars, requestVars, cacheVars
<1>3. ASSUME NEW t \in RilTokens PROVE RequestInv(t)'
  <2>1. CASE t = u
    BY <2>1
       DEF RequestsInv, RilTypeOK, RequestInv, ReplyPassed, Complete, radioVars,
           requestVars, cacheVars
  <2>2. CASE t # u
    BY <2>2
       DEF RequestsInv, RilTypeOK, RequestInv, ReplyPassed, Complete, radioVars,
           requestVars, cacheVars
  <2> QED
    BY <2>1, <2>2
<1> QED
  BY <1>1, <1>2, <1>3 DEF RequestsInv

LEMMA RequestImeisvKeeps ==
  ASSUME RequestsInv, NEW u \in RilTokens, RequestImeisv(u) PROVE RequestsInv'
<1>1. RilTypeOK'
  BY RilTokensAssumption
     DEF RequestsInv, RilTypeOK, RequestImeisv, RilKinds, radioVars, requestVars,
         cacheVars
<1>2. DOMAIN rilResult' = RilTokens
  BY DEF RequestsInv, RequestImeisv, radioVars, requestVars, cacheVars
<1>3. ASSUME NEW t \in RilTokens PROVE RequestInv(t)'
  <2>1. CASE t = u
    BY <2>1
       DEF RequestsInv, RilTypeOK, RequestInv, RequestImeisv, radioVars, requestVars,
           cacheVars
  <2>2. CASE t # u
    BY <2>2
       DEF RequestsInv, RilTypeOK, RequestInv, RequestImeisv, radioVars, requestVars,
           cacheVars
  <2> QED
    BY <2>1, <2>2
<1> QED
  BY <1>1, <1>2, <1>3 DEF RequestsInv

LEMMA RequestsInvStarts == ASSUME RilInit PROVE RequestsInv
<1>1. RilTypeOK
  <2>1. radioChanges \in 0..MaxRadioChanges
    BY MaxRadioChangesAssumption DEF RilInit
  <2>2. cells \in [Families -> RilTokens \cup {NoCell}]
    BY DEF RilInit
  <2>3. rilAnswers \in [RilTokens -> Nat] /\ identityStage \in [RilTokens -> 0..2]
    BY DEF RilInit
  <2>4. /\ rilRequest \in [RilTokens -> RilKinds \cup {"none"}]
        /\ rilAt \in [RilTokens -> {"idle", "vendor", "timed", "stuck"}]
        /\ identityImei \in [RilTokens -> BOOLEAN]
    BY DEF RilInit
  <2>5. /\ vendorInit = "none" /\ modemRadio = "off" /\ statePending = FALSE
        /\ androidRadio = "unavailable" /\ voiceRadioTechnology = "unknown"
        /\ registrations = {} /\ registeredDataRadioTechnology = "unknown"
        /\ lastData = NoCell /\ lastVoice = NoCell
    BY DEF RilInit
  <2> QED
    BY <2>1, <2>2, <2>3, <2>4, <2>5 DEF RilTypeOK, ModemRadioStates
<1>2. ASSUME NEW t \in RilTokens PROVE RequestInv(t)
  BY DEF RilInit, RequestInv
<1> QED
  BY <1>1, <1>2 DEF RequestsInv, RilInit

LEMMA RequestsInvKept == ASSUME RequestsInv, [RilNext]_rilVars PROVE RequestsInv'
<1>1. CASE UNCHANGED rilVars
  BY <1>1 DEF RequestsInv, RilTypeOK, RequestInv, rilVars, radioVars, requestVars, cacheVars
<1>2. CASE RadioStep
  <2>1. UNCHANGED requestVars
    BY <1>2 DEF RadioStep, LoadVendorRil, VendorReady, Announce, ModemChanges, StateRequest
  <2>2. RilTypeOK'
    BY <1>2, RadioStepTyped DEF RequestsInv
  <2> QED
    BY <2>1, <2>2 DEF RequestsInv, RequestInv, requestVars
<1>3. ASSUME NEW t \in RilTokens, RilArrival(t) \/ RequestImeisv(t) \/ RilVendorStep(t)
      PROVE  RequestsInv'
  BY <1>3, RequestTooEarlyKeeps, RequestCellInfoKeeps, RequestRadioTechKeeps,
     RequestAnsweredHereKeeps, RequestFailsHereKeeps, RequestPassedKeeps,
     IdentityEndsKeeps, ImeiArrivesKeeps, ImeisvArrivesKeeps, VoiceRegistrationKeeps,
     DataRegistrationKeeps, DataRegistrationShortKeeps, ReplyPassedKeeps,
     RequestImeisvKeeps
     DEF RilArrival, RilVendorStep
<1> QED
  BY <1>1, <1>2, <1>3 DEF RilNext, RadioStep

(* What every reachable state satisfies, for any number of requests.         *)
LEMMA RequestsInvHolds == RilSpec => []RequestsInv
  BY RequestsInvStarts, RequestsInvKept, PTL DEF RilSpec

(* A validated IMEI is never thrown away, whichever of the two queries of a  *)
(* DEVICE_IDENTITY fails or is refused (onRequestCompleteDeviceIdentity).    *)
THEOREM ImeiSurvivesAlways == RilSpec => []ImeiSurvives
<1>1. RequestsInv => ImeiSurvives
  BY DEF RequestsInv, RequestInv, ImeiSurvives
<1> QED
  BY <1>1, RequestsInvHolds, PTL

(* No request is completed twice, in whichever stage it ends.                *)
THEOREM RilOneAnswer == RilSpec => []RilAnsweredOnce
<1>1. RequestsInv => RilAnsweredOnce
  BY DEF RequestsInv, RequestInv, RilAnsweredOnce
<1> QED
  BY <1>1, RequestsInvHolds, PTL

-----------------------------------------------------------------------------
(* The radio state and the cells.                                            *)

LEMMA RadioStepIsCurrent ==
  ASSUME AndroidRadioIsCurrent, RadioStep PROVE AndroidRadioIsCurrent'
<1>1. CASE LoadVendorRil \/ VendorReady \/ Announce \/ ModemChanges
  BY <1>1 DEF AndroidRadioIsCurrent, LoadVendorRil, VendorReady, Announce, ModemChanges
<1>2. CASE StateRequest
  BY <1>2 DEF AndroidRadioIsCurrent, StateRequest, Ready, Converted
<1> QED
  BY <1>1, <1>2 DEF RadioStep

LEMMA RepliesAreLatest ==
  ASSUME RilTypeOK, CellsAreLatest, NEW t \in RilTokens,
         VoiceRegistration(t) \/ DataRegistration(t)
  PROVE  CellsAreLatest'
<1>1. CASE VoiceRegistration(t)
  BY <1>1 DEF RilTypeOK, CellsAreLatest, VoiceRegistration, Families
<1>2. CASE DataRegistration(t)
  <2>1. PICK family \in Families \cup {"unknown"}, cell \in {NoCell, t} :
           cells' = CellsOfData(t, family, cell)
    BY <1>2, Zenon DEF DataRegistration
  <2> QED
    BY <1>2, <2>1, RilTokensAssumption
       DEF CellsAreLatest, DataRegistration, CellsOfData, Families
<1> QED
  BY <1>1, <1>2

(* After the late initialisation Android's radio state is the modem's as     *)
(* soon as what was announced has been handled, and the cells for a later    *)
(* GET_CELL_INFO_LIST are those of the latest replies.                       *)
THEOREM AndroidStaysCurrent == RilSpec => []AndroidIsCurrent
<1>1. RilInit => AndroidIsCurrent
  BY DEF RilInit, AndroidIsCurrent, AndroidRadioIsCurrent, CellsAreLatest, Families
<1>2. RequestsInv /\ AndroidIsCurrent /\ [RilNext]_rilVars => AndroidIsCurrent'
  <2> SUFFICES ASSUME RequestsInv, AndroidIsCurrent, [RilNext]_rilVars
      PROVE  AndroidIsCurrent'
    OBVIOUS
  <2>1. CASE RadioStep
    <3>1. UNCHANGED <<cells, lastData, lastVoice>>
      BY <2>1 DEF RadioStep, LoadVendorRil, VendorReady, Announce, ModemChanges,
                  StateRequest, cacheVars
    <3> QED
      BY <2>1, <3>1, RadioStepIsCurrent DEF AndroidIsCurrent, CellsAreLatest
  <2>2. ASSUME NEW t \in RilTokens, VoiceRegistration(t) \/ DataRegistration(t)
        PROVE  AndroidIsCurrent'
    <3>1. UNCHANGED radioVars
      BY <2>2 DEF VoiceRegistration, DataRegistration
    <3>2. CellsAreLatest'
      BY <2>2, RepliesAreLatest DEF RequestsInv, AndroidIsCurrent
    <3> QED
      BY <3>1, <3>2 DEF AndroidIsCurrent, AndroidRadioIsCurrent, Converted, radioVars
  <2>3. ASSUME UNCHANGED <<radioVars, cells, lastData, lastVoice>> PROVE AndroidIsCurrent'
    BY <2>3 DEF AndroidIsCurrent, AndroidRadioIsCurrent, CellsAreLatest, Converted, radioVars
  <2>4. ASSUME NEW t \in RilTokens,
               \/ RilArrival(t) \/ RequestImeisv(t) \/ IdentityEnds(t) \/ ImeiArrives(t)
               \/ ImeisvArrives(t) \/ DataRegistrationShort(t) \/ ReplyPassed(t)
        PROVE  AndroidIsCurrent'
    BY <2>3, <2>4
       DEF RilArrival, RequestTooEarly, RequestCellInfo, RequestRadioTech,
           RequestAnsweredHere, RequestFailsHere, RequestPassed, RequestImeisv,
           IdentityEnds, ImeiArrives, ImeisvArrives, DataRegistrationShort, ReplyPassed,
           cacheVars
  <2>5. CASE UNCHANGED rilVars
    BY <2>3, <2>5 DEF rilVars, cacheVars
  <2> QED
    BY <2>1, <2>2, <2>4, <2>5 DEF RilNext, RadioStep, RilVendorStep
<1> QED
  BY <1>1, <1>2, RequestsInvHolds, PTL DEF RilSpec

-----------------------------------------------------------------------------
(***************************************************************************)
(* Proofs about NetworkRecovery, for every number of attempts and           *)
(* generations.  The inductive invariant adds to the properties that no     *)
(* timer or request carries a generation that is still to come: this is why *)
(* a new generation starts with both marks cleared and nothing under way.   *)
(***************************************************************************)
FutureEmpty == \A g \in Generations : g > generation => TimersOf(g) + RequestsOf(g) = 0

Chains == OneChain /\ MarksAreExact /\ FutureEmpty
IInv == TypeOK /\ Chains /\ QuietWhenBlocked

(* A value that equals a truth value is one.                                *)
LEMMA Boolean == \A z : z = TRUE \/ z = FALSE => z \in BOOLEAN
  OBVIOUS

MarksType ==
  /\ timerPending \in BOOLEAN /\ requestInFlight \in BOOLEAN
  /\ attempts \in 0..MaxAttempts /\ generation \in Generations

(* Invalidating keeps the type of the marks.                                *)
LEMMA InvalidateType == ASSUME TypeOK, NEW reset, Invalidate(reset) PROVE MarksType'
<1>1. timerPending' \in BOOLEAN /\ requestInFlight' \in BOOLEAN
  BY Boolean DEF Invalidate
<1>2. attempts' \in 0..MaxAttempts
  BY BoundAssumption DEF Invalidate, TypeOK
<1>3. generation' \in Generations
  BY BoundAssumption DEF Invalidate, TypeOK, Generations
<1> QED
  BY <1>1, <1>2, <1>3 DEF MarksType

(* Every variable keeps its type.                                           *)
THEOREM TypeCorrect == Spec => []TypeOK
<1> USE DEF Threads, RegStates
<1>1. Init => TypeOK
  <2> SUFFICES ASSUME Init PROVE TypeOK
    OBVIOUS
  <2>1. attempts \in 0..MaxAttempts /\ generation \in Generations
        /\ local \in [Threads -> Generations]
    BY BoundAssumption DEF Init, Generations
  <2> QED
    BY <2>1, Boolean DEF Init, TypeOK
<1>2. TypeOK /\ [Next]_vars => TypeOK'
  <2> SUFFICES ASSUME TypeOK, [Next]_vars PROVE TypeOK'
    OBVIOUS
  <2>1. ASSUME NEW t \in {"request", "vendor"}, NEW on, NEW ready, on \in BOOLEAN,
               ready \in BOOLEAN, simRuimReady' \in BOOLEAN, Note(t, on, ready)
        PROVE  TypeOK'
    BY <2>1 DEF Note, Goto, facts, marks, away, TypeOK
  <2>2. ASSUME NEW on \in BOOLEAN, RadioPower(on) PROVE TypeOK'
    <3>1. (on /\ simRuimReady) \in BOOLEAN /\ simRuimReady' \in BOOLEAN
      BY <2>2 DEF RadioPower, TypeOK
    <3> QED
      BY <2>1, <2>2, <3>1 DEF RadioPower
  <2>3. ASSUME NEW t \in {"request", "vendor"}, NEW state \in RadioStates,
               ProcessRadioState(t, state)
        PROVE  TypeOK'
    <3>1. simRuimReady' \in BOOLEAN
      BY <2>3, Boolean DEF ProcessRadioState, TypeOK
    <3> QED
      BY <2>1, <2>3, <3>1 DEF ProcessRadioState
  <2>record. ASSUME NEW t \in {"request", "vendor"}, UpdateRadioState(t) PROVE TypeOK'
    <3>1. MarksType'
      BY <2>record, InvalidateType DEF UpdateRadioState, TypeOK, MarksType, marks
    <3>2. noted' \in [Threads -> [on : BOOLEAN, ready : BOOLEAN]]
      BY <2>record DEF UpdateRadioState, NoNote, TypeOK
    <3>3. radioOn' \in BOOLEAN /\ simReady' \in BOOLEAN
      BY <2>record DEF UpdateRadioState, TypeOK
    <3> QED
      BY <2>record, <3>1, <3>2, <3>3
      DEF UpdateRadioState, AndSchedule, Goto, away, TypeOK, MarksType
  <2>4. ASSUME NEW t \in {"request", "vendor"}, NEW automatic \in BOOLEAN,
               NEW reset \in BOOLEAN, UpdateSelectionMode(t, automatic, reset)
        PROVE  TypeOK'
    <3>1. MarksType'
      BY <2>4, InvalidateType DEF UpdateSelectionMode, TypeOK, MarksType, marks
    <3> QED
      BY <2>4, <3>1, Boolean DEF UpdateSelectionMode, AndSchedule, Goto, away, TypeOK, MarksType
  <2>5. ASSUME NEW active \in BOOLEAN, UpdateCallState(active) PROVE TypeOK'
    <3>1. MarksType'
      BY <2>5, InvalidateType DEF UpdateCallState, TypeOK, MarksType, marks
    <3> QED
      BY <2>5, <3>1, Boolean DEF UpdateCallState, AndSchedule, Goto, away, TypeOK, MarksType
  <2>6. ASSUME NEW voice \in BOOLEAN, NEW state \in RegStates, UpdateRegistration(voice, state)
        PROVE  TypeOK'
    <3>1. MarksType'
      BY <2>6, InvalidateType DEF UpdateRegistration, TypeOK, MarksType, marks
    <3> QED
      BY <2>6, <3>1, Boolean DEF UpdateRegistration, AndSchedule, Goto, away, TypeOK, MarksType
  <2>7. ASSUME NEW t \in {"request", "vendor"}, Schedule(t) PROVE TypeOK'
    BY <2>7, Boolean DEF Schedule, Goto, facts, away, TypeOK
  <2>8. ASSUME NEW t \in {"request", "vendor"}, Arm(t) PROVE TypeOK'
    BY <2>8, Boolean DEF Arm, ForgetTimer, Goto, facts, TypeOK
  <2>9. ASSUME NEW g \in Generations, TimerFires(g) PROVE TypeOK'
    <3>1. timers' \in [Generations -> Nat]
      BY <2>9 DEF TimerFires, TypeOK
    <3> QED
      BY <2>9, <3>1 DEF TimerFires, Goto, facts, marks, TypeOK
  <2>10. CASE TimerDecides
    <3>1. attempts' \in 0..MaxAttempts
      BY <2>10, BoundAssumption DEF TimerDecides, Conditions, TypeOK
    <3>2. timerPending' \in BOOLEAN /\ requestInFlight' \in BOOLEAN /\ starved' \in BOOLEAN
          /\ timers' = timers
      BY <2>10, Boolean DEF TimerDecides, ForgetTimer, TypeOK
    <3>3. pc' \in [Threads -> {"idle", "radio", "schedule", "arm", "fired", "send"}]
      BY <2>10 DEF TimerDecides, Goto, TypeOK
    <3> QED
      BY <2>10, <3>1, <3>2, <3>3 DEF TimerDecides, facts, TypeOK
  <2>11. CASE SendRequest
    BY <2>11 DEF SendRequest, Goto, facts, marks, TypeOK
  <2>12. ASSUME NEW g \in Generations, RequestComplete(g) PROVE TypeOK'
    <3>1. requests' \in [Generations -> Nat]
      BY <2>12 DEF RequestComplete, TypeOK
    <3> QED
      BY <2>12, <3>1, Boolean DEF RequestComplete, AndSchedule, Goto, facts, TypeOK
  <2>13. CASE UNCHANGED vars
    BY <2>13 DEF vars, facts, marks, away, TypeOK
  <2> QED
    BY <2>2, <2>3, <2>record, <2>4, <2>5, <2>6, <2>7, <2>8, <2>9, <2>10, <2>11, <2>12, <2>13
    DEF Next, Updates, Caller, Timer, SetSelection, SelectionReply
<1> QED
  BY <1>1, <1>2, PTL DEF Spec
-----------------------------------------------------------------------------
LEMMA HoldsType == ASSUME NEW t, NEW place, NEW g PROVE Holds(t, place, g) \in {0, 1}
  BY DEF Holds

LEMMA HoldersType ==
  ASSUME TypeOK PROVE \A g \in Generations : TimersOf(g) \in Nat /\ RequestsOf(g) \in Nat
  BY HoldsType DEF TypeOK, TimersOf, RequestsOf

(* A thread that is neither armed, fired nor sending holds nothing.         *)
LEMMA HoldersKept ==
  ASSUME TypeOK, NEW t \in Threads, pc[t] \in {"idle", "radio", "schedule"},
         NEW place \in {"idle", "radio", "schedule"}, Goto(t, place), UNCHANGED <<local, away>>
  PROVE  \A g \in Generations : TimersOf(g)' = TimersOf(g) /\ RequestsOf(g)' = RequestsOf(g)
<1>1. \A u \in Threads, p \in {"arm", "fired", "send"}, g \in Generations :
        Holds(u, p, g)' = Holds(u, p, g)
  BY DEF Holds, Goto, TypeOK, Threads
<1> QED
  BY <1>1 DEF TimersOf, RequestsOf, away, Threads

(* What an update does to the marks: nothing, or a new generation.           *)
LEMMA UpdateKeepsChains ==
  ASSUME TypeOK, Chains,
         \A g \in Generations : TimersOf(g)' = TimersOf(g) /\ RequestsOf(g)' = RequestsOf(g),
         NEW reset, Invalidate(reset) \/ UNCHANGED marks
  PROVE  Chains'
<1>1. CASE UNCHANGED marks
  BY <1>1 DEF Chains, OneChain, MarksAreExact, FutureEmpty, marks, TypeOK
<1>2. CASE Invalidate(reset)
  <2>1. generation' = generation + 1 /\ generation' \in Generations
        /\ timerPending' = FALSE /\ requestInFlight' = FALSE
    BY <1>2, BoundAssumption DEF Invalidate, TypeOK, Generations
  <2>2. \A g \in Generations : g >= generation' => TimersOf(g) = 0 /\ RequestsOf(g) = 0
    <3> SUFFICES ASSUME NEW g \in Generations, g >= generation'
                 PROVE  TimersOf(g) = 0 /\ RequestsOf(g) = 0
      OBVIOUS
    <3>1. TimersOf(g) + RequestsOf(g) = 0
      BY <2>1 DEF Chains, FutureEmpty, Generations, TypeOK
    <3> QED
      BY <3>1, HoldersType
  <2> QED
    BY <2>1, <2>2 DEF Chains, OneChain, MarksAreExact, FutureEmpty, TypeOK, Generations
<1> QED
  BY <1>1, <1>2

(* What a step does to the chain of one generation l, when it leaves the     *)
(* generation and the other chains alone.                                   *)
LEMMA OneChainMoves ==
  ASSUME TypeOK, Chains, NEW l \in Generations, generation' = generation,
         l # generation => UNCHANGED <<timerPending, requestInFlight>>,
         \A g \in Generations : g # l => /\ TimersOf(g)' = TimersOf(g)
                                        /\ RequestsOf(g)' = RequestsOf(g),
         \A g \in Generations : g = l =>
           /\ TimersOf(g)' + RequestsOf(g)' <= 1
           /\ g > generation => TimersOf(g)' + RequestsOf(g)' = 0
           /\ g = generation => /\ timerPending' <=> TimersOf(g)' = 1
                                /\ requestInFlight' <=> RequestsOf(g)' = 1
  PROVE  Chains'
<1>1. OneChain'
  <2> SUFFICES ASSUME NEW g \in Generations PROVE TimersOf(g)' + RequestsOf(g)' <= 1
    BY DEF OneChain
  <2> QED
    BY DEF Chains, OneChain
<1>2. FutureEmpty'
  <2> SUFFICES ASSUME NEW g \in Generations, g > generation
               PROVE  TimersOf(g)' + RequestsOf(g)' = 0
    BY DEF FutureEmpty
  <2> QED
    BY DEF Chains, FutureEmpty
<1>3. MarksAreExact'
  <2> SUFFICES ASSUME NEW g \in Generations, g = generation
               PROVE  /\ timerPending' <=> TimersOf(g)' = 1
                      /\ requestInFlight' <=> RequestsOf(g)' = 1
    BY DEF MarksAreExact
  <2>1. CASE g = l
    BY <2>1
  <2>2. CASE g # l
    BY <2>2 DEF Chains, MarksAreExact
  <2> QED
    BY <2>1, <2>2
<1> QED
  BY <1>1, <1>2, <1>3 DEF Chains

(* What the marks and the invariant say of the generation l.                *)
LEMMA ChainsAt ==
  ASSUME TypeOK, Chains, NEW l \in Generations
  PROVE  /\ TimersOf(l) \in Nat /\ RequestsOf(l) \in Nat /\ TimersOf(l) + RequestsOf(l) <= 1
         /\ l > generation => TimersOf(l) + RequestsOf(l) = 0
         /\ l = generation => /\ timerPending <=> TimersOf(l) = 1
                              /\ requestInFlight <=> RequestsOf(l) = 1
  BY HoldersType DEF Chains, OneChain, FutureEmpty, MarksAreExact

(* Scheduling starts a chain where there is none.                           *)
LEMMA ScheduleKeepsChains ==
  ASSUME TypeOK, Chains, NEW t \in {"request", "vendor"}, Schedule(t) PROVE Chains'
<1>1. CASE Conditions /\ ~timerPending
  <2> DEFINE l == generation
  <2>1. \A g \in Generations : TimersOf(g)' = TimersOf(g) + (IF g = l THEN 1 ELSE 0)
    BY <1>1 DEF Schedule, Goto, TimersOf, Holds, TypeOK, Threads, away
  <2>2. \A g \in Generations : RequestsOf(g)' = RequestsOf(g)
    BY <1>1 DEF Schedule, Goto, RequestsOf, Holds, TypeOK, Threads, away
  <2>3. timerPending' = TRUE /\ requestInFlight' = requestInFlight /\ generation' = generation
        /\ ~requestInFlight
    BY <1>1 DEF Schedule, Conditions
  <2>4. l \in Generations /\ l = generation
    BY DEF TypeOK
  <2> HIDE DEF l
  <2>5. TimersOf(l) = 0 /\ RequestsOf(l) = 0
    BY <1>1, <2>3, <2>4, ChainsAt
  <2>6. \A g \in Generations : g # l => TimersOf(g)' = TimersOf(g) /\ RequestsOf(g)' = RequestsOf(g)
    BY <2>1, <2>2, HoldersType
  <2>7. \A g \in Generations : g = l => TimersOf(g)' = 1 /\ RequestsOf(g)' = 0
    BY <2>1, <2>2, <2>5
  <2>8. \A g \in Generations : g = l =>
           /\ TimersOf(g)' + RequestsOf(g)' <= 1
           /\ ~(g > generation)
           /\ timerPending' <=> TimersOf(g)' = 1
           /\ requestInFlight' <=> RequestsOf(g)' = 1
    BY <2>3, <2>4, <2>7 DEF Generations
  <2> QED
    BY <2>3, <2>4, <2>6, <2>8, OneChainMoves
<1>2. CASE ~(Conditions /\ ~timerPending)
  <2>1. \A g \in Generations : TimersOf(g)' = TimersOf(g) /\ RequestsOf(g)' = RequestsOf(g)
    BY <1>2, HoldersKept DEF Schedule, Threads
  <2> QED
    BY <1>2, <2>1 DEF Schedule, Chains, OneChain, MarksAreExact, FutureEmpty
<1> QED
  BY <1>1, <1>2

(* A chain that ends, of the current generation or of an older one.         *)
LEMMA EndKeepsChains ==
  ASSUME TypeOK, Chains, NEW l \in Generations,
         generation' = generation, requestInFlight' = requestInFlight,
         timerPending' = (timerPending /\ l # generation),
         \A g \in Generations : TimersOf(g)' = TimersOf(g) - (IF g = l THEN 1 ELSE 0),
         \A g \in Generations : RequestsOf(g)' = RequestsOf(g), TimersOf(l) >= 1
  PROVE  Chains'
<1>1. TimersOf(l) = 1 /\ RequestsOf(l) = 0 /\ ~(l > generation)
      /\ (l = generation => ~requestInFlight)
  BY ChainsAt
<1>2. \A g \in Generations : g # l => TimersOf(g)' = TimersOf(g) /\ RequestsOf(g)' = RequestsOf(g)
  BY HoldersType
<1>3. \A g \in Generations : g = l => TimersOf(g)' = 0 /\ RequestsOf(g)' = 0
  BY <1>1
<1>4. l # generation => timerPending' = timerPending
  BY DEF TypeOK
<1>5. l = generation => ~timerPending'
  OBVIOUS
<1> QED
  BY <1>1, <1>2, <1>3, <1>4, <1>5, OneChainMoves

LEMMA ArmKeepsChains ==
  ASSUME TypeOK, Chains, NEW t \in {"request", "vendor"}, Arm(t) PROVE Chains'
<1> DEFINE l == local[t]
<1>0. l \in Generations /\ \A g \in Generations : RequestsOf(g)' = RequestsOf(g)
  BY DEF Arm, Goto, RequestsOf, Holds, TypeOK, Threads
<1>1. CASE timers' = [timers EXCEPT ![l] = @ + 1] /\ UNCHANGED timerPending
  <2>1. \A g \in Generations : TimersOf(g)' = TimersOf(g)
    BY <1>1 DEF Arm, Goto, TimersOf, Holds, TypeOK, Threads
  <2> QED
    BY <1>0, <1>1, <2>1 DEF Arm, Chains, OneChain, MarksAreExact, FutureEmpty
<1>2. CASE ForgetTimer(t)
  <2>1. \A g \in Generations : TimersOf(g)' = TimersOf(g) - (IF g = l THEN 1 ELSE 0)
    BY <1>2 DEF Arm, ForgetTimer, Goto, TimersOf, Holds, TypeOK, Threads
  <2>2. TimersOf(l) >= 1
    BY <1>0 DEF Arm, TimersOf, Holds, TypeOK
  <2>3. timerPending' = (timerPending /\ l # generation) /\ generation' = generation
        /\ requestInFlight' = requestInFlight
    BY <1>2 DEF Arm, ForgetTimer
  <2> HIDE DEF l
  <2> QED
    BY <1>0, <2>1, <2>2, <2>3, EndKeepsChains
<1> QED
  BY <1>1, <1>2 DEF Arm

LEMMA TimerFiresKeepsChains ==
  ASSUME TypeOK, Chains, NEW f \in Generations, TimerFires(f) PROVE Chains'
<1>1. \A g \in Generations : TimersOf(g)' = TimersOf(g) /\ RequestsOf(g)' = RequestsOf(g)
  BY DEF TimerFires, Goto, TimersOf, RequestsOf, Holds, TypeOK, Threads
<1> QED
  BY <1>1 DEF TimerFires, marks, Chains, OneChain, MarksAreExact, FutureEmpty

LEMMA TimerDecidesKeepsChains == ASSUME TypeOK, Chains, TimerDecides PROVE Chains'
<1> DEFINE l == local["timer"]
<1>0. l \in Generations /\ generation' = generation /\ TimersOf(l) >= 1
  BY DEF TimerDecides, TimersOf, Holds, TypeOK, Threads
<1>1. \A g \in Generations : TimersOf(g)' = TimersOf(g) - (IF g = l THEN 1 ELSE 0)
  BY DEF TimerDecides, ForgetTimer, Goto, TimersOf, Holds, TypeOK, Threads
<1>2. CASE pc'["timer"] = "idle"
  <2>1. \A g \in Generations : RequestsOf(g)' = RequestsOf(g)
    BY <1>2 DEF TimerDecides, Goto, RequestsOf, Holds, TypeOK, Threads
  <2>2. timerPending' = (timerPending /\ l # generation)
    BY <1>2 DEF TimerDecides, ForgetTimer
  <2>3. requestInFlight' = requestInFlight
    BY <1>2 DEF TimerDecides, Goto, TypeOK, Threads
  <2> HIDE DEF l
  <2> QED
    BY <1>0, <1>1, <2>1, <2>2, <2>3, EndKeepsChains
<1>3. CASE pc'["timer"] # "idle"
  <2>1. l = generation /\ Conditions /\ timerPending' = FALSE /\ requestInFlight' = TRUE
    BY <1>3 DEF TimerDecides, Goto, TypeOK, Threads
  <2>2. \A g \in Generations :
          RequestsOf(g)' = RequestsOf(g) + (IF g = l THEN 1 ELSE 0)
    <3>1. pc["timer"] = "fired" /\ pc'["timer"] = "send" /\ UNCHANGED <<local, requests>>
      BY <1>3 DEF TimerDecides, Goto, TypeOK, Threads
    <3> QED
      BY <3>1 DEF RequestsOf, Holds, TypeOK
  <2> HIDE DEF l
  <2>3. TimersOf(l) = 1 /\ RequestsOf(l) = 0
    BY <1>0, ChainsAt
  <2>4. \A g \in Generations : g # l => TimersOf(g)' = TimersOf(g) /\ RequestsOf(g)' = RequestsOf(g)
    BY <1>1, <2>1, <2>2, HoldersType
  <2>5. \A g \in Generations : g = l => TimersOf(g)' = 0 /\ RequestsOf(g)' = 1
    BY <1>1, <2>1, <2>2, <2>3
  <2>6. \A g \in Generations : g = l =>
           /\ TimersOf(g)' + RequestsOf(g)' <= 1
           /\ ~(g > generation)
           /\ timerPending' <=> TimersOf(g)' = 1
           /\ requestInFlight' <=> RequestsOf(g)' = 1
    BY <1>0, <2>1, <2>5 DEF Generations
  <2> QED
    BY <1>0, <2>1, <2>4, <2>6, OneChainMoves
<1> QED
  BY <1>2, <1>3

LEMMA SendKeepsChains == ASSUME TypeOK, Chains, SendRequest PROVE Chains'
<1>1. \A g \in Generations : TimersOf(g)' = TimersOf(g) /\ RequestsOf(g)' = RequestsOf(g)
  BY DEF SendRequest, Goto, TimersOf, RequestsOf, Holds, TypeOK, Threads
<1> QED
  BY <1>1 DEF SendRequest, marks, Chains, OneChain, MarksAreExact, FutureEmpty

LEMMA CompleteKeepsChains ==
  ASSUME TypeOK, Chains, NEW r \in Generations, RequestComplete(r) PROVE Chains'
<1>1. \A g \in Generations : TimersOf(g)' = TimersOf(g)
  BY DEF RequestComplete, AndSchedule, Goto, TimersOf, Holds, TypeOK, Threads
<1>2. \A g \in Generations : RequestsOf(g)' = RequestsOf(g) - (IF g = r THEN 1 ELSE 0)
  BY DEF RequestComplete, AndSchedule, Goto, RequestsOf, Holds, TypeOK, Threads
<1>3. RequestsOf(r) >= 1
  BY HoldsType DEF RequestComplete, RequestsOf, TypeOK
<1>4. RequestsOf(r) = 1 /\ TimersOf(r) = 0 /\ ~(r > generation)
      /\ (r = generation => ~timerPending)
  BY <1>3, ChainsAt
<1>5. timerPending' = timerPending /\ generation' = generation
      /\ requestInFlight' = (requestInFlight /\ r # generation)
  BY DEF RequestComplete
<1>6. \A g \in Generations : g # r => TimersOf(g)' = TimersOf(g) /\ RequestsOf(g)' = RequestsOf(g)
  BY <1>1, <1>2, HoldersType
<1>7. \A g \in Generations : g = r => TimersOf(g)' = 0 /\ RequestsOf(g)' = 0
  BY <1>1, <1>2, <1>4
<1>8. r # generation => requestInFlight' = requestInFlight
  BY <1>5 DEF TypeOK
<1>9. r = generation => ~requestInFlight'
  BY <1>5
<1> QED
  BY <1>4, <1>5, <1>6, <1>7, <1>8, <1>9, OneChainMoves
-----------------------------------------------------------------------------
(* Whatever happens, the chains stay chains.                                *)
LEMMA NextKeepsChains == ASSUME TypeOK, Chains, [Next]_vars PROVE Chains'
<1>0. ASSUME NEW t \in {"request", "vendor"}, NEW on, NEW ready, Note(t, on, ready)
      PROVE  Chains'
  <2>1. \A g \in Generations : TimersOf(g)' = TimersOf(g) /\ RequestsOf(g)' = RequestsOf(g)
    BY <1>0, HoldersKept DEF Note, Threads, away
  <2> QED
    BY <1>0, <2>1, UpdateKeepsChains DEF Note
<1>1. ASSUME NEW t \in {"request", "vendor"}, UpdateRadioState(t) PROVE Chains'
  <2>1. \A g \in Generations : TimersOf(g)' = TimersOf(g) /\ RequestsOf(g)' = RequestsOf(g)
    BY <1>1, HoldersKept DEF UpdateRadioState, AndSchedule, Threads, away
  <2>2. Invalidate(TRUE) \/ UNCHANGED marks
    BY <1>1 DEF UpdateRadioState, marks
  <2> QED
    BY <2>1, <2>2, UpdateKeepsChains
<1>2. ASSUME NEW t \in {"request", "vendor"}, NEW automatic, NEW reset,
             UpdateSelectionMode(t, automatic, reset)
      PROVE  Chains'
  <2>1. \A g \in Generations : TimersOf(g)' = TimersOf(g) /\ RequestsOf(g)' = RequestsOf(g)
    BY <1>2, HoldersKept DEF UpdateSelectionMode, AndSchedule, Threads
  <2>2. Invalidate(reset) \/ UNCHANGED marks
    BY <1>2 DEF UpdateSelectionMode
  <2> QED
    BY <2>1, <2>2, UpdateKeepsChains
<1>3. ASSUME NEW active, UpdateCallState(active) PROVE Chains'
  <2>1. \A g \in Generations : TimersOf(g)' = TimersOf(g) /\ RequestsOf(g)' = RequestsOf(g)
    BY <1>3, HoldersKept DEF UpdateCallState, AndSchedule, Threads
  <2>2. Invalidate(FALSE) \/ UNCHANGED marks
    BY <1>3 DEF UpdateCallState
  <2> QED
    BY <2>1, <2>2, UpdateKeepsChains
<1>4. ASSUME NEW voice, NEW state, UpdateRegistration(voice, state) PROVE Chains'
  <2>1. \A g \in Generations : TimersOf(g)' = TimersOf(g) /\ RequestsOf(g)' = RequestsOf(g)
    BY <1>4, HoldersKept DEF UpdateRegistration, AndSchedule, Threads
  <2>2. Invalidate(TRUE) \/ UNCHANGED marks
    BY <1>4 DEF UpdateRegistration
  <2> QED
    BY <2>1, <2>2, UpdateKeepsChains
<1>5. CASE Updates
  BY <1>5, <1>0, <1>2, <1>3, <1>4
  DEF Updates, RadioPower, ProcessRadioState, SetSelection, SelectionReply
<1>6. ASSUME NEW t \in {"request", "vendor"}, Caller(t) PROVE Chains'
  BY <1>6, <1>1, ScheduleKeepsChains, ArmKeepsChains DEF Caller
<1>7. CASE Timer
  BY <1>7, TimerFiresKeepsChains, TimerDecidesKeepsChains, SendKeepsChains DEF Timer
<1>8. ASSUME NEW g \in Generations, RequestComplete(g) PROVE Chains'
  BY <1>8, CompleteKeepsChains
<1>9. CASE UNCHANGED vars
  <2>1. \A g \in Generations : TimersOf(g)' = TimersOf(g) /\ RequestsOf(g)' = RequestsOf(g)
    BY <1>9 DEF vars, away, TimersOf, RequestsOf, Holds
  <2> QED
    BY <1>9, <2>1, UpdateKeepsChains DEF vars, marks
<1> QED
  BY <1>5, <1>6, <1>7, <1>8, <1>9 DEF Next

Blocked ==
  \/ callActive \/ ~radioOn \/ ~simReady \/ ~selectionKnown \/ ~selectionAutomatic
  \/ voiceState = "registered" \/ dataState = "registered"

(* Only Schedule and TimerDecides set a mark, and only when nothing blocks.  *)
LEMMA NextKeepsQuiet == ASSUME TypeOK, QuietWhenBlocked, [Next]_vars PROVE QuietWhenBlocked'
<1>0. QuietWhenBlocked <=> (Blocked => ~timerPending /\ ~requestInFlight)
  BY DEF QuietWhenBlocked, Blocked
<1>1. (QuietWhenBlocked)' <=> (Blocked' => ~timerPending' /\ ~requestInFlight')
  BY DEF QuietWhenBlocked, Blocked
<1>2. ASSUME NEW reset, Invalidate(reset) PROVE QuietWhenBlocked'
  BY <1>1, <1>2 DEF Invalidate
<1>3. ASSUME UNCHANGED <<timerPending, requestInFlight>>, Blocked' => Blocked
      PROVE  QuietWhenBlocked'
  BY <1>0, <1>1, <1>3
<1>4. ASSUME NEW t, UpdateRadioState(t) PROVE QuietWhenBlocked'
  BY <1>2, <1>3, <1>4 DEF UpdateRadioState, Blocked, marks
<1>note. ASSUME NEW t, NEW on, NEW ready, Note(t, on, ready) PROVE QuietWhenBlocked'
  BY <1>3, <1>note DEF Note, Blocked, facts, marks
<1>5. ASSUME NEW t, NEW automatic, NEW reset, UpdateSelectionMode(t, automatic, reset)
      PROVE  QuietWhenBlocked'
  BY <1>2, <1>3, <1>5 DEF UpdateSelectionMode, Blocked, marks
<1>6. ASSUME NEW active, UpdateCallState(active) PROVE QuietWhenBlocked'
  BY <1>2, <1>3, <1>6 DEF UpdateCallState, Blocked, marks
<1>7. ASSUME NEW voice, NEW state, UpdateRegistration(voice, state) PROVE QuietWhenBlocked'
  BY <1>2, <1>3, <1>7 DEF UpdateRegistration, Blocked, marks
<1>8. ASSUME NEW t, Schedule(t) PROVE QuietWhenBlocked'
  BY <1>1, <1>3, <1>8 DEF Schedule, Conditions, Blocked, facts
<1>9. ASSUME NEW t, Arm(t) PROVE QuietWhenBlocked'
  BY <1>0, <1>1, <1>9 DEF Arm, ForgetTimer, Blocked, facts
<1>10. CASE TimerDecides
  BY <1>0, <1>1, <1>10 DEF TimerDecides, ForgetTimer, Conditions, Blocked, facts
<1>11. ASSUME NEW g, TimerFires(g) \/ SendRequest \/ RequestComplete(g) PROVE QuietWhenBlocked'
  BY <1>0, <1>1, <1>11 DEF TimerFires, SendRequest, RequestComplete, Blocked, facts, marks
<1>12. CASE UNCHANGED vars
  BY <1>3, <1>12 DEF vars, facts, marks, Blocked
<1> QED
  BY <1>4, <1>note, <1>5, <1>6, <1>7, <1>8, <1>9, <1>10, <1>11, <1>12
  DEF Next, Updates, RadioPower, ProcessRadioState, SetSelection, SelectionReply, Caller, Timer

(* The inductive invariant holds of every reachable state.                  *)
THEOREM Invariant == Spec => []IInv
<1>1. Init => Chains /\ QuietWhenBlocked
  <2> SUFFICES ASSUME Init PROVE Chains /\ QuietWhenBlocked
    OBVIOUS
  <2>1. \A g \in Generations : TimersOf(g) = 0 /\ RequestsOf(g) = 0
    BY DEF Init, TimersOf, RequestsOf, Holds, Threads
  <2> QED
    BY <2>1 DEF Init, Chains, OneChain, MarksAreExact, FutureEmpty, QuietWhenBlocked
<1>2. TypeOK /\ Chains /\ QuietWhenBlocked /\ [Next]_vars => (Chains /\ QuietWhenBlocked)'
  BY NextKeepsChains, NextKeepsQuiet
<1> QED
  BY <1>1, <1>2, TypeCorrect, PTL DEF Spec, IInv

(* A generation has at most one timer or request: of two updates, a timer    *)
(* and a completion that meet, only one carries the recovery on.             *)
THEOREM OneChainAlways == Spec => []OneChain
<1>1. IInv => OneChain
  BY DEF IInv, Chains
<1> QED
  BY <1>1, Invariant, PTL

(* The marks of the current generation say what is under way.                *)
THEOREM MarksAreExactAlways == Spec => []MarksAreExact
<1>1. IInv => MarksAreExact
  BY DEF IInv, Chains
<1> QED
  BY <1>1, Invariant, PTL

(* Nothing of the current generation is under way while recovery is barred.  *)
THEOREM QuietWhenBlockedAlways == Spec => []QuietWhenBlocked
<1>1. IInv => QuietWhenBlocked
  BY DEF IInv
<1> QED
  BY <1>1, Invariant, PTL
=============================================================================
