---------------------------- MODULE SapSession ----------------------------
(* The SIM access profile of the RIL shim: requests of the SAP client        *)
(* (sec-sap.cpp), the vendor commands that carry them (sap-functions.cpp)    *)
(* and the tokens, timed callbacks and completions under them                *)
(* (secril-sap.cpp).                                                        *)
(*                                                                          *)
(* Three threads run here: libril's SAP thread (SapRequestFunc), the thread *)
(* of libril's timed callbacks, on which every command is handed to the     *)
(* vendor's library, and the thread of the vendor's completions.  A CONNECT *)
(* is two commands (connect, reset the card), a DISCONNECT is two (reset    *)
(* the card, disconnect), everything else is one.  All three threads use    *)
(* g_connectionState without a lock.                                        *)
EXTENDS Naturals, FiniteSets

CONSTANTS
  SapTokens,      \* tokens of the client's requests, in the order of their arrival
  MaxNoMemory,    \* allocations that may fail
  Nobody          \* no token

ASSUME SapTokensAssumption == SapTokens \subseteq Nat /\ Nobody \notin SapTokens
ASSUME MaxNoMemoryAssumption == MaxNoMemory \in Nat

VARIABLES
  sapState,       \* g_connectionState
  sapRequest,     \* what each token asks for
  sapCommand,     \* the vendor command a token's exchange has reached
  sapAt,          \* where that command is
  sapParam,       \* the exchange's Sap*Param is allocated
  sapAnswers,     \* OnRequestComplete calls for each token
  sapThread,      \* SapRequestFunc: what it is about to do, for which token
  sapVendor,      \* the vendor's completion: what it is about to do, for which token
  sapLink,        \* the modem's side: the SIM is lent to the client
  sapLeftUp,      \* the last DISCONNECT ended in an error
  sapNoMemory,    \* failed allocations so far
  sapPatient      \* the client lets an answer's handler return before it asks again

sapVars == <<sapState, sapRequest, sapCommand, sapAt, sapParam, sapAnswers,
             sapThread, sapVendor, sapLink, sapLeftUp, sapNoMemory, sapPatient>>

(* MsgId_RIL_SIM_SAP_*: "plain" stands for APDU, TRANSFER_ATR, POWER and     *)
(* RESET_SIM, "unhandled" for the messages the switch does not know.        *)
SapKinds == {"CONNECT", "DISCONNECT", "plain", "unhandled"}
SapCommands == {"connect", "connectReset", "disconnectReset", "disconnect", "plain"}
ConnectionStates == {"Disconnected", "Connecting", "Connected", "Disconnecting"}
Idle == [at |-> "idle", token |-> Nobody, ok |-> FALSE]
Doing(step, t, ok) == [at |-> step, token |-> t, ok |-> ok]

SapInit ==
  /\ sapState = "Disconnected"
  /\ sapRequest = [t \in SapTokens |-> "none"]
  /\ sapCommand = [t \in SapTokens |-> "none"]
  /\ sapAt = [t \in SapTokens |-> "idle"]
  /\ sapParam = [t \in SapTokens |-> FALSE]
  /\ sapAnswers = [t \in SapTokens |-> 0]
  /\ sapThread = Idle
  /\ sapVendor = Idle
  /\ sapLink = FALSE
  /\ sapLeftUp = FALSE
  /\ sapNoMemory = 0
  /\ sapPatient \in BOOLEAN

-----------------------------------------------------------------------------
(* Helpers: the calls the handlers are made of.                             *)

NoMemory == sapNoMemory < MaxNoMemory /\ sapNoMemory' = sapNoMemory + 1
Allocated == UNCHANGED sapNoMemory

(* A deferral that is left out: called during a completion, the vendor's    *)
(* library waits for the request lock its own thread holds.                 *)
SendSapRequestDirectly(t, command) ==
  /\ sapCommand' = [sapCommand EXCEPT ![t] = command]
  /\ sapAt' = [sapAt EXCEPT ![t] =
                 IF sapVendor.token = t \/ sapAt[t] = "vendor" THEN "stuck" ELSE "timed"]

(* SendSapRequest, SendSapApduRequest: the command waits for the thread of  *)
(* the timed callbacks.  No handler calls the vendor's onRequest itself.    *)
SendSapRequest(t, command) ==
  /\ sapCommand' = [sapCommand EXCEPT ![t] = command]
  /\ sapAt' = [sapAt EXCEPT ![t] = "timed"]

NoCommand(t) == sapAt' = [sapAt EXCEPT ![t] = "idle"] /\ UNCHANGED sapCommand

(* g_sapEnv->OnRequestComplete: the client may ask again from here on.      *)
Answer(t) == sapAnswers' = [sapAnswers EXCEPT ![t] = @ + 1]

(* A failed CONNECT stored as a success.                                    *)
StateAfterAnyResult(t, ok) ==
  CASE sapRequest[t] = "CONNECT" -> "Connected"
    [] sapRequest[t] = "DISCONNECT" -> "Disconnected"
    [] OTHER -> sapState

(* What SapConnectRsp and SapDisconnectRsp store after they have answered.  *)
StateAfter(t, ok) ==
  CASE sapRequest[t] = "CONNECT" -> IF ok THEN "Connected" ELSE "Disconnected"
    [] sapRequest[t] = "DISCONNECT" -> "Disconnected"
    [] OTHER -> sapState

-----------------------------------------------------------------------------
(* The SAP thread.                                                          *)

(* SapRequestFunc, up to the decision it takes on g_connectionState: a      *)
(* CONNECT that is not needed, or a DISCONNECT of nothing, is answered at   *)
(* once.  The client has one request under way at a time.                   *)
SapReceive(t) ==
  /\ sapThread = Idle
  /\ sapRequest[t] = "none"
  /\ \A u \in SapTokens : u < t => sapAnswers[u] > 0
  /\ sapPatient => sapVendor = Idle
  /\ \E kind \in SapKinds :
       /\ sapRequest' = [sapRequest EXCEPT ![t] = kind]
       /\ sapThread' =
            IF \/ kind = "CONNECT" /\ sapState # "Disconnected"
               \/ kind = "DISCONNECT" /\ sapState # "Connected"
            THEN Doing("answer", t, TRUE) ELSE Doing("start", t, TRUE)
  /\ UNCHANGED <<sapState, sapCommand, sapAt, sapParam, sapAnswers, sapVendor,
                 sapLink, sapLeftUp, sapNoMemory, sapPatient>>

(* The message does not decode, is not handled, or carries no command.      *)
SapRefuse(t) ==
  /\ sapThread = Doing("start", t, TRUE)
  /\ Answer(t)
  /\ sapThread' = Idle
  /\ UNCHANGED <<sapState, sapRequest, sapCommand, sapAt, sapParam, sapVendor,
                 sapLink, sapLeftUp, sapNoMemory, sapPatient>>

Entered(t) ==
  CASE sapRequest[t] = "CONNECT" -> "Connecting"
    [] sapRequest[t] = "DISCONNECT" -> "Disconnecting"
    [] OTHER -> sapState
FirstCommand(t) ==
  CASE sapRequest[t] = "CONNECT" -> "connect"
    [] sapRequest[t] = "DISCONNECT" -> "disconnectReset"
    [] OTHER -> "plain"

(* SapConnect, SapDisconnect, SapApdu, SapTransferAtr, SapSimPower and      *)
(* SapResetSim: the first command of the exchange.                          *)
SapStart(t) ==
  /\ sapThread = Doing("start", t, TRUE)
  /\ sapRequest[t] # "unhandled"
  /\ sapState' = Entered(t)
  /\ sapThread' = Idle
  /\ sapParam' = [sapParam EXCEPT ![t] = TRUE]
  /\ SendSapRequest(t, FirstCommand(t))
  /\ Allocated
  /\ UNCHANGED <<sapRequest, sapAnswers, sapVendor, sapLink, sapLeftUp, sapPatient>>

(* The same when an allocation fails: of the Sap*Param, the token or the    *)
(* timed callback's data.  A DISCONNECT whose card reset could not be sent  *)
(* goes on to its second command.                                           *)
SapStartFails(t) ==
  /\ sapThread = Doing("start", t, TRUE)
  /\ sapRequest[t] # "unhandled"
  /\ NoMemory
  /\ sapState' = Entered(t)
  /\ \/ /\ sapThread' = Doing("answer", t, FALSE)
        /\ UNCHANGED <<sapParam, sapCommand, sapAt>>
     \/ /\ sapRequest[t] = "DISCONNECT"
        /\ sapThread' = Idle
        /\ sapParam' = [sapParam EXCEPT ![t] = TRUE]
        /\ SendSapRequest(t, "disconnect")
  /\ UNCHANGED <<sapRequest, sapAnswers, sapVendor, sapLink, sapLeftUp, sapPatient>>

(* SapConnectRsp and its like, called on the SAP thread.                    *)
SapAnswer(t) ==
  /\ sapThread.at = "answer" /\ sapThread.token = t
  /\ Answer(t)
  /\ sapThread' = [sapThread EXCEPT !.at = "assign"]
  /\ UNCHANGED <<sapState, sapRequest, sapCommand, sapAt, sapParam, sapVendor,
                 sapLink, sapLeftUp, sapNoMemory, sapPatient>>

SapAssign(t) ==
  /\ sapThread.at = "assign" /\ sapThread.token = t
  /\ sapState' = StateAfter(t, sapThread.ok)
  /\ sapLeftUp' = IF sapRequest[t] = "DISCONNECT" /\ ~sapThread.ok THEN sapLink ELSE sapLeftUp
  /\ sapThread' = Idle
  /\ UNCHANGED <<sapRequest, sapCommand, sapAt, sapParam, sapAnswers, sapVendor,
                 sapLink, sapNoMemory, sapPatient>>

-----------------------------------------------------------------------------
(* The thread of the timed callbacks.                                       *)

(* SapRequestTimedCallback, SapApduRequestTimedCallback: RIL_REQUEST_OEM_   *)
(* HOOK_RAW, which waits for the lock the vendor holds during a completion. *)
SapTimed(t) ==
  /\ sapAt[t] = "timed" /\ sapVendor = Idle
  /\ sapAt' = [sapAt EXCEPT ![t] = "vendor"]
  /\ UNCHANGED <<sapState, sapRequest, sapCommand, sapParam, sapAnswers, sapThread,
                 sapVendor, sapLink, sapLeftUp, sapNoMemory, sapPatient>>

(* SapApduRequestTimedCallback without memory for the request: SapApduRsp   *)
(* answers from this thread and frees the exchange.                         *)
SapTimedFails(t) ==
  /\ sapAt[t] = "timed" /\ sapCommand[t] = "plain"
  /\ NoMemory
  /\ NoCommand(t)
  /\ Answer(t)
  /\ sapParam' = [sapParam EXCEPT ![t] = FALSE]
  /\ UNCHANGED <<sapState, sapRequest, sapThread, sapVendor, sapLink, sapLeftUp, sapPatient>>

-----------------------------------------------------------------------------
(* The thread of the vendor's completions: OnRequestComplete.               *)

LinkAfter(t, ok) ==
  CASE ok /\ sapCommand[t] = "connect" -> TRUE
    [] ok /\ sapCommand[t] = "disconnect" -> FALSE
    [] OTHER -> sapLink

(* A completion that answers the client: SecSapConnectRsp1,                 *)
(* SapDisconnectRsp2, SapApduRsp, ...  An answer whose header claims more   *)
(* bytes than it has, or that cannot be copied, is an error.                *)
VendorReply(t) ==
  /\ sapAt[t] = "vendor" /\ sapVendor = Idle
  /\ sapCommand[t] \in {"connect", "disconnect", "plain"}
  /\ \E ok \in BOOLEAN :
       /\ sapVendor' = Doing("answer", t, ok)
       /\ sapLink' = LinkAfter(t, ok)
  /\ sapAt' = [sapAt EXCEPT ![t] = "replied"]
  /\ UNCHANGED <<sapState, sapRequest, sapCommand, sapParam, sapAnswers, sapThread,
                 sapLeftUp, sapNoMemory, sapPatient>>

(* SecSapConnectRsp2: the card has been reset, whatever the result.         *)
CardReset(t) ==
  /\ sapAt[t] = "vendor" /\ sapVendor = Idle
  /\ sapCommand[t] = "connectReset"
  /\ NoCommand(t)
  /\ sapParam' = [sapParam EXCEPT ![t] = FALSE]
  /\ UNCHANGED <<sapState, sapRequest, sapAnswers, sapThread, sapVendor, sapLink,
                 sapLeftUp, sapNoMemory, sapPatient>>

(* SapDisconnectRsp1: the second command, whatever the result of the reset. *)
CardResetBeforeDisconnect(t) ==
  /\ sapAt[t] = "vendor" /\ sapVendor = Idle
  /\ sapCommand[t] = "disconnectReset"
  /\ \/ /\ Allocated
        /\ SendSapRequest(t, "disconnect")
        /\ UNCHANGED sapVendor
     \/ /\ NoMemory
        /\ sapVendor' = Doing("answer", t, FALSE)
        /\ sapAt' = [sapAt EXCEPT ![t] = "replied"]
        /\ sapCommand' = [sapCommand EXCEPT ![t] = "disconnect"]
  /\ UNCHANGED <<sapState, sapRequest, sapParam, sapAnswers, sapThread, sapLink,
                 sapLeftUp, sapPatient>>

VendorAnswer(t) ==
  /\ sapVendor.at = "answer" /\ sapVendor.token = t
  /\ Answer(t)
  /\ sapVendor' = [sapVendor EXCEPT !.at = "assign"]
  /\ UNCHANGED <<sapState, sapRequest, sapCommand, sapAt, sapParam, sapThread,
                 sapLink, sapLeftUp, sapNoMemory, sapPatient>>

ResetFollows(t) == sapCommand[t] = "connect" /\ sapVendor.ok

(* SecSapConnectRsp1 freeing the exchange in either case.                   *)
ExchangeEnds(t) == FALSE

(* The parameters outlive an answer only as long as a command needs them.   *)
ExchangeGoesOn(t) == ResetFollows(t)

(* After the answer: g_connectionState, and either the exchange's second    *)
(* command or its end.                                                      *)
VendorAssign(t) ==
  /\ sapVendor.at = "assign" /\ sapVendor.token = t
  /\ sapState' = StateAfter(t, sapVendor.ok)
  /\ sapLeftUp' = IF sapRequest[t] = "DISCONNECT" /\ ~sapVendor.ok THEN sapLink
                  ELSE IF sapCommand[t] = "connect" /\ sapVendor.ok THEN FALSE ELSE sapLeftUp
  /\ sapVendor' = Idle
  /\ \/ /\ ResetFollows(t)
        /\ Allocated
        /\ SendSapRequest(t, "connectReset")
        /\ sapParam' = [sapParam EXCEPT ![t] = ExchangeGoesOn(t)]
     \/ /\ IF ResetFollows(t) THEN NoMemory ELSE Allocated
        /\ NoCommand(t)
        /\ sapParam' = [sapParam EXCEPT ![t] = FALSE]
  /\ UNCHANGED <<sapRequest, sapAnswers, sapThread, sapLink, sapPatient>>

-----------------------------------------------------------------------------
SapThreadStep(t) ==
  SapRefuse(t) \/ SapStart(t) \/ SapStartFails(t) \/ SapAnswer(t) \/ SapAssign(t)
VendorThreadStep(t) ==
  VendorReply(t) \/ CardReset(t) \/ CardResetBeforeDisconnect(t)
    \/ VendorAnswer(t) \/ VendorAssign(t)
SapNext ==
  \E t \in SapTokens :
    \/ SapReceive(t)
    \/ SapThreadStep(t)
    \/ SapTimed(t) \/ SapTimedFails(t)
    \/ VendorThreadStep(t)
SapSpec == SapInit /\ [][SapNext]_sapVars

(* The threads run, and the vendor completes what it has taken; the client  *)
(* need not ask.                                                            *)
SapFairness ==
  \A t \in SapTokens :
    /\ WF_sapVars(SapThreadStep(t))
    /\ WF_sapVars(SapTimed(t) \/ SapTimedFails(t))
    /\ WF_sapVars(VendorThreadStep(t))

-----------------------------------------------------------------------------
ThreadOK(thread) ==
  /\ thread \in [at : {"idle", "start", "answer", "assign"},
                 token : SapTokens \cup {Nobody}, ok : BOOLEAN]
  /\ thread.at = "idle" <=> thread = Idle
  /\ thread.at # "idle" => thread.token \in SapTokens

(* Types of the SAP shim's state.                                           *)
SapTypeOK ==
  /\ sapState \in ConnectionStates
  /\ sapRequest \in [SapTokens -> SapKinds \cup {"none"}]
  /\ sapCommand \in [SapTokens -> SapCommands \cup {"none"}]
  /\ sapAt \in [SapTokens -> {"idle", "timed", "vendor", "replied", "stuck"}]
  /\ sapParam \in [SapTokens -> BOOLEAN]
  /\ sapAnswers \in [SapTokens -> Nat]
  /\ ThreadOK(sapThread) /\ ThreadOK(sapVendor)
  /\ sapLink \in BOOLEAN /\ sapLeftUp \in BOOLEAN /\ sapPatient \in BOOLEAN
  /\ sapNoMemory \in 0..MaxNoMemory

SapAnsweredOnce == \A t \in SapTokens : sapAnswers[t] <= 1
SapMemoryIsExact == \A t \in SapTokens : sapParam[t] <=> sapAt[t] # "idle"

(* Whatever fails, and although a CONNECT's exchange goes on after its      *)
(* answer, no token is completed twice (libril frees it the first time), and *)
(* an exchange's parameter block lives exactly as long as a completion of    *)
(* the vendor may still be handed it: neither leaked nor used after free.    *)
SapExchangesAreExact == SapAnsweredOnce /\ SapMemoryIsExact

SapQuiet ==
  /\ sapThread = Idle /\ sapVendor = Idle
  /\ \A t \in SapTokens : sapCommand[t] # "connectReset" => sapAt[t] = "idle"

(* When nothing is under way g_connectionState says what the modem says,    *)
(* for a client that waits until the handler of an answer has returned; an  *)
(* unfinished DISCONNECT may leave the modem's side up.                     *)
SapStateTracksLink ==
  sapPatient /\ SapQuiet =>
    /\ sapState = "Connected" => sapLink
    /\ sapState # "Connected" => sapState = "Disconnected" /\ (sapLink => sapLeftUp)

(* Every request of the client is answered.                                 *)
SapEveryRequestAnswered ==
  \A t \in SapTokens : sapRequest[t] # "none" ~> sapAnswers[t] > 0
=============================================================================
