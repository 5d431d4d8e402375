------------------------------ MODULE JavaRil ------------------------------
(* SamsungExynos4RIL.java: the framework's end of the radio daemon.          *)
(*                                                                          *)
(* Requests leave with a serial; the thread that reads rild's socket        *)
(* (processSolicited, processUnsolicited) finds the request of a response   *)
(* and sends its result.  The SIM toolkit registers for proactive commands  *)
(* on a thread of its own (setOnCatProactiveCmd); mCatProCmdRegistrant and  *)
(* mCatProCmdBuffer have no lock.  Payloads are left out.                   *)
EXTENDS Naturals, FiniteSets

CONSTANTS
  Serials,            \* serials of requests
  MaxResponses,       \* responses rild sends, asked for or not
  CatCommands,        \* proactive commands of the SIM
  NoCat           \* null

ASSUME NoCatAssumption == NoCat \notin CatCommands

VARIABLES
  javaRequest,        \* what each serial asks for
  outstanding,        \* RIL.mRequestList
  javaResults,        \* messages sent for each serial
  responses,          \* responses so far
  iccChanges,         \* notifications of mIccStatusChangedRegistrants
  javaRadioUp,        \* setRadioState(RADIO_UNAVAILABLE) has not been called
  catSeen,            \* proactive commands the SIM has sent
  catReader,          \* processUnsolicited: the command it holds, what it saw
  catRegistrant,      \* mCatProCmdRegistrant # null
  catRegistering,     \* setOnCatProactiveCmd: how far it is
  catBuffer,          \* mCatProCmdBuffer
  catDelivered        \* commands the registrant has got

solicitedVars == <<javaRequest, outstanding, javaResults, responses, iccChanges, javaRadioUp>>
catVars == <<catSeen, catReader, catRegistrant, catRegistering, catBuffer, catDelivered>>
javaVars == <<solicitedVars, catVars>>

(* "pin" stands for ENTER_SIM_PIN(2), CHANGE_SIM_PIN(2) and                  *)
(* SET_FACILITY_LOCK, "puk" for ENTER_SIM_PUK(2), "unknown" for a request    *)
(* the table of processSolicited lacks (DIAL_VIDEO_CALL, ...).              *)
JavaKinds == {"pin", "puk", "capability", "activity", "shutdown", "dial", "unknown"}
JavaErrors == {"none", "not_supported", "generic", "other"}
Nothing == [command |-> NoCat, direct |-> FALSE]

JavaInit ==
  /\ javaRequest = [s \in Serials |-> "none"]
  /\ outstanding = {} /\ responses = 0 /\ iccChanges = 0 /\ javaRadioUp = TRUE
  /\ javaResults = [s \in Serials |-> 0]
  /\ catSeen = {} /\ catReader = Nothing
  /\ catRegistrant = FALSE /\ catRegistering = "no"
  /\ catBuffer = NoCat /\ catDelivered = {}

-----------------------------------------------------------------------------
(* Requests and their responses.                                            *)

(* dial, dialEmergencyCall, sendSMSExpectMore and the requests of RIL: each  *)
(* obtains a serial of its own and is sent.                                 *)
JavaSend(s) ==
  /\ javaRequest[s] = "none"
  /\ \E kind \in JavaKinds : javaRequest' = [javaRequest EXCEPT ![s] = kind]
  /\ outstanding' = outstanding \cup {s}
  /\ UNCHANGED <<javaResults, responses, iccChanges, javaRadioUp, catVars>>

(* findAndRemoveRequestFromList that only finds.                            *)
TakeKept(s) == s \in outstanding /\ outstanding' = outstanding

(* findAndRemoveRequestFromList.                                            *)
Take(s) == s \in outstanding /\ outstanding' = outstanding \ {s}

Result(s) == javaResults' = [javaResults EXCEPT ![s] = @ + 1]
Respond == responses < MaxResponses /\ responses' = responses + 1

(* The payload is read when there is no error or there are bytes left; a    *)
(* payload that does not parse, or a request the table does not know, sends *)
(* the exception and nothing else happens.                                  *)
ResponseUnreadable(s) ==
  /\ Respond /\ Take(s)
  /\ Result(s)
  /\ UNCHANGED <<javaRequest, iccChanges, javaRadioUp, catVars>>

(* SIM_STATUS_CHANGED is faked for every PUK and for a PIN that failed.     *)
FakesSimStatus(kind, error) == kind = "puk" \/ (kind = "pin" /\ error # "none")

(* processSolicited: rr.onError() or the result's message (of a capability   *)
(* or an activity always the message).                                      *)
ProcessSolicited(s) ==
  /\ Respond /\ Take(s)
  /\ \E error \in JavaErrors :
       /\ javaRequest[s] = "unknown" => error # "none"
       /\ iccChanges' = IF FakesSimStatus(javaRequest[s], error) THEN iccChanges + 1 ELSE iccChanges
       /\ javaRadioUp' = (javaRadioUp /\ javaRequest[s] # "shutdown")
  /\ Result(s)
  /\ UNCHANGED <<javaRequest, catVars>>

(* "Unexpected solicited response": a serial that nobody waits for.         *)
UnexpectedResponse(s) ==
  /\ Respond /\ s \notin outstanding
  /\ UNCHANGED <<javaRequest, outstanding, javaResults, iccChanges, javaRadioUp, catVars>>

-----------------------------------------------------------------------------
(* STK proactive commands.                                                  *)

(* processUnsolicited, RIL_UNSOL_STK_PROACTIVE_COMMAND: the test of the     *)
(* registrant ...                                                           *)
CatArrives(c) ==
  /\ catReader = Nothing /\ c \notin catSeen
  /\ catSeen' = catSeen \cup {c}
  /\ catReader' = [command |-> c, direct |-> catRegistrant]
  /\ UNCHANGED <<solicitedVars, catRegistrant, catRegistering, catBuffer, catDelivered>>

(* ... and what follows it: notifyRegistrant or the buffer.                 *)
CatHandled ==
  /\ catReader # Nothing
  /\ IF catReader.direct
     THEN catDelivered' = catDelivered \cup {catReader.command} /\ UNCHANGED catBuffer
     ELSE catBuffer' = catReader.command /\ UNCHANGED catDelivered
  /\ catReader' = Nothing
  /\ UNCHANGED <<solicitedVars, catSeen, catRegistrant, catRegistering>>

(* setOnCatProactiveCmd, statement by statement.                            *)
CatRegister ==
  /\ catRegistering = "no"
  /\ catRegistrant' = TRUE
  /\ catRegistering' = "registered"
  /\ UNCHANGED <<solicitedVars, catSeen, catReader, catBuffer, catDelivered>>
CatFlush ==
  /\ catRegistering = "registered"
  /\ catRegistering' = IF catBuffer = NoCat THEN "done" ELSE "notified"
  /\ catDelivered' = catDelivered \cup ({catBuffer} \ {NoCat})
  /\ UNCHANGED <<solicitedVars, catSeen, catReader, catRegistrant, catBuffer>>
CatClear ==
  /\ catRegistering = "notified"
  /\ catRegistering' = "done"
  /\ catBuffer' = NoCat
  /\ UNCHANGED <<solicitedVars, catSeen, catReader, catRegistrant, catDelivered>>

-----------------------------------------------------------------------------
JavaNext ==
  \/ \E s \in Serials :
       JavaSend(s) \/ ResponseUnreadable(s) \/ ProcessSolicited(s) \/ UnexpectedResponse(s)
  \/ \E c \in CatCommands : CatArrives(c)
  \/ CatHandled \/ CatRegister \/ CatFlush \/ CatClear
JavaSpec == JavaInit /\ [][JavaNext]_javaVars

(* A request has its result exactly when it is no longer outstanding,       *)
(* whatever rild answers, how often and in which order.                     *)
JavaAnsweredOnce ==
  \A s \in Serials :
    javaResults[s] = IF javaRequest[s] = "none" \/ s \in outstanding THEN 0 ELSE 1

(* A proactive command that came before its registrant is not ignored: with *)
(* both threads done and a registrant there, every command has reached it.  *)
NoCatCommandIgnored ==
  catRegistering = "done" /\ catReader = Nothing => catSeen \subseteq catDelivered
=============================================================================
