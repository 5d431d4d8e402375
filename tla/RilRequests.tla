---------------------------- MODULE RilRequests ----------------------------
(* Requests of Android to the RIL shim (secril-shim.cpp): the vendor's       *)
(* library that is initialised on a thread of its own, the requests the     *)
(* shim answers itself, refuses, translates or passes on, the DEVICE_       *)
(* IDENTITY that takes two vendor queries, and the registration data the    *)
(* shim keeps from one reply for the answer to another request.             *)
(*                                                                          *)
(* The network recovery that the same handlers feed is NetworkRecovery, the *)
(* SIM access profile SapSession; layouts of replies are left out.  A cell  *)
(* is named by the token of the reply that reported it.                     *)
EXTENDS Naturals, FiniteSets

CONSTANTS
  RilTokens,          \* tokens of Android's requests, in the order of their arrival
  MaxRadioChanges,    \* radio state changes of the modem
  NoCell              \* lac or cid -1

ASSUME RilTokensAssumption == RilTokens \subseteq Nat /\ NoCell \notin RilTokens
ASSUME MaxRadioChangesAssumption == MaxRadioChanges \in Nat

VARIABLES
  vendorInit,         \* initializeVendorRil, up to vendorRilReady and its announcement
  modemRadio,         \* the radio state the vendor's library reports
  radioChanges,
  statePending,       \* RADIO_STATE_CHANGED on its way to libril
  androidRadio,       \* the answer libril got last from onStateRequest
  rilRequest, rilAt, rilAnswers, rilResult,   \* per token
  identityStage,      \* IdentityRequest.stage, 0 when there is none
  identityImei,       \* IdentityRequest.imei holds a validated IMEI
  voiceRadioTechnology,
  registrations,      \* voiceRegistrationActive, dataRegistrationActive
  registeredDataRadioTechnology,
  cells,              \* gsmLac/gsmCid, wcdmaLac/wcdmaCid, lteTac/lteCi
  lastData, lastVoice \* tokens of the last replies that carried a cell

radioVars == <<vendorInit, modemRadio, radioChanges, statePending, androidRadio>>
requestVars == <<rilRequest, rilAt, rilAnswers, rilResult, identityStage, identityImei>>
cacheVars == <<voiceRadioTechnology, registrations, registeredDataRadioTechnology,
               cells, lastData, lastVoice>>
rilVars == <<radioVars, requestVars, cacheVars>>

Families == {"gsm", "wcdma", "lte"}
ModemRadioStates == {"off", "sim_not_ready", "sim_ready", "ruim_ready"}
(* "own" is GET_RADIO_CAPABILITY or CDMA_GET_SUBSCRIPTION_SOURCE, "refused"  *)
(* a request the blob would never complete, "passed" any other.             *)
RilKinds == {"identity", "voice_reg", "data_reg", "cell_info", "radio_tech",
             "own", "refused", "passed"}
Translated == {"identity", "voice_reg", "data_reg", "passed"}

RilInit ==
  /\ vendorInit = "none"
  /\ modemRadio = "off" /\ radioChanges = 0
  /\ statePending = FALSE /\ androidRadio = "unavailable"
  /\ rilRequest = [t \in RilTokens |-> "none"]
  /\ rilAt = [t \in RilTokens |-> "idle"]
  /\ rilAnswers = [t \in RilTokens |-> 0]
  /\ rilResult = [t \in RilTokens |-> "none"]
  /\ identityStage = [t \in RilTokens |-> 0]
  /\ identityImei = [t \in RilTokens |-> FALSE]
  /\ voiceRadioTechnology = "unknown"
  /\ registrations = {}
  /\ registeredDataRadioTechnology = "unknown"
  /\ cells = [f \in Families |-> NoCell]
  /\ lastData = NoCell /\ lastVoice = NoCell

Ready == vendorInit \in {"ready", "announced"}

-----------------------------------------------------------------------------
(* Radio state.                                                             *)

(* decodeVoiceRadioTechnology.                                              *)
VoiceTechnology(radio) ==
  CASE radio \in {"sim_not_ready", "sim_ready"} -> "wcdma"
    [] radio = "ruim_ready" -> "1xrtt"
    [] OTHER -> "unknown"

(* processRadioState: the old SIM and RUIM states all mean that the radio   *)
(* is on.                                                                   *)
Converted(radio) == IF radio = "off" THEN "off" ELSE "on"
DecodeRadioState(radio) ==
  voiceRadioTechnology' =
    IF radio = "off" THEN voiceRadioTechnology ELSE VoiceTechnology(radio)

(* RIL_Init: load the vendor's library and leave its RIL_Init to a thread;  *)
(* without the library, its entry point, memory or the thread rild gets no  *)
(* functions and sends nothing.                                             *)
LoadVendorRil ==
  /\ vendorInit = "none"
  /\ vendorInit' \in {"running", "absent"}
  /\ UNCHANGED <<modemRadio, radioChanges, statePending, androidRadio, requestVars, cacheVars>>

(* initializeVendorRil: the functions of the vendor are published, and only *)
(* then vendorRilReady; or the vendor's RIL_Init fails and the shim answers *)
(* for a radio that is not available for good.                              *)
VendorReady ==
  /\ vendorInit = "running"
  /\ vendorInit' \in {"ready", "failed"}
  /\ UNCHANGED <<modemRadio, radioChanges, statePending, androidRadio, requestVars, cacheVars>>

(* initializeVendorRil without its last call.                               *)
AnnounceNothing ==
  /\ vendorInit = "ready"
  /\ vendorInit' = "announced"
  /\ UNCHANGED <<modemRadio, radioChanges, statePending, androidRadio, requestVars, cacheVars>>

(* initializeVendorRil: RIL_UNSOL_RESPONSE_RADIO_STATE_CHANGED.             *)
Announce ==
  /\ vendorInit = "ready"
  /\ vendorInit' = "announced"
  /\ statePending' = TRUE
  /\ UNCHANGED <<modemRadio, radioChanges, androidRadio, requestVars, cacheVars>>

(* The vendor's library reports a change, during its RIL_Init as well.      *)
ModemChanges ==
  /\ vendorInit \in {"running", "ready", "announced"}
  /\ radioChanges < MaxRadioChanges
  /\ modemRadio' \in ModemRadioStates \ {modemRadio}
  /\ radioChanges' = radioChanges + 1
  /\ statePending' = TRUE
  /\ UNCHANGED <<vendorInit, androidRadio, requestVars, cacheVars>>

(* onStateRequestShim, when libril handles RADIO_STATE_CHANGED.             *)
StateRequest ==
  /\ statePending
  /\ statePending' = FALSE
  /\ IF Ready
     THEN androidRadio' = Converted(modemRadio) /\ DecodeRadioState(modemRadio)
     ELSE androidRadio' = "unavailable" /\ UNCHANGED voiceRadioTechnology
  /\ UNCHANGED <<vendorInit, modemRadio, radioChanges, requestVars, registrations,
                 registeredDataRadioTechnology, cells, lastData, lastVoice>>

-----------------------------------------------------------------------------
(* Requests.                                                                *)

Complete(t, result) ==
  /\ rilAt' = [rilAt EXCEPT ![t] = "idle"]
  /\ rilAnswers' = [rilAnswers EXCEPT ![t] = @ + 1]
  /\ rilResult' = [rilResult EXCEPT ![t] = result]

Arrives(t, kinds) ==
  /\ vendorInit \notin {"none", "absent"}
  /\ rilRequest[t] = "none"
  /\ \A u \in RilTokens : u < t => rilRequest[u] # "none"
  /\ \E kind \in kinds : rilRequest' = [rilRequest EXCEPT ![t] = kind]

(* onRequestShim before the vendor is ready.                                *)
RequestTooEarly(t) ==
  /\ Arrives(t, RilKinds)
  /\ ~Ready
  /\ Complete(t, "not_available")
  /\ UNCHANGED <<radioVars, identityStage, identityImei, cacheVars>>

(* OnRequestGetCellInfoList: one cell, of the first family that has one.    *)
ServingFamily ==
  CASE cells["gsm"] # NoCell -> "gsm"
    [] cells["gsm"] = NoCell /\ cells["wcdma"] # NoCell -> "wcdma"
    [] cells["gsm"] = NoCell /\ cells["wcdma"] = NoCell /\ cells["lte"] # NoCell -> "lte"
    [] OTHER -> "no_cell"
RequestCellInfo(t) ==
  /\ Ready
  /\ Arrives(t, {"cell_info"})
  /\ Complete(t, ServingFamily)
  /\ UNCHANGED <<radioVars, identityStage, identityImei, cacheVars>>

(* onRequestVoiceRadioTech: the technology of the state the radio is in.    *)
RequestRadioTech(t) ==
  /\ Ready
  /\ Arrives(t, {"radio_tech"})
  /\ voiceRadioTechnology' = VoiceTechnology(modemRadio)
  /\ Complete(t, IF voiceRadioTechnology' = "unknown" THEN "error" ELSE "ok")
  /\ UNCHANGED <<radioVars, identityStage, identityImei, registrations,
                 registeredDataRadioTechnology, cells, lastData, lastVoice>>

(* onRequestGetRadioCapability, onRequestCdmaGetSubscriptionSource,         *)
(* onRequestUnsupportedRequest: answered without the vendor.                *)
RequestAnsweredHere(t) ==
  /\ Ready
  /\ Arrives(t, {"own", "refused"})
  /\ Complete(t, IF rilRequest'[t] = "own" THEN "ok" ELSE "error")
  /\ UNCHANGED <<radioVars, identityStage, identityImei, cacheVars>>

(* onRequestDeviceIdentity without memory; onRequestEnterSimPin without a   *)
(* PIN.                                                                     *)
RequestFailsHere(t) ==
  /\ Ready
  /\ Arrives(t, {"identity", "passed"})
  /\ Complete(t, "error")
  /\ UNCHANGED <<radioVars, identityStage, identityImei, cacheVars>>

(* onRequestShim passing a request to the vendor, as it is or (DIAL,        *)
(* SEND_SMS_EXPECT_MORE, DEVICE_IDENTITY) as another one.                   *)
RequestPassed(t) ==
  /\ Ready
  /\ Arrives(t, Translated)
  /\ rilAt' = [rilAt EXCEPT ![t] = "vendor"]
  /\ identityStage' = IF rilRequest'[t] = "identity"
                      THEN [identityStage EXCEPT ![t] = 1] ELSE identityStage
  /\ UNCHANGED <<radioVars, rilAnswers, rilResult, identityImei, cacheVars>>

-----------------------------------------------------------------------------
(* Completions, on the vendor's thread, which holds the vendor's lock.      *)

EndIdentity(t, result) ==
  /\ Complete(t, result)
  /\ identityStage' = [identityStage EXCEPT ![t] = 0]

(* onRequestCompleteDeviceIdentity, stage 1: an error, something that is    *)
(* no IMEI, or IMEI and IMEISV in one.                                      *)
IdentityEnds(t) ==
  /\ rilAt[t] = "vendor" /\ identityStage[t] = 1
  /\ \/ EndIdentity(t, "error") /\ UNCHANGED identityImei
     \/ EndIdentity(t, "imei_imeisv") /\ identityImei' = [identityImei EXCEPT ![t] = TRUE]
  /\ UNCHANGED <<radioVars, rilRequest, cacheVars>>

(* The second query sent by the completion of the first.                    *)
DeferImeisvNot(t) == rilAt' = [rilAt EXCEPT ![t] = "stuck"]

(* RequestTimedCallback(requestImeisvDeferred).                             *)
DeferImeisv(t) == rilAt' = [rilAt EXCEPT ![t] = "timed"]

(* Stage 1: a valid IMEI, and the IMEISV is asked for later.                *)
ImeiArrives(t) ==
  /\ rilAt[t] = "vendor" /\ identityStage[t] = 1
  /\ identityStage' = [identityStage EXCEPT ![t] = 2]
  /\ identityImei' = [identityImei EXCEPT ![t] = TRUE]
  /\ DeferImeisv(t)
  /\ UNCHANGED <<radioVars, rilRequest, rilAnswers, rilResult, cacheVars>>

(* requestImeisvDeferred, on the thread of the timed callbacks.             *)
RequestImeisv(t) ==
  /\ rilAt[t] = "timed" /\ identityStage[t] = 2
  /\ rilAt' = [rilAt EXCEPT ![t] = "vendor"]
  /\ UNCHANGED <<radioVars, rilRequest, rilAnswers, rilResult, identityStage,
                 identityImei, cacheVars>>

(* Stage 2 failing the request when the modem knows no IMEISV.              *)
ImeisvRequired(t) ==
  /\ rilAt[t] = "vendor" /\ identityStage[t] = 2
  /\ \E result \in {"error", "imei_imeisv"} : EndIdentity(t, result)
  /\ UNCHANGED <<radioVars, rilRequest, identityImei, cacheVars>>

(* Stage 2: with an IMEISV or, after an error or an answer that is none,    *)
(* with the IMEI alone.                                                     *)
ImeisvArrives(t) ==
  /\ rilAt[t] = "vendor" /\ identityStage[t] = 2
  /\ \E result \in {"imei", "imei_imeisv"} : EndIdentity(t, result)
  /\ UNCHANGED <<radioVars, rilRequest, identityImei, cacheVars>>

(* onRequestCompleteVoiceRegistrationState: the three strings (state, LAC,  *)
(* CID) of an XMM626x are completed by a technology, the data side's if it  *)
(* is known.  The cell is kept as a WCDMA cell.                             *)
VoiceTechnologyReply(active) ==
  IF ~active THEN "unknown"
  ELSE IF registeredDataRadioTechnology # "unknown"
       THEN registeredDataRadioTechnology ELSE voiceRadioTechnology
VoiceRegistration(t) ==
  /\ rilAt[t] = "vendor" /\ rilRequest[t] = "voice_reg"
  /\ \E ok \in BOOLEAN, registered \in BOOLEAN, cell \in {NoCell, t} :
       LET active == ok /\ registered IN
       /\ registrations' = (registrations \ {"voice"}) \cup (IF active THEN {"voice"} ELSE {})
       /\ cells' = [cells EXCEPT !["wcdma"] = cell]
       /\ Complete(t, IF ok THEN VoiceTechnologyReply(active) ELSE "error")
  /\ lastVoice' = t
  /\ UNCHANGED <<radioVars, rilRequest, identityStage, identityImei,
                 voiceRadioTechnology, registeredDataRadioTechnology, lastData>>

(* A complete data reply that keeps the cells of the other families.        *)
CellsOfDataKept(t, family, cell) ==
  [f \in Families |-> IF f = family THEN cell ELSE cells[f]]

(* onRequestCompleteDataRegistrationState: a reply with a cell replaces the *)
(* cells of every family.                                                   *)
CellsOfData(t, family, cell) ==
  [f \in Families |-> IF f = family THEN cell ELSE NoCell]

(* The same reply: whether the state counts depends on the result, whether  *)
(* the cell does only on the strings.                                       *)
DataRegistration(t) ==
  /\ rilAt[t] = "vendor" /\ rilRequest[t] = "data_reg"
  /\ \E ok \in BOOLEAN, registered \in BOOLEAN, family \in Families \cup {"unknown"},
        cell \in {NoCell, t} :
       LET active == ok /\ registered IN
       /\ registrations' = (registrations \ {"data"}) \cup (IF active THEN {"data"} ELSE {})
       /\ registeredDataRadioTechnology' = IF active THEN family ELSE "unknown"
       /\ cells' = CellsOfData(t, family, cell)
       /\ Complete(t, IF ok THEN "ok" ELSE "error")
  /\ lastData' = t
  /\ UNCHANGED <<radioVars, rilRequest, identityStage, identityImei,
                 voiceRadioTechnology, lastVoice>>

(* A data reply with fewer than four strings, or none: nothing is known of  *)
(* the data side any more, and the cells stay.                              *)
DataRegistrationShort(t) ==
  /\ rilAt[t] = "vendor" /\ rilRequest[t] = "data_reg"
  /\ registrations' = registrations \ {"data"}
  /\ registeredDataRadioTechnology' = "unknown"
  /\ Complete(t, "error")
  /\ UNCHANGED <<radioVars, rilRequest, identityStage, identityImei,
                 voiceRadioTechnology, cells, lastData, lastVoice>>

(* onRequestCompleteShim: any other reply, or one that the translations     *)
(* leave alone, goes to libril.                                             *)
ReplyPassed(t) ==
  /\ rilAt[t] = "vendor" /\ rilRequest[t] \in {"passed", "voice_reg"}
  /\ \E result \in {"ok", "error"} : Complete(t, result)
  /\ UNCHANGED <<radioVars, rilRequest, identityStage, identityImei, cacheVars>>

-----------------------------------------------------------------------------
RilVendorStep(t) ==
  IdentityEnds(t) \/ ImeiArrives(t) \/ ImeisvArrives(t) \/ VoiceRegistration(t)
    \/ DataRegistration(t) \/ DataRegistrationShort(t) \/ ReplyPassed(t)
RilArrival(t) ==
  RequestTooEarly(t) \/ RequestCellInfo(t) \/ RequestRadioTech(t)
    \/ RequestAnsweredHere(t) \/ RequestFailsHere(t) \/ RequestPassed(t)
RilNext ==
  \/ LoadVendorRil \/ VendorReady \/ Announce \/ ModemChanges \/ StateRequest
  \/ \E t \in RilTokens : RilArrival(t) \/ RequestImeisv(t) \/ RilVendorStep(t)
RilSpec == RilInit /\ [][RilNext]_rilVars

(* The timed callbacks run and the vendor completes what it has taken.      *)
RilFairness ==
  \A t \in RilTokens : WF_rilVars(RequestImeisv(t)) /\ WF_rilVars(RilVendorStep(t))

-----------------------------------------------------------------------------
(* Types of the state of the requests.                                      *)
RilTypeOK ==
  /\ vendorInit \in {"none", "running", "absent", "failed", "ready", "announced"}
  /\ modemRadio \in ModemRadioStates /\ radioChanges \in 0..MaxRadioChanges
  /\ statePending \in BOOLEAN /\ androidRadio \in {"unavailable", "off", "on"}
  /\ rilRequest \in [RilTokens -> RilKinds \cup {"none"}]
  /\ rilAt \in [RilTokens -> {"idle", "vendor", "timed", "stuck"}]
  /\ rilAnswers \in [RilTokens -> Nat]
  /\ identityStage \in [RilTokens -> 0..2] /\ identityImei \in [RilTokens -> BOOLEAN]
  /\ voiceRadioTechnology \in {"unknown", "wcdma", "1xrtt"}
  /\ registrations \subseteq {"voice", "data"}
  /\ registeredDataRadioTechnology \in Families \cup {"unknown"}
  /\ cells \in [Families -> RilTokens \cup {NoCell}]
  /\ lastData \in RilTokens \cup {NoCell} /\ lastVoice \in RilTokens \cup {NoCell}

(* Every request is completed once at most, whichever of its stages ends it. *)
RilAnsweredOnce == \A t \in RilTokens : rilAnswers[t] <= 1

(* A validated IMEI is never thrown away, and none is made up.              *)
ImeiSurvives ==
  \A t \in RilTokens :
    rilRequest[t] = "identity" /\ rilAnswers[t] > 0 =>
      (identityImei[t] <=> rilResult[t] \in {"imei", "imei_imeisv"})

(* Once the late initialisation is over and libril has handled what was     *)
(* announced, Android's radio state is the modem's, although every answer   *)
(* before that said that the radio is not available.                        *)
AndroidRadioIsCurrent ==
  vendorInit = "announced" /\ ~statePending => androidRadio = Converted(modemRadio)

(* The cells kept for GET_CELL_INFO_LIST are those of the latest replies: a *)
(* GSM or LTE cell of the last data reply, a WCDMA cell of the last data or *)
(* voice reply.                                                             *)
CellsAreLatest ==
  /\ cells["gsm"] \in {NoCell, lastData} /\ cells["lte"] \in {NoCell, lastData}
  /\ cells["wcdma"] \in {NoCell, lastData, lastVoice}
  /\ ~(cells["gsm"] # NoCell /\ cells["lte"] # NoCell)

(* What Android is told is current: the radio state, and the cells a later   *)
(* GET_CELL_INFO_LIST is answered with.                                     *)
AndroidIsCurrent == AndroidRadioIsCurrent /\ CellsAreLatest

(* Every request is completed.                                              *)
EveryRilRequestAnswered ==
  \A t \in RilTokens : rilRequest[t] # "none" ~> rilAnswers[t] > 0
=============================================================================
