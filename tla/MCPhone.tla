------------------------------ MODULE MCPhone ------------------------------
(* Five parts of the phone side by side: the radio daemon's requests, its    *)
(* SIM access profile, the framework's end, the mixer that calls and streams *)
(* share, and the positions.  Their variables are disjoint and each          *)
(* behaviour runs one part, so their states add up instead of multiplying.   *)
(* A part stops when its clients are out of requests.                       *)
EXTENDS RilRequests, SapSession, JavaRil, MixerRoutes, GpsShim

VARIABLE part

phoneVars == <<part, rilVars, sapVars, javaVars, mixerVars, gpsVars>>

MCInit ==
  /\ part \in {"ril", "sap", "java", "mixer", "gps"}
  /\ RilInit /\ SapInit /\ JavaInit /\ MixerInit /\ GpsInit
  /\ part # "mixer" => config.file = CHOOSE file \in DOMAIN Configs : TRUE
  /\ part # "sap" => ~sapPatient

Ril == part = "ril" /\ UNCHANGED <<part, sapVars, javaVars, mixerVars, gpsVars>>
Sap == part = "sap" /\ UNCHANGED <<part, rilVars, javaVars, mixerVars, gpsVars>>
Java == part = "java" /\ UNCHANGED <<part, rilVars, sapVars, mixerVars, gpsVars>>
InMixer == part = "mixer" /\ UNCHANGED <<part, rilVars, sapVars, javaVars, gpsVars>>
Gps == part = "gps" /\ UNCHANGED <<part, rilVars, sapVars, javaVars, mixerVars>>

RilParts ==
  \/ Ril /\ LoadVendorRil
  \/ Ril /\ VendorReady
  \/ Ril /\ Announce
  \/ Ril /\ ModemChanges
  \/ Ril /\ StateRequest
  \/ \E t \in RilTokens :
       \/ Ril /\ RequestTooEarly(t)
       \/ Ril /\ RequestCellInfo(t)
       \/ Ril /\ RequestRadioTech(t)
       \/ Ril /\ RequestAnsweredHere(t)
       \/ Ril /\ RequestFailsHere(t)
       \/ Ril /\ RequestPassed(t)
       \/ Ril /\ RequestImeisv(t)
       \/ Ril /\ IdentityEnds(t)
       \/ Ril /\ ImeiArrives(t)
       \/ Ril /\ ImeisvArrives(t)
       \/ Ril /\ VoiceRegistration(t)
       \/ Ril /\ DataRegistration(t)
       \/ Ril /\ DataRegistrationShort(t)
       \/ Ril /\ ReplyPassed(t)
SapParts ==
  \E t \in SapTokens :
    \/ Sap /\ SapReceive(t)
    \/ Sap /\ SapRefuse(t)
    \/ Sap /\ SapStart(t)
    \/ Sap /\ SapStartFails(t)
    \/ Sap /\ SapAnswer(t)
    \/ Sap /\ SapAssign(t)
    \/ Sap /\ SapTimed(t)
    \/ Sap /\ SapTimedFails(t)
    \/ Sap /\ VendorReply(t)
    \/ Sap /\ CardReset(t)
    \/ Sap /\ CardResetBeforeDisconnect(t)
    \/ Sap /\ VendorAnswer(t)
    \/ Sap /\ VendorAssign(t)
JavaParts ==
  \/ \E s \in Serials : Java /\ JavaSend(s)
  \/ \E s \in Serials : Java /\ ResponseUnreadable(s)
  \/ \E s \in Serials : Java /\ ProcessSolicited(s)
  \/ \E s \in Serials : Java /\ UnexpectedResponse(s)
  \/ \E c \in CatCommands : Java /\ CatArrives(c)
  \/ Java /\ CatHandled
  \/ Java /\ CatRegister
  \/ Java /\ CatFlush
  \/ Java /\ CatClear
MixerParts ==
  \/ InMixer /\ ReadTag
  \/ \E d \in AllDirections, on \in BOOLEAN : InMixer /\ SetState(d, on)
  \/ \E type \in RoutedDevices : InMixer /\ SetMixerDevice(type)
  \/ \E type \in RoutedDevices, percent \in {0, 50, 100} :
       InMixer /\ SetVolume("modem", type, "voice-volume", percent)
  \/ \E type \in RoutedDevices, mute \in BOOLEAN : InMixer /\ SetMute("modem", type, mute)
  \/ InMixer /\ CloseMixer
GpsParts ==
  \/ Gps /\ OpenGps
  \/ Gps /\ GetGpsInterface
  \/ \E name \in Interfaces : Gps /\ GetExtension(name)
  \/ \E i \in Interfaces, client \in GpsClients : Gps /\ InitInterface(i, client)
  \/ \E fix \in GpsFixes, time \in GpsTimes : Gps /\ LocationUnfiltered(fix, time)
  \/ \E fix \in GpsFixes, time \in GpsTimes : Gps /\ LocationMoved(fix, time)
  \/ \E fix \in GpsFixes, time \in GpsTimes : Gps /\ LocationHeld(fix, time)
MCNext == RilParts \/ SapParts \/ JavaParts \/ MixerParts \/ GpsParts

(* The fairness of each part (RilFairness, SapFairness).                    *)
MCFairness ==
  /\ \A t \in RilTokens :
       WF_phoneVars(Ril /\ RequestImeisv(t)) /\ WF_phoneVars(Ril /\ RilVendorStep(t))
  /\ \A t \in SapTokens :
       /\ WF_phoneVars(Sap /\ SapThreadStep(t))
       /\ WF_phoneVars(Sap /\ (SapTimed(t) \/ SapTimedFails(t)))
       /\ WF_phoneVars(Sap /\ VendorThreadStep(t))

MCSpec == MCInit /\ [][MCNext]_phoneVars /\ MCFairness

-----------------------------------------------------------------------------
(* Configurations of the mixer                                             *)

OpenTag(elem, type) ==
  [start |-> TRUE, elem |-> elem, type |-> type, props |-> "none", name |-> "none",
   value |-> << >>, attr |-> "none"]
CloseTag(elem) == [OpenTag(elem, "none") EXCEPT !.start = FALSE]
Ctrl(name, value) == [OpenTag("ctrl", "none") EXCEPT !.name = name, !.value = value]
PathTags(type, ctrls) == <<OpenTag("path", type)>> \o ctrls \o <<CloseTag("path")>>
DeviceTags(type, enable, disable) ==
  <<OpenTag("device", type)>> \o PathTags("enable", enable) \o PathTags("disable", disable)
  \o <<CloseTag("device")>>
DirectionTags(direction, devices) ==
  <<[OpenTag(direction, "none") EXCEPT !.props = "card 0"]>> \o devices \o <<CloseTag(direction)>>

(* configs/tinyalsa-audio.xml with the controls that devices share and one   *)
(* or two of each device's own.                                             *)
GalaxyS2 ==
  DirectionTags("output",
       DeviceTags("default", <<Ctrl("Master Volume", <<75>>), Ctrl("AD Analog Volume", <<19>>),
                               Ctrl("Master Switch", On)>>, << >>)
    \o DeviceTags("earpiece", <<Ctrl("Receiver Switch", On)>>, <<Ctrl("Receiver Switch", <<0>>)>>)
    \o DeviceTags("speaker",
                  <<Ctrl("Speaker Volume", <<26>>), Ctrl("Speaker Switch", On)>>,
                  <<Ctrl("Speaker Volume", <<0>>), Ctrl("Speaker Switch", <<0>>)>>))
  \o DirectionTags("input",
       DeviceTags("builtin-mic",
                  <<Ctrl("AD Analog Volume", <<26>>), Ctrl("Mic 1 Gain", <<2>>)>>,
                  <<Ctrl("AD Analog Volume", <<19>>), Ctrl("Mic 1 Gain", <<0>>)>>))
  \o DirectionTags("modem",
       DeviceTags("earpiece",
                  <<Ctrl("Master Volume", <<76>>), Ctrl("AD Analog Volume", <<22>>)>>,
                  <<Ctrl("Master Volume", <<75>>), Ctrl("AD Analog Volume", <<19>>)>>)
    \o DeviceTags("speaker", <<Ctrl("Speaker Volume", <<31>>)>>, <<Ctrl("Speaker Volume", <<26>>)>>))

(* The volumes and mutes that the mixer knows and that file does not use,    *)
(* and a device, like its dock, that the modem does not have.               *)
WithVolumes ==
  DirectionTags("output",
       DeviceTags("default", <<Ctrl("Master Volume", <<75>>), Ctrl("Master Switch", On)>>, << >>)
    \o DeviceTags("earpiece", <<Ctrl("Receiver Switch", On)>>, <<Ctrl("Receiver Switch", <<0>>)>>)
    \o DeviceTags("speaker", <<Ctrl("Speaker Switch", On)>>, <<Ctrl("Speaker Switch", <<0>>)>>))
  \o DirectionTags("modem",
       DeviceTags("earpiece",
                  <<[Ctrl("Call Volume", <<0, 31>>) EXCEPT !.attr = "voice-volume"],
                    [Ctrl("Mic 1 Gain", <<0>>) EXCEPT !.attr = "mic-mute"]>>,
                  <<[Ctrl("Mic 1 Gain", <<2>>) EXCEPT !.attr = "mic-mute"]>>))

Mixers == [shipped |-> GalaxyS2, volumes |-> WithVolumes]
Asked == { <<"out", "earpiece">>, <<"out", "speaker">>, <<"in", "builtin-mic">> }
(* Fixes: at rest and driving, three of them less than 5 m apart, one whose  *)
(* opposite moves cancel, one passed on unfiltered, one with more flags.     *)
Fix(place, speed, accuracy, flags) ==
  [place |-> place, speed |-> speed, accuracy |-> accuracy, flags |-> flags]
Positions ==
  { Fix(<<52, 13, 30>>, 0, 8, 1), Fix(<<52, 13, 33>>, 5000, 25, 1), Fix(<<52, 13, 34>>, 0, 60, 1),
    Fix(<<44, 21, 30>>, 0, 18, 1), Fix(<<52, 13, 31>>, 0, 3, 1), Fix(<<52, 13, 50>>, 5000, 8, 3) }
Refusing == {"Speaker Switch", "Master Volume"}
=============================================================================
