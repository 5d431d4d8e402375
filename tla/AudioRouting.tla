--------------------------- MODULE AudioRouting ---------------------------
(***************************************************************************)
(* The audio HAL (tinyalsa_audio/): an output and an input stream, the      *)
(* calls of a phone call, and what they share.                             *)
(*                                                                         *)
(*   "policy"     the framework's calls on the device: open and close of    *)
(*                streams, mode, routing, volume, mute (audio_hw.c)         *)
(*   "out", "in"  the thread of a stream: write or read, standby, routing   *)
(*                (audio_out.c and audio_in.c, line for line the same code) *)
(*                                                                         *)
(* What they share: the codec (yamaha-mc1n2-audio.c), which has no lock and *)
(* is reached under whatever lock the caller holds; and the client of the   *)
(* modem (audio_ril_interface.c), reached under the device lock only.       *)
(*                                                                         *)
(* The framework uses and closes a stream as it must: nobody calls it after *)
(* its close has begun, and its own calls come from one thread.             *)
(* One action is a section under the locks it names, or one side of the     *)
(* codec's route_start().  The mixer (MixerRoutes), which is only touched   *)
(* under the device lock, and the samples are left out.                    *)
(***************************************************************************)
EXTENDS Naturals

CONSTANTS
  Outputs,    \* output devices: speaker, earpiece, ...
  Inputs,     \* input devices: microphones
  Earpiece,   \* AUDIO_DEVICE_OUT_EARPIECE
  Scenarios,  \* the sessions to look at: the streams the framework opens, the
              \* output devices it uses, and whether there are phone calls and
              \* failing drivers
  None        \* AUDIO_DEVICE_NONE, no lock holder, nothing

ASSUME DevicesAssumption ==
  /\ Earpiece \in Outputs /\ Outputs \cap Inputs = {}
  /\ None \notin Outputs \cup Inputs \cup {"policy", "out", "in"}
  /\ None \notin [{"out", "in", "modem"} -> Outputs \cup Inputs \cup {None}]
  /\ Scenarios \subseteq [streams : SUBSET {"out", "in"}, outputs : SUBSET Outputs,
                    calls : BOOLEAN, faults : BOOLEAN]

Dirs    == {"out", "in"}
Threads == {"policy", "out", "in"}

VARIABLES
  scenario,
  pc, want,          \* where each thread is, and the device its call is about
  deviceLock, streamLock,
  opened, device_current, standby, pcm,        \* of the streams
  state, codecDevice,  \* yamaha_mc1n2_audio_pdata: *_state and *_device
  path,              \* the route the codec's driver has
  route,             \* the route a thread in route_start() is about to set
  mode,
  ril, rilDevice,    \* ril_interface and its device_current
  connected,         \* isConnected_RILD
  rilLeft,           \* ril_interface->lock was left locked
  modemPath,         \* the modem's audio path
  (* history *)
  raced,             \* route_start() overlapped another or failed
  uneven,            \* the stream was put in standby, or failed, half-way
  asked,             \* the output device the last routing of this call asked for
  untold             \* the modem did not take its last path

calls == <<pc, want, deviceLock>>
streams == <<opened, device_current, standby, pcm, uneven>>
codec == <<state, codecDevice, path, route, raced>>
modem == <<ril, rilDevice, connected, rilLeft, modemPath, asked, untold>>
vars == <<scenario, calls, streamLock, streams, codec, mode, modem>>

Devices(d) == IF d = "out" THEN scenario.outputs ELSE Inputs
NoRoute == [out |-> None, in |-> None, modem |-> None]

Init ==
  /\ scenario \in Scenarios
  /\ pc = [t \in Threads |-> "idle"] /\ want = [t \in Threads |-> None]
  /\ deviceLock = None /\ streamLock = [d \in Dirs |-> None]
  /\ opened = [d \in Dirs |-> FALSE] /\ device_current = [d \in Dirs |-> None]
  /\ standby = [d \in Dirs |-> TRUE] /\ pcm = [d \in Dirs |-> FALSE]
  /\ state = [s \in {"out", "in", "modem"} |-> FALSE]
  /\ codecDevice = [d \in Dirs |-> None]
  /\ path = NoRoute /\ route = [t \in Threads |-> None]
  /\ mode = "normal" /\ ril = FALSE /\ rilDevice = None /\ connected = FALSE
  /\ rilLeft = FALSE /\ modemPath = None
  /\ raced = FALSE /\ uneven = [d \in Dirs |-> FALSE]
  /\ asked = None /\ untold = FALSE

Goto(t, place) == pc' = [pc EXCEPT ![t] = place]
Return(t) == Goto(t, "idle") /\ want' = [want EXCEPT ![t] = None]
(* The stream a call is about.                                             *)
Dir(t) == IF t \in Dirs THEN t ELSE IF want[t] \in Outputs THEN "out" ELSE "in"
-----------------------------------------------------------------------------
(* The codec                                                               *)

(* The parameters yamaha_mc1n2_audio_route_start() merges.                 *)
Merged(states, devices) ==
  [out   |-> IF states["out"] THEN devices["out"] ELSE None,
   in    |-> IF states["in"] THEN devices["in"] ELSE None,
   modem |-> IF states["modem"] THEN devices["out"] ELSE None]

(* A thread assigns the codec's variables and reads them all in             *)
(* route_start(); the ioctls come later, and each may fail.                 *)
RouteStart(t, states, devices) ==
  /\ state' = states /\ codecDevice' = devices
  /\ route' = [route EXCEPT ![t] = Merged(states, devices)]
  /\ raced' = \E u \in Threads \ {t} : route[u] # None
  /\ UNCHANGED path

RouteDone(t) ==
  /\ \E done \in {TRUE, ~scenario.faults} :
       /\ path' = IF done THEN route[t] ELSE path
       /\ raced' = (raced \/ ~done)
  /\ route' = [route EXCEPT ![t] = None]
  /\ UNCHANGED <<state, codecDevice>>

Start(t, what) == RouteStart(t, [state EXCEPT ![what] = TRUE], codecDevice)
Stop(t, what)  == RouteStart(t, [state EXCEPT ![what] = FALSE], codecDevice)

(* yamaha_mc1n2_audio_set_route(): is there a route to start again?         *)
ActiveStream == \E d \in Dirs : state[d]
Active == \E s \in DOMAIN state : state[s]
Restarts(d, device) == codecDevice[d] # device /\ Active
SetDeviceOfOutput(t, d, device) ==
  codecDevice' = [codecDevice EXCEPT !["out"] = device]
  /\ UNCHANGED <<state, path, route, raced>>
SetDevice(t, d, device) ==
  LET devices == [codecDevice EXCEPT ![d] = device] IN
  IF Restarts(d, device)
  THEN RouteStart(t, state, devices)
  ELSE codecDevice' = devices /\ UNCHANGED <<state, path, route, raced>>
-----------------------------------------------------------------------------
(* A stream's thread                                                       *)

Lock(t, d)   == streamLock[d] = None /\ streamLock' = [streamLock EXCEPT ![d] = t]
Unlock(d)    == streamLock' = [streamLock EXCEPT ![d] = None]

(* audio_out_write() and audio_in_read(): leave standby, or move samples.   *)
Write(d) ==
  /\ pc[d] = "idle" /\ opened[d] /\ Lock(d, d)
  /\ IF standby[d]
     THEN Start(d, d) /\ Goto(d, "start")
     ELSE Goto(d, "transfer") /\ UNCHANGED codec
  /\ UNCHANGED <<scenario, want, deviceLock, streams, mode, modem>>

(* The codec's answer is ignored; pcm_open() may fail.                      *)
WriteOpened(d) ==
  /\ pc[d] = "start" /\ RouteDone(d)
  /\ \/ /\ pcm' = [pcm EXCEPT ![d] = TRUE] /\ standby' = [standby EXCEPT ![d] = FALSE]
        /\ Goto(d, "transfer")
        /\ UNCHANGED <<uneven, streamLock>>
     \/ /\ scenario.faults /\ uneven' = [uneven EXCEPT ![d] = TRUE]
        /\ Goto(d, "idle") /\ Unlock(d)
        /\ UNCHANGED <<pcm, standby>>
  /\ UNCHANGED <<scenario, want, deviceLock, opened, device_current, mode, modem>>

Transfer(d) ==
  /\ pc[d] = "transfer" /\ Goto(d, "idle") /\ Unlock(d)
  /\ UNCHANGED <<scenario, want, deviceLock, streams, codec, mode, modem>>

(* audio_*_standby(), up to the codec; then "busy" or "idle".               *)
StandbyForgetful(t, d, busy, idle) ==
  /\ pcm' = [pcm EXCEPT ![d] = FALSE]
  /\ IF standby[d]
     THEN streamLock[d] = None /\ UNCHANGED <<streamLock, codec>> /\ Goto(t, idle)
     ELSE Lock(t, d) /\ RouteStart(t, state, codecDevice) /\ Goto(t, busy)
StandbyBegin(t, d, busy, idle) ==
  /\ pcm' = [pcm EXCEPT ![d] = FALSE]
  /\ IF standby[d]
     THEN streamLock[d] = None /\ UNCHANGED <<streamLock, codec>> /\ Goto(t, idle)
     ELSE Lock(t, d) /\ Stop(t, d) /\ Goto(t, busy)
StandbyEnd(t, d, next) ==
  /\ RouteDone(t) /\ Unlock(d) /\ Goto(t, next)
  /\ standby' = [standby EXCEPT ![d] = TRUE]
  /\ uneven' = [uneven EXCEPT ![d] = FALSE]

Standby(d) ==
  /\ pc[d] = "idle" /\ opened[d] /\ StandbyBegin(d, d, "stop", "idle")
  /\ UNCHANGED <<scenario, want, deviceLock, opened, device_current, standby, uneven, mode, modem>>
StandbyStopped(d) ==
  /\ pc[d] = "stop" /\ StandbyEnd(d, d, "idle")
  /\ UNCHANGED <<scenario, want, deviceLock, opened, device_current, pcm, mode, modem>>

(* set_sample_rate() or set_format() with a value that is not the mixer's.  *)
SetFormat(d) ==
  /\ scenario.faults /\ pc[d] = "idle" /\ opened[d] /\ streamLock[d] = None
  /\ standby' = [standby EXCEPT ![d] = TRUE]
  /\ uneven' = [uneven EXCEPT ![d] = uneven[d] \/ ~standby[d]]
  /\ UNCHANGED <<scenario, calls, streamLock, opened, device_current, pcm, codec, mode, modem>>
-----------------------------------------------------------------------------
(* Routing                                                                 *)

(* set_parameters() of a stream, by its thread, or of the device, which     *)
(* only knows real devices (audio_is_output_device of 0 is false).          *)
SetParametersUnlocked(t, device) ==
  /\ pc[t] = "idle" /\ (t \notin Dirs => deviceLock = None)
  /\ deviceLock' = IF t \in Dirs THEN deviceLock ELSE t
  /\ t \in Dirs => opened[t] /\ device \in Devices(t) \cup {None}
  /\ t = "policy" => device \in scenario.outputs \cup Inputs
  /\ want' = [want EXCEPT ![t] = device] /\ Goto(t, "route")
  /\ UNCHANGED <<scenario, streamLock, streams, codec, mode, modem>>
SetParameters(t, device) ==
  /\ pc[t] = "idle" /\ deviceLock = None /\ deviceLock' = t
  /\ t \in Dirs => opened[t] /\ device \in Devices(t) \cup {None}
  /\ t = "policy" => device \in scenario.outputs \cup Inputs
  /\ want' = [want EXCEPT ![t] = device] /\ Goto(t, "route")
  /\ UNCHANGED <<scenario, streamLock, streams, codec, mode, modem>>

(* No stream, or it has the device already.                                 *)
RouteNothing(t) ==
  /\ pc[t] = "route"
  /\ ~opened[Dir(t)] \/ device_current[Dir(t)] = want[t]
  /\ Goto(t, "ril")
  /\ UNCHANGED <<scenario, want, deviceLock, streamLock, streams, codec, mode, modem>>

(* audio_out_set_route() and audio_in_set_route() of a device.              *)
RouteStream(t) ==
  LET d == Dir(t) IN
  /\ pc[t] = "route" /\ opened[d] /\ device_current[d] # want[t] /\ want[t] # None
  /\ device_current' = [device_current EXCEPT ![d] = want[t]]
  /\ SetDevice(t, d, want[t])
  /\ IF Restarts(d, want[t]) THEN Lock(t, d) /\ Goto(t, "routeCodec")
     ELSE streamLock[d] = None /\ UNCHANGED streamLock /\ Goto(t, "ril")
  /\ UNCHANGED <<scenario, want, deviceLock, opened, standby, pcm, uneven, mode, modem>>
RouteStreamDone(t) ==
  /\ pc[t] = "routeCodec" /\ RouteDone(t) /\ Unlock(Dir(t)) /\ Goto(t, "ril")
  /\ UNCHANGED <<scenario, want, deviceLock, streams, mode, modem>>

(* Of no device: it gives up the lock it was called with, standby() takes    *)
(* it again and gives it up, and so does the caller, whoever has it then.    *)
RouteNoneKeepingLock(t) ==
  LET d == Dir(t) IN
  /\ pc[t] = "route" /\ opened[d] /\ device_current[d] # want[t] /\ want[t] = None
  /\ Lock(t, d)
  /\ device_current' = [device_current EXCEPT ![d] = None]
  /\ Goto(t, "routeStandby")
  /\ UNCHANGED <<scenario, want, deviceLock, opened, standby, pcm, uneven, codec, mode, modem>>
RouteNone(t) ==
  LET d == Dir(t) IN
  /\ pc[t] = "route" /\ opened[d] /\ device_current[d] # want[t] /\ want[t] = None
  /\ streamLock[d] = None /\ UNCHANGED streamLock
  /\ device_current' = [device_current EXCEPT ![d] = None]
  /\ Goto(t, "routeStandby")
  /\ UNCHANGED <<scenario, want, deviceLock, opened, standby, pcm, uneven, codec, mode, modem>>
RouteStandby(t) ==
  /\ pc[t] = "routeStandby" /\ StandbyBegin(t, Dir(t), "routeStop", "unlockAgain")
  /\ UNCHANGED <<scenario, want, deviceLock, opened, device_current, standby, uneven, mode, modem>>
RouteStandbyStopped(t) ==
  /\ pc[t] = "routeStop" /\ StandbyEnd(t, Dir(t), "unlockAgain")
  /\ UNCHANGED <<scenario, want, deviceLock, opened, device_current, pcm, mode, modem>>
UnlockAgain(t) ==
  /\ pc[t] = "unlockAgain" /\ Unlock(Dir(t)) /\ Goto(t, "ril")
  /\ UNCHANGED <<scenario, want, deviceLock, streams, codec, mode, modem>>
-----------------------------------------------------------------------------
(* The modem's client; every call of this part holds the device lock        *)

PathOf(device) == IF device = None THEN Earpiece ELSE device

(* A call that locks ril_interface->lock and connects if it must: without a  *)
(* connection it returns at once, and leaves the lock locked.               *)
Refused   == ~rilLeft /\ ~connected /\ rilLeft' = TRUE /\ UNCHANGED connected
Connected == ~rilLeft /\ connected' = TRUE /\ UNCHANGED rilLeft
RilCall   == Refused \/ Connected

(* audio_ril_interface_set_route(): the device is noted, then the modem told. *)
RilSetRoute(device) ==
  \/ Refused /\ UNCHANGED <<rilDevice, modemPath, untold>>
  \/ /\ Connected /\ rilDevice' = device
     /\ \E told \in BOOLEAN :
          /\ modemPath' = IF told THEN PathOf(device) ELSE modemPath
          /\ untold' = ~told

RouteModemIfStreamMoved(t) ==
  /\ pc[t] = "ril" /\ Return(t) /\ deviceLock' = None
  /\ asked' = IF Dir(t) = "out" THEN want[t] ELSE asked
  /\ IF Dir(t) = "out" /\ ril /\ rilDevice # want[t] /\ device_current["out"] # want[t]
     THEN RilSetRoute(want[t])
     ELSE UNCHANGED <<rilDevice, connected, rilLeft, modemPath, untold>>
  /\ UNCHANGED <<scenario, streamLock, streams, codec, mode, ril>>
RouteModem(t) ==
  /\ pc[t] = "ril" /\ Return(t) /\ deviceLock' = None
  /\ asked' = IF Dir(t) = "out" THEN want[t] ELSE asked
  /\ IF Dir(t) = "out" /\ ril /\ rilDevice # want[t]
     THEN RilSetRoute(want[t])
     ELSE UNCHANGED <<rilDevice, connected, rilLeft, modemPath, untold>>
  /\ UNCHANGED <<scenario, streamLock, streams, codec, mode, ril>>

(* audio_hw_set_mode() to a call: the codec, the client, and what it is told. *)
CallBegin ==
  /\ scenario.calls /\ pc["policy"] = "idle" /\ mode = "normal" /\ deviceLock = None
  /\ deviceLock' = "policy"
  /\ want' = [want EXCEPT !["policy"] = IF opened["out"] THEN device_current["out"] ELSE Earpiece]
  /\ Start("policy", "modem") /\ Goto("policy", "callCodec")
  /\ UNCHANGED <<scenario, streamLock, streams, mode, modem>>
CallOpen ==
  /\ pc["policy"] = "callCodec" /\ RouteDone("policy")
  /\ \/ ril' = FALSE /\ rilDevice' = None /\ Goto("policy", "callEnd")
     \/ ril' = TRUE /\ rilDevice' = want["policy"] /\ Goto("policy", "callRoute")
  /\ connected' = FALSE /\ rilLeft' = FALSE /\ untold' = FALSE
  /\ UNCHANGED <<scenario, want, deviceLock, streamLock, streams, mode, modemPath, asked>>
CallRoute ==
  /\ pc["policy"] = "callRoute" /\ Goto("policy", "callTwomic")
  /\ IF want["policy"] # None THEN RilSetRoute(want["policy"])
     ELSE UNCHANGED <<rilDevice, connected, rilLeft, modemPath, untold>>
  /\ UNCHANGED <<scenario, want, deviceLock, streamLock, streams, codec, mode, ril, asked>>
CallTwomic ==
  /\ pc["policy"] = "callTwomic" /\ Goto("policy", "callVolume")
  /\ IF want["policy"] = Earpiece THEN RilCall ELSE UNCHANGED <<connected, rilLeft>>
  /\ UNCHANGED <<scenario, want, deviceLock, streamLock, streams, codec, mode, ril, rilDevice,
                 modemPath, asked, untold>>
(* The volume is only sent if it is not zero.                               *)
CallVolume ==
  /\ pc["policy"] = "callVolume" /\ Goto("policy", "callEnd")
  /\ RilCall \/ UNCHANGED <<connected, rilLeft>>
  /\ UNCHANGED <<scenario, want, deviceLock, streamLock, streams, codec, mode, ril, rilDevice,
                 modemPath, asked, untold>>
CallEnd ==
  /\ pc["policy"] = "callEnd" /\ Return("policy")
  /\ deviceLock' = None /\ mode' = "call" /\ asked' = want["policy"]
  /\ UNCHANGED <<scenario, streamLock, streams, codec, ril, rilDevice, connected, rilLeft,
                 modemPath, untold>>

(* audio_hw_set_mode() out of a call.                                       *)
HangUp ==
  /\ pc["policy"] = "idle" /\ mode = "call" /\ deviceLock = None
  /\ deviceLock' = "policy" /\ Goto("policy", "hangUp")
  /\ UNCHANGED <<scenario, want, streamLock, streams, codec, mode, modem>>
HangUpTwomic ==
  /\ pc["policy"] = "hangUp" /\ Goto("policy", "hangUpCodec")
  /\ IF ril THEN RilCall ELSE UNCHANGED <<connected, rilLeft>>
  /\ Stop("policy", "modem")
  /\ UNCHANGED <<scenario, want, deviceLock, streamLock, streams, mode, ril, rilDevice, modemPath,
                 asked, untold>>
(* A client that cannot be disconnected or closed stays.                    *)
HangUpClose ==
  /\ pc["policy"] = "hangUpCodec" /\ RouteDone("policy") /\ Return("policy")
  /\ deviceLock' = None /\ mode' = "normal" /\ asked' = None
  /\ \/ ril' = FALSE /\ rilDevice' = None /\ connected' = FALSE /\ rilLeft' = FALSE
     \/ /\ ril /\ connected' \in {FALSE, connected}
        /\ UNCHANGED <<ril, rilDevice, rilLeft>>
  /\ UNCHANGED <<scenario, streamLock, streams, modemPath, untold>>

(* audio_hw_set_voice_volume() in a call.                                   *)
VoiceVolume ==
  /\ pc["policy"] = "idle" /\ mode = "call" /\ ril /\ deviceLock = None
  /\ deviceLock' = "policy" /\ Goto("policy", "volume")
  /\ UNCHANGED <<scenario, want, streamLock, streams, codec, mode, modem>>
VoiceVolumeSet ==
  /\ pc["policy"] = "volume" /\ RilCall /\ Return("policy") /\ deviceLock' = None
  /\ UNCHANGED <<scenario, streamLock, streams, codec, mode, ril, rilDevice, modemPath, asked, untold>>
(* audio_hw_set_mic_mute() in a call: it connects without the client's lock. *)
MicMute ==
  /\ pc["policy"] = "idle" /\ mode = "call" /\ ril /\ deviceLock = None
  /\ ~connected /\ connected' = TRUE
  /\ UNCHANGED <<scenario, calls, streamLock, streams, codec, mode, ril, rilDevice, rilLeft,
                 modemPath, asked, untold>>
-----------------------------------------------------------------------------
(* Streams come and go                                                     *)

(* audio_hw_open_output_stream() and _input_stream(): the route under the    *)
(* device lock, and a trial of the PCM after it.                            *)
OpenStream(d, device) ==
  /\ pc["policy"] = "idle" /\ deviceLock = None
  /\ d \in scenario.streams /\ ~opened[d] /\ device \in Devices(d)
  /\ SetDevice("policy", d, device)
  /\ want' = [want EXCEPT !["policy"] = device]
  /\ IF Restarts(d, device) THEN deviceLock' = "policy" /\ Goto("policy", "openCodec")
     ELSE UNCHANGED deviceLock /\ Goto("policy", "openPcm")
  /\ asked' = IF d = "out" THEN None ELSE asked
  /\ UNCHANGED <<scenario, streamLock, streams, mode, ril, rilDevice, connected, rilLeft,
                 modemPath, untold>>
OpenRouted ==
  /\ pc["policy"] = "openCodec" /\ RouteDone("policy")
  /\ deviceLock' = None /\ Goto("policy", "openPcm")
  /\ UNCHANGED <<scenario, want, streamLock, streams, mode, modem>>
OpenPcm ==
  LET d == Dir("policy") IN
  /\ pc["policy"] = "openPcm" /\ Return("policy")
  /\ \/ /\ opened' = [opened EXCEPT ![d] = TRUE]
        /\ device_current' = [device_current EXCEPT ![d] = want["policy"]]
     \/ UNCHANGED <<opened, device_current>>
  /\ UNCHANGED <<scenario, deviceLock, streamLock, standby, pcm, uneven, codec, mode, modem>>

(* audio_hw_close_output_stream() and _input_stream(): the codec is stopped   *)
(* without a lock; the stream is forgotten, its PCM with it.                *)
CloseStream(d) ==
  /\ pc["policy"] = "idle" /\ opened[d] /\ pc[d] = "idle"
  /\ opened' = [opened EXCEPT ![d] = FALSE]
  /\ device_current' = [device_current EXCEPT ![d] = None]
  /\ standby' = [standby EXCEPT ![d] = TRUE] /\ pcm' = [pcm EXCEPT ![d] = FALSE]
  /\ asked' = IF d = "out" THEN None ELSE asked
  /\ IF standby[d]
     THEN UNCHANGED <<codec, uneven>> /\ Goto("policy", "close")
     ELSE /\ Stop("policy", d) /\ Goto("policy", "closeCodec")
          /\ uneven' = [uneven EXCEPT ![d] = FALSE]
  /\ UNCHANGED <<scenario, want, deviceLock, streamLock, mode, ril, rilDevice, connected, rilLeft,
                 modemPath, untold>>
CloseStopped ==
  /\ pc["policy"] = "closeCodec" /\ RouteDone("policy") /\ Goto("policy", "close")
  /\ UNCHANGED <<scenario, want, deviceLock, streamLock, streams, mode, modem>>
CloseEnd ==
  /\ pc["policy"] = "close" /\ deviceLock = None /\ Goto("policy", "idle")
  /\ UNCHANGED <<scenario, want, deviceLock, streamLock, streams, codec, mode, modem>>
-----------------------------------------------------------------------------
(* What a thread does in a call that has begun.                             *)
Routing(t) ==
  \/ RouteNothing(t) \/ RouteStream(t) \/ RouteStreamDone(t) \/ RouteNone(t)
  \/ RouteStandby(t) \/ RouteStandbyStopped(t) \/ UnlockAgain(t) \/ RouteModem(t)
Stream(d) == WriteOpened(d) \/ Transfer(d) \/ StandbyStopped(d) \/ Routing(d)
Device ==
  \/ CallOpen \/ CallRoute \/ CallTwomic \/ CallVolume \/ CallEnd
  \/ HangUpTwomic \/ HangUpClose \/ VoiceVolumeSet
  \/ OpenRouted \/ OpenPcm \/ CloseStopped \/ CloseEnd
  \/ Routing("policy")

Next ==
  \/ \E d \in Dirs : Write(d) \/ Standby(d) \/ SetFormat(d) \/ Stream(d)
  \/ \E t \in Threads, device \in Outputs \cup Inputs \cup {None} : SetParameters(t, device)
  \/ \E d \in Dirs, device \in Outputs \cup Inputs : OpenStream(d, device)
  \/ \E d \in Dirs : CloseStream(d)
  \/ CallBegin \/ HangUp \/ VoiceVolume \/ MicMute
  \/ Device

Spec == Init /\ [][Next]_vars

(* A thread in a call goes on; a mutex that is free again and again is got   *)
(* in the end.  Nobody is obliged to make a call.                           *)
FairSpec ==
  Spec /\ SF_vars(Device)
       /\ \A d \in Dirs : SF_vars(Stream(d))
-----------------------------------------------------------------------------
(* A stream and its side of the codec only ever have devices of their own    *)
(* direction, and the modem's client an output; the rest are plain types.   *)
TypeOK ==
  /\ pc \in [Threads -> STRING] /\ want \in [Threads -> Outputs \cup Inputs \cup {None}]
  /\ deviceLock \in Threads \cup {None} /\ streamLock \in [Dirs -> Threads \cup {None}]
  /\ \A d \in Dirs : device_current[d] \in Devices(d) \cup {None}
                     /\ codecDevice[d] \in Devices(d) \cup {None}
  /\ opened \in [Dirs -> BOOLEAN] /\ standby \in [Dirs -> BOOLEAN] /\ pcm \in [Dirs -> BOOLEAN]
  /\ state \in [{"out", "in", "modem"} -> BOOLEAN]
  /\ mode \in {"normal", "call"} /\ rilDevice \in Outputs \cup {None}
  /\ modemPath \in Outputs \cup {None}

(* A thread between a lock and an unlock of a stream holds it: the second    *)
(* unlock of a route to no device never frees a lock that another has.      *)
Section(t) ==
  pc[t] \in {"start", "transfer", "stop", "routeCodec", "routeStop"}
StreamLockIsOwn ==
  \A t \in Threads : Section(t) => streamLock[Dir(t)] = t

(* Standby, the PCM and the codec say the same of a stream that nobody is    *)
(* working on, whatever writes, standbys, routes and closes came before,     *)
(* unless a PCM failed to open or the format was changed half-way.          *)
StandbyIsSilent ==
  \A d \in Dirs : streamLock[d] = None /\ ~uneven[d] /\ opened[d]
    => /\ pcm[d] = ~standby[d]
       /\ state[d] = ~standby[d]

(* The codec's driver has the route its variables ask for, when the last     *)
(* route_start() was alone in the codec and did not fail.                   *)
PathIsCurrent ==
  ~raced /\ (\A t \in Threads : route[t] = None) => path = Merged(state, codecDevice)

(* In a call, after a routing has returned, the codec and the modem use the  *)
(* device it asked for, if the modem took its path.                         *)
RouteReachesModem ==
  mode = "call" /\ deviceLock = None /\ ril /\ ~rilLeft /\ ~untold /\ asked # None
  => /\ modemPath = asked
     /\ opened["out"] => codecDevice["out"] = asked

(* Every call returns, unless the modem's client once refused a connection.  *)
CallsReturn == \A t \in Threads : (pc[t] # "idle") ~> pc[t] = "idle" \/ rilLeft
=============================================================================
