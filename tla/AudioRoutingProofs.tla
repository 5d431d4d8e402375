------------------------- MODULE AudioRoutingProofs -------------------------
(***************************************************************************)
(* Proofs about AudioRouting, for any devices and scenarios, and about      *)
(* MixerRoutes, for any configuration that undoes what it does.             *)
(*                                                                         *)
(* The codec: a thread in route_start() has its route in "route".  As long  *)
(* as no two threads were there at once it is the one thread, and its route *)
(* is the merge of the variables, which nobody else changes to something    *)
(* that matters; so the driver has the merge when it returns.               *)
(*                                                                         *)
(* The locks: a route holds the device lock from end to end, so whoever     *)
(* unlocks a stream a second time is the only one on a route; and the       *)
(* device's own calls never route to no device.                             *)
(*                                                                         *)
(* The devices: a route sets the stream's device and the codec's together,   *)
(* and tells the modem before it gives up the device lock; a call begins     *)
(* with the device of the stream, which nobody moves meanwhile.             *)
(*                                                                         *)
(* The mixer: what the parser has built after each tag is a function of    *)
(* the file, and what it has built at the end is the configuration whose   *)
(* promise, ConfigsUndo, the invariant uses: a direction that does not run *)
(* has no device, a switch follows the output's device, and so does every  *)
(* other control it asks for, but for those a call's devices may write.    *)
(***************************************************************************)
EXTENDS AudioRouting, MixerRoutes, SequenceTheorems, WellFoundedInduction, TLAPS

AllDevices == Outputs \cup Inputs \cup {None}
CodecPlaces == {"start", "stop", "routeCodec", "routeStop", "callCodec", "hangUpCodec",
                "openCodec", "closeCodec"}
SectionPlaces == {"start", "transfer", "stop", "routeCodec", "routeStop"}
(* Where a thread is inside the device lock.                                 *)
DevicePlaces == {"route", "routeCodec", "routeStandby", "routeStop", "unlockAgain", "ril",
                 "callCodec", "callRoute", "callTwomic", "callVolume", "callEnd",
                 "hangUp", "hangUpCodec", "volume", "openCodec"}

Typed ==
  /\ scenario \in Scenarios
  /\ DOMAIN pc = Threads /\ DOMAIN route = Threads /\ DOMAIN streamLock = Dirs
  /\ want \in [Threads -> AllDevices]
  /\ device_current \in [Dirs -> AllDevices] /\ codecDevice \in [Dirs -> AllDevices]
  /\ state \in [{"out", "in", "modem"} -> BOOLEAN]

(* A route under way is the merge of the codec's variables, unless two       *)
(* threads were in route_start() at once.                                   *)
RoutesAreMerges ==
  ~raced => \A t \in Threads : route[t] # None =>
    /\ route[t] = Merged(state, codecDevice)
    /\ \A u \in Threads \ {t} : route[u] = None
InCodec == \A t \in Threads : pc[t] \in CodecPlaces => route[t] # None
CodecInv == RoutesAreMerges /\ PathIsCurrent

CallsHoldDevice == \A t \in Threads : pc[t] \in DevicePlaces => deviceLock = t
PolicyRoutesDevices ==
  /\ pc["policy"] \notin {"start", "transfer", "stop", "routeStandby", "routeStop",
                         "unlockAgain"}
  /\ pc["policy"] = "route" => want["policy"] # None
LockInv == StreamLockIsOwn /\ CallsHoldDevice /\ PolicyRoutesDevices

-----------------------------------------------------------------------------
(* The codec's operations.                                                   *)

LEMMA MergedIsRoute ==
  ASSUME NEW states \in [{"out", "in", "modem"} -> BOOLEAN],
         NEW devices \in [Dirs -> AllDevices]
  PROVE  Merged(states, devices) # None
  BY DevicesAssumption DEF Merged, AllDevices, Dirs

LEMMA RouteStartKeeps ==
  ASSUME Typed, CodecInv, NEW t \in Threads,
         NEW states \in [{"out", "in", "modem"} -> BOOLEAN],
         NEW devices \in [Dirs -> AllDevices],
         RouteStart(t, states, devices)
  PROVE  /\ CodecInv' /\ DOMAIN route' = Threads
         /\ state' = states /\ codecDevice' = devices
         /\ route'[t] # None /\ \A u \in Threads \ {t} : route'[u] = route[u]
<1>1. route' = [route EXCEPT ![t] = Merged(states, devices)]
  BY DEF RouteStart
<1>2. state' = states /\ codecDevice' = devices
  BY DEF RouteStart
<1>3. Merged(states, devices) # None
  BY MergedIsRoute
<1>4. route'[t] = Merged(states, devices) /\ \A u \in Threads \ {t} : route'[u] = route[u]
  BY <1>1 DEF Typed
<1>5. raced' = \E u \in Threads \ {t} : route[u] # None
  BY DEF RouteStart
<1>6. Merged(states, devices) = Merged(state, codecDevice)'
  BY <1>2 DEF Merged
<1>7. RoutesAreMerges'
  BY <1>4, <1>5, <1>6 DEF RoutesAreMerges
<1>8. PathIsCurrent'
  BY <1>3, <1>4 DEF PathIsCurrent
<1> QED
  BY <1>1, <1>2, <1>3, <1>4, <1>7, <1>8 DEF CodecInv, Typed

LEMMA RouteDoneKeeps ==
  ASSUME Typed, CodecInv, NEW t \in Threads, route[t] # None, RouteDone(t)
  PROVE  /\ CodecInv' /\ DOMAIN route' = Threads /\ UNCHANGED <<state, codecDevice>>
         /\ \A u \in Threads \ {t} : route'[u] = route[u]
<1>1. UNCHANGED <<state, codecDevice>>
  BY DEF RouteDone
<1>2. /\ DOMAIN route' = Threads /\ route'[t] = None
      /\ \A u \in Threads \ {t} : route'[u] = route[u]
  BY DEF RouteDone, Typed
<1>3. Merged(state, codecDevice)' = Merged(state, codecDevice)
  BY <1>1 DEF Merged
<1>4. ~raced' => ~raced /\ path' = route[t]
  BY DEF RouteDone
<1>5. RoutesAreMerges'
  BY <1>2, <1>3, <1>4 DEF CodecInv, RoutesAreMerges
<1>6. PathIsCurrent'
  BY <1>3, <1>4 DEF CodecInv, RoutesAreMerges, PathIsCurrent
<1> QED
  BY <1>1, <1>2, <1>5, <1>6 DEF CodecInv

(* A device that is only noted does not change the merge: either it is the   *)
(* same, or nothing is on.                                                  *)
LEMMA DeviceNotedKeeps ==
  ASSUME Typed, CodecInv, NEW d \in Dirs, NEW device \in AllDevices, ~Restarts(d, device),
         codecDevice' = [codecDevice EXCEPT ![d] = device],
         UNCHANGED <<state, path, route, raced>>
  PROVE  CodecInv'
<1>1. Merged(state, codecDevice)' = Merged(state, codecDevice)
  <2>1. CASE codecDevice[d] = device
    BY <2>1 DEF Merged, Typed
  <2>2. CASE ~Active
    <3>1. ~state["out"] /\ ~state["in"] /\ ~state["modem"]
      BY <2>2 DEF Active, Typed
    <3> QED
      BY <3>1 DEF Merged
  <2> QED
    BY <2>1, <2>2 DEF Restarts
<1> QED
  BY <1>1 DEF CodecInv, RoutesAreMerges, PathIsCurrent

LEMMA CodecUntouched ==
  ASSUME CodecInv, UNCHANGED codec
  PROVE  CodecInv'
  BY DEF CodecInv, RoutesAreMerges, PathIsCurrent, Merged, codec

-----------------------------------------------------------------------------
(* What a step does to the codec, as one of five shapes.                     *)

Moves(t) == DOMAIN pc' = Threads /\ \A u \in Threads \ {t} : pc'[u] = pc[u]
Elsewhere(t) == Moves(t) /\ pc'[t] \notin CodecPlaces /\ UNCHANGED codec
Enters(t) ==
  /\ Moves(t)
  /\ \E states \in [{"out", "in", "modem"} -> BOOLEAN], devices \in [Dirs -> AllDevices] :
       RouteStart(t, states, devices)
Leaves(t) == Moves(t) /\ pc[t] \in CodecPlaces /\ pc'[t] \notin CodecPlaces /\ RouteDone(t)
Notes(t) ==
  /\ Moves(t) /\ pc'[t] \notin CodecPlaces
  /\ \E d \in Dirs, device \in AllDevices :
       /\ ~Restarts(d, device)
       /\ codecDevice' = [codecDevice EXCEPT ![d] = device]
       /\ UNCHANGED <<state, path, route, raced>>
CodecStep(t) == Elsewhere(t) \/ Enters(t) \/ Leaves(t) \/ Notes(t)

TypedCodec ==
  /\ DOMAIN route = Threads
  /\ codecDevice \in [Dirs -> AllDevices] /\ state \in [{"out", "in", "modem"} -> BOOLEAN]

LEMMA CodecStepKeeps ==
  ASSUME Typed, CodecInv, InCodec, NEW t \in Threads, CodecStep(t)
  PROVE  CodecInv' /\ InCodec' /\ TypedCodec'
<1>1. CASE Elsewhere(t)
  BY <1>1, CodecUntouched DEF Elsewhere, Moves, InCodec, codec, Typed, TypedCodec
<1>2. CASE Enters(t)
  <2>1. PICK states \in [{"out", "in", "modem"} -> BOOLEAN], devices \in [Dirs -> AllDevices] :
          RouteStart(t, states, devices)
    BY <1>2 DEF Enters
  <2> QED
    BY <1>2, <2>1, RouteStartKeeps DEF Enters, Moves, InCodec, Typed, TypedCodec
<1>3. CASE Leaves(t)
  BY <1>3, RouteDoneKeeps DEF Leaves, Moves, InCodec, Typed, TypedCodec
<1>4. CASE Notes(t)
  <2>1. PICK d \in Dirs, device \in AllDevices :
          /\ ~Restarts(d, device)
          /\ codecDevice' = [codecDevice EXCEPT ![d] = device]
          /\ UNCHANGED <<state, path, route, raced>>
    BY <1>4 DEF Notes
  <2>2. CodecInv'
    BY <2>1, DeviceNotedKeeps
  <2>3. TypedCodec'
    BY <2>1 DEF Typed, TypedCodec
  <2> QED
    BY <1>4, <2>1, <2>2, <2>3 DEF Notes, Moves, InCodec
<1> QED
  BY <1>1, <1>2, <1>3, <1>4 DEF CodecStep

LEMMA StartEnters ==
  ASSUME Typed, NEW t \in Threads, Moves(t), NEW what \in {"out", "in", "modem"},
         Start(t, what) \/ Stop(t, what)
  PROVE  CodecStep(t)
<1>1. /\ [state EXCEPT ![what] = TRUE] \in [{"out", "in", "modem"} -> BOOLEAN]
      /\ [state EXCEPT ![what] = FALSE] \in [{"out", "in", "modem"} -> BOOLEAN]
      /\ codecDevice \in [Dirs -> AllDevices]
  BY DEF Typed
<1> QED
  BY <1>1 DEF Start, Stop, CodecStep, Enters

(* A device that is set either starts the route again or is noted.           *)
LEMMA SetDeviceIsStep ==
  ASSUME Typed, NEW t \in Threads, Moves(t), NEW d \in Dirs, NEW device \in AllDevices,
         SetDevice(t, d, device), Restarts(d, device) \/ pc'[t] \notin CodecPlaces
  PROVE  CodecStep(t)
<1>1. [codecDevice EXCEPT ![d] = device] \in [Dirs -> AllDevices]
  BY DEF Typed
<1>2. CASE Restarts(d, device)
  <2>1. RouteStart(t, state, [codecDevice EXCEPT ![d] = device])
    BY <1>2 DEF SetDevice
  <2> QED
    BY <1>1, <2>1 DEF Typed, CodecStep, Enters
<1>3. CASE ~Restarts(d, device)
  BY <1>3 DEF SetDevice, CodecStep, Notes
<1> QED
  BY <1>2, <1>3

LEMMA GotoMoves ==
  ASSUME Typed, NEW t \in Threads, NEW place, Goto(t, place)
  PROVE  Moves(t) /\ pc'[t] = place
  BY DEF Typed, Goto, Moves

LEMMA WantedDirection ==
  ASSUME Typed, NEW t \in Threads PROVE Dir(t) \in Dirs
  BY DEF Dir, Dirs

(* The steps of a stream's thread.                                           *)
LEMMA StreamStepsCodec ==
  ASSUME Typed, NEW d \in Dirs,
         Write(d) \/ WriteOpened(d) \/ Transfer(d) \/ Standby(d) \/ StandbyStopped(d)
  PROVE  CodecStep(d)
<1> d \in Threads /\ d \in {"out", "in", "modem"}
  BY DEF Dirs, Threads
<1>1. CASE Write(d)
  <2>1. CASE standby[d]
    BY <1>1, <2>1, GotoMoves, StartEnters DEF Write
  <2>2. CASE ~standby[d]
    BY <1>1, <2>2, GotoMoves DEF Write, CodecStep, Elsewhere, CodecPlaces
  <2> QED
    BY <2>1, <2>2
<1>2. CASE WriteOpened(d)
  BY <1>2, GotoMoves DEF WriteOpened, CodecStep, Leaves, CodecPlaces
<1>3. CASE Transfer(d)
  BY <1>3, GotoMoves DEF Transfer, CodecStep, Elsewhere, CodecPlaces
<1>4. CASE Standby(d)
  <2>1. CASE standby[d]
    BY <1>4, <2>1, GotoMoves DEF Standby, StandbyBegin, CodecStep, Elsewhere, CodecPlaces
  <2>2. CASE ~standby[d]
    BY <1>4, <2>2, GotoMoves, StartEnters DEF Standby, StandbyBegin
  <2> QED
    BY <2>1, <2>2
<1>5. CASE StandbyStopped(d)
  BY <1>5, GotoMoves DEF StandbyStopped, StandbyEnd, CodecStep, Leaves, CodecPlaces
<1> QED
  BY <1>1, <1>2, <1>3, <1>4, <1>5

(* The steps of a route.                                                     *)
LEMMA RoutingStepsCodec ==
  ASSUME Typed, NEW t \in Threads, Routing(t)
  PROVE  CodecStep(t)
<1>1. CASE RouteNothing(t) \/ RouteNone(t) \/ UnlockAgain(t)
  BY <1>1, GotoMoves
     DEF RouteNothing, RouteNone, UnlockAgain, CodecStep, Elsewhere, CodecPlaces
<1>2. CASE RouteModem(t)
  BY <1>2, GotoMoves DEF RouteModem, Return, CodecStep, Elsewhere, CodecPlaces
<1>3. CASE RouteStream(t)
  <2>1. want[t] \in AllDevices /\ Dir(t) \in Dirs
    BY WantedDirection DEF Typed
  <2>2. Moves(t) /\ SetDevice(t, Dir(t), want[t])
    BY <1>3, GotoMoves DEF RouteStream
  <2>3. Restarts(Dir(t), want[t]) \/ pc'[t] \notin CodecPlaces
    BY <1>3, GotoMoves DEF RouteStream, CodecPlaces
  <2> QED
    BY <2>1, <2>2, <2>3, SetDeviceIsStep
<1>4. CASE RouteStreamDone(t)
  BY <1>4, GotoMoves DEF RouteStreamDone, CodecStep, Leaves, CodecPlaces
<1>5. CASE RouteStandby(t)
  <2>1. CASE standby[Dir(t)]
    BY <1>5, <2>1, GotoMoves DEF RouteStandby, StandbyBegin, CodecStep, Elsewhere, CodecPlaces
  <2>2. CASE ~standby[Dir(t)]
    <3>1. Dir(t) \in {"out", "in", "modem"}
      BY WantedDirection DEF Dirs
    <3> QED
      BY <1>5, <2>2, <3>1, GotoMoves, StartEnters DEF RouteStandby, StandbyBegin
  <2> QED
    BY <2>1, <2>2
<1>6. CASE RouteStandbyStopped(t)
  BY <1>6, GotoMoves DEF RouteStandbyStopped, StandbyEnd, CodecStep, Leaves, CodecPlaces
<1> QED
  BY <1>1, <1>2, <1>3, <1>4, <1>5, <1>6 DEF Routing

(* The calls on the device.                                                  *)
PhoneCall ==
  \/ CallBegin \/ CallOpen \/ CallRoute \/ CallTwomic \/ CallVolume \/ CallEnd
  \/ HangUp \/ HangUpTwomic \/ HangUpClose \/ VoiceVolume \/ VoiceVolumeSet
LEMMA PhoneCallCodec ==
  ASSUME Typed, PhoneCall
  PROVE  CodecStep("policy")
<1> "policy" \in Threads
  BY DEF Threads
<1>1. CASE CallBegin \/ HangUpTwomic
  BY <1>1, GotoMoves, StartEnters DEF CallBegin, HangUpTwomic
<1>2. CASE CallOpen
  <2>1. Goto("policy", "callEnd") \/ Goto("policy", "callRoute")
    BY <1>2 DEF CallOpen
  <2> QED
    BY <1>2, <2>1, GotoMoves DEF CallOpen, CodecStep, Leaves, CodecPlaces
<1>5. CASE HangUpClose
  BY <1>5, GotoMoves DEF HangUpClose, Return, CodecStep, Leaves, CodecPlaces
<1>3. CASE CallRoute \/ CallTwomic \/ CallVolume \/ CallEnd
  BY <1>3, GotoMoves
     DEF CallRoute, CallTwomic, CallVolume, CallEnd, Return, CodecStep, Elsewhere, CodecPlaces
<1>4. CASE HangUp \/ VoiceVolume \/ VoiceVolumeSet
  BY <1>4, GotoMoves
     DEF HangUp, VoiceVolume, VoiceVolumeSet, Return, CodecStep, Elsewhere, CodecPlaces
<1> QED
  BY <1>1, <1>2, <1>3, <1>4, <1>5 DEF PhoneCall

StreamComesOrGoes ==
  \/ \E d \in Dirs, device \in Outputs \cup Inputs : OpenStream(d, device)
  \/ \E d \in Dirs : CloseStream(d)
  \/ OpenRouted \/ OpenPcm \/ CloseStopped \/ CloseEnd
LEMMA StreamComesOrGoesCodec ==
  ASSUME Typed, StreamComesOrGoes
  PROVE  CodecStep("policy")
<1> "policy" \in Threads
  BY DEF Threads
<1>1. ASSUME NEW d \in Dirs, NEW device \in Outputs \cup Inputs, OpenStream(d, device)
      PROVE  CodecStep("policy")
  <2>1. Moves("policy") /\ SetDevice("policy", d, device)
    BY <1>1, GotoMoves DEF OpenStream
  <2>2. Restarts(d, device) \/ pc'["policy"] \notin CodecPlaces
    BY <1>1, GotoMoves DEF OpenStream, CodecPlaces
  <2>3. device \in AllDevices
    BY DEF AllDevices
  <2> QED
    BY <2>1, <2>2, <2>3, SetDeviceIsStep
<1>2. ASSUME NEW d \in Dirs, CloseStream(d) PROVE CodecStep("policy")
  <2>1. CASE standby[d]
    BY <1>2, <2>1, GotoMoves DEF CloseStream, CodecStep, Elsewhere, CodecPlaces
  <2>2. CASE ~standby[d]
    BY <1>2, <2>2, GotoMoves, StartEnters DEF CloseStream, Dirs
  <2> QED
    BY <2>1, <2>2
<1>3. CASE OpenRouted \/ CloseStopped
  BY <1>3, GotoMoves DEF OpenRouted, CloseStopped, CodecStep, Leaves, CodecPlaces
<1>4. CASE OpenPcm \/ CloseEnd
  BY <1>4, GotoMoves DEF OpenPcm, CloseEnd, Return, CodecStep, Elsewhere, CodecPlaces
<1> QED
  BY <1>1, <1>2, <1>3, <1>4 DEF StreamComesOrGoes

-----------------------------------------------------------------------------
(* What a step does to the locks, as one of a few shapes.                    *)

TypedRest ==
  /\ scenario \in Scenarios /\ DOMAIN pc = Threads /\ DOMAIN streamLock = Dirs
  /\ want \in [Threads -> AllDevices] /\ device_current \in [Dirs -> AllDevices]

HoldStep(t) ==
  /\ \/ UNCHANGED deviceLock
     \/ deviceLock = None /\ deviceLock' = t
     \/ pc[t] \in DevicePlaces /\ deviceLock' = None
  /\ pc'[t] \in DevicePlaces =>
       deviceLock' = t \/ (pc[t] \in DevicePlaces /\ UNCHANGED deviceLock)
StreamLockStep(t) ==
  \/ pc'[t] \notin SectionPlaces /\ UNCHANGED streamLock
  \/ want' = want /\ Lock(t, Dir(t))
  \/ want' = want /\ Section(t) /\ UNCHANGED streamLock
  \/ want' = want /\ Section(t) /\ pc'[t] \notin SectionPlaces /\ Unlock(Dir(t))
  \/ want' = want /\ pc[t] = "unlockAgain" /\ pc'[t] \notin SectionPlaces /\ Unlock(Dir(t))
LockStep(t) ==
  /\ Moves(t) /\ \A u \in Threads \ {t} : want'[u] = want[u]
  /\ HoldStep(t) /\ StreamLockStep(t)

LEMMA HoldStepKeeps ==
  ASSUME CallsHoldDevice, NEW t \in Threads, Moves(t), HoldStep(t)
  PROVE  CallsHoldDevice'
<1> None \notin Threads
  BY DevicesAssumption DEF Threads
<1> QED
  BY DEF CallsHoldDevice, Moves, HoldStep

(* Whoever unlocks a stream a second time is on a route of its own stream:   *)
(* another holder would be the device's own call on a route as well.        *)
LEMMA SecondUnlockIsAlone ==
  ASSUME Typed, LockInv, NEW t \in Threads, pc[t] = "unlockAgain",
         NEW u \in Threads \ {t}, Section(u)
  PROVE  Dir(u) # Dir(t)
<1>1. t \in Dirs
  BY DEF LockInv, PolicyRoutesDevices, Threads, Dirs
<1>2. CASE u = "policy"
  <2>1. pc[u] = "routeCodec"
    BY <1>2 DEF LockInv, PolicyRoutesDevices, Section
  <2>2. deviceLock = t /\ deviceLock = u
    BY <2>1 DEF LockInv, CallsHoldDevice, DevicePlaces
  <2> QED
    BY <2>2
<1>3. CASE u \in Dirs
  BY <1>1, <1>3 DEF Dir
<1> QED
  BY <1>2, <1>3 DEF Threads, Dirs

LEMMA StreamLockStepKeeps ==
  ASSUME Typed, LockInv, NEW t \in Threads, LockStep(t)
  PROVE  StreamLockIsOwn'
<1> SUFFICES ASSUME NEW u \in Threads, Section(u)' PROVE streamLock'[Dir(u)'] = u
  BY DEF StreamLockIsOwn
<1>1. Dir(t) \in Dirs /\ Dir(u) \in Dirs
  BY WantedDirection
<1>2. u # t => Dir(u)' = Dir(u) /\ Section(u) /\ streamLock[Dir(u)] = u
  BY DEF LockStep, Moves, Dir, Section, LockInv, StreamLockIsOwn
<1>3. want' = want => Dir(u)' = Dir(u)
  BY DEF Dir
<1>4. None \notin Threads
  BY DevicesAssumption DEF Threads
<1>5. pc'[u] \in SectionPlaces
  BY DEF Section, SectionPlaces
<1>6. CASE pc'[t] \notin SectionPlaces /\ UNCHANGED streamLock
  BY <1>2, <1>5, <1>6
<1>7. CASE want' = want /\ Lock(t, Dir(t))
  <2>1. CASE u = t
    BY <1>1, <1>3, <1>7, <2>1 DEF Lock, Typed
  <2>2. CASE u # t
    BY <1>1, <1>2, <1>4, <1>7, <2>2 DEF Lock, Typed
  <2> QED
    BY <2>1, <2>2
<1>8. CASE want' = want /\ Section(t) /\ UNCHANGED streamLock
  BY <1>2, <1>3, <1>8 DEF LockInv, StreamLockIsOwn
<1>9. CASE want' = want /\ Section(t) /\ pc'[t] \notin SectionPlaces /\ Unlock(Dir(t))
  <2>1. u # t /\ streamLock[Dir(t)] = t
    BY <1>5, <1>9 DEF LockInv, StreamLockIsOwn
  <2>2. Dir(u) # Dir(t)
    BY <1>2, <2>1
  <2> QED
    BY <1>1, <1>2, <1>9, <2>1, <2>2 DEF Unlock, Typed
<1>10. CASE /\ want' = want /\ pc[t] = "unlockAgain"
            /\ pc'[t] \notin SectionPlaces /\ Unlock(Dir(t))
  <2>1. u # t
    BY <1>5, <1>10
  <2>2. Dir(u) # Dir(t)
    BY <1>2, <1>10, <2>1, SecondUnlockIsAlone
  <2> QED
    BY <1>1, <1>2, <1>10, <2>1, <2>2 DEF Unlock, Typed
<1> QED
  BY <1>6, <1>7, <1>8, <1>9, <1>10 DEF LockStep, StreamLockStep

LEMMA DirOfStream == ASSUME NEW d \in Dirs PROVE d \in Threads /\ Dir(d) = d /\ d # "policy"
  BY DEF Dir, Dirs, Threads

StreamStep(d) ==
  Write(d) \/ WriteOpened(d) \/ Transfer(d) \/ Standby(d) \/ StandbyStopped(d)
LEMMA StreamStepsLock ==
  ASSUME Typed, NEW d \in Dirs, StreamStep(d)
  PROVE  LockStep(d) /\ TypedRest'
<1>1. Dir(d) = d /\ d \in Threads
  BY DirOfStream
<1>2. UNCHANGED <<scenario, want, deviceLock, device_current>>
  BY DEF StreamStep, Write, WriteOpened, Transfer, Standby, StandbyStopped, streams
<1>3. Moves(d) /\ pc'[d] \in {"idle", "start", "transfer", "stop"}
  <2>1. Goto(d, "idle") \/ Goto(d, "start") \/ Goto(d, "transfer") \/ Goto(d, "stop")
    BY DEF StreamStep, Write, WriteOpened, Transfer, Standby, StandbyStopped, StandbyBegin,
           StandbyEnd
  <2> QED
    BY <1>1, <2>1, GotoMoves
<1>4. HoldStep(d)
  BY <1>2, <1>3 DEF HoldStep, DevicePlaces
<1>5. StreamLockStep(d)
  <2>1. CASE Write(d)
    BY <1>1, <1>2, <2>1 DEF Write, StreamLockStep
  <2>2. CASE WriteOpened(d)
    <3>1. Section(d)
      BY <2>2 DEF WriteOpened, Section
    <3>2. UNCHANGED streamLock \/ (Goto(d, "idle") /\ Unlock(d))
      BY <2>2 DEF WriteOpened
    <3> QED
      BY <1>1, <1>2, <3>1, <3>2, GotoMoves DEF StreamLockStep, SectionPlaces
  <2>3. CASE Transfer(d)
    BY <1>1, <1>2, <2>3, GotoMoves DEF Transfer, StreamLockStep, Section, SectionPlaces
  <2>4. CASE Standby(d)
    BY <1>1, <1>2, <2>4, GotoMoves DEF Standby, StandbyBegin, StreamLockStep, SectionPlaces
  <2>5. CASE StandbyStopped(d)
    BY <1>1, <1>2, <2>5, GotoMoves
       DEF StandbyStopped, StandbyEnd, StreamLockStep, Section, SectionPlaces
  <2> QED
    BY <2>1, <2>2, <2>3, <2>4, <2>5 DEF StreamStep
<1>6. DOMAIN streamLock' = Dirs
  BY <1>5 DEF StreamLockStep, Lock, Unlock, Typed
<1> QED
  BY <1>2, <1>3, <1>4, <1>5, <1>6 DEF LockStep, Moves, Typed, TypedRest

LEMMA RoutingStepsLock ==
  ASSUME Typed, NEW t \in Threads, Routing(t)
  PROVE  LockStep(t) /\ TypedRest'
<1>1. CASE RouteModem(t)
  <2>1. Moves(t) /\ pc'[t] = "idle"
    BY <1>1, GotoMoves DEF RouteModem, Return
  <2>2. want' = [want EXCEPT ![t] = None] /\ deviceLock' = None
        /\ UNCHANGED <<scenario, streamLock, device_current>>
    BY <1>1 DEF RouteModem, Return, streams
  <2>3. HoldStep(t)
    BY <1>1, <2>1, <2>2 DEF RouteModem, HoldStep, DevicePlaces
  <2>4. StreamLockStep(t)
    BY <2>1, <2>2 DEF StreamLockStep, SectionPlaces
  <2> QED
    BY <2>1, <2>2, <2>3, <2>4 DEF LockStep, Moves, Typed, TypedRest, AllDevices
<1>2. CASE ~RouteModem(t)
  <2>1. UNCHANGED <<scenario, want, deviceLock>>
    BY <1>2 DEF Routing, RouteNothing, RouteStream, RouteStreamDone, RouteNone, RouteStandby,
                RouteStandbyStopped, UnlockAgain
  <2>2. pc[t] \in DevicePlaces
    BY <1>2 DEF Routing, RouteNothing, RouteStream, RouteStreamDone, RouteNone, RouteStandby,
                RouteStandbyStopped, UnlockAgain, DevicePlaces
  <2>3. device_current' \in [Dirs -> AllDevices]
    <3>1. want[t] \in AllDevices /\ None \in AllDevices
      BY DEF Typed, AllDevices
    <3>2. device_current' \in
            {device_current, [device_current EXCEPT ![Dir(t)] = want[t]],
             [device_current EXCEPT ![Dir(t)] = None]}
      BY <1>2 DEF Routing, RouteNothing, RouteStream, RouteStreamDone, RouteNone, RouteStandby,
                  RouteStandbyStopped, UnlockAgain, streams
    <3> QED
      BY <3>1, <3>2 DEF Typed
  <2>4. PICK place \in {"ril", "routeCodec", "routeStandby", "routeStop", "unlockAgain"} :
          Goto(t, place)
    BY <1>2 DEF Routing, RouteNothing, RouteStream, RouteStreamDone, RouteNone, RouteStandby,
                RouteStandbyStopped, UnlockAgain, StandbyBegin, StandbyEnd
  <2>5. Moves(t) /\ pc'[t] = place
    BY <2>4, GotoMoves
  <2>6. HoldStep(t)
    BY <2>1, <2>2, <2>5 DEF HoldStep
  <2>7. StreamLockStep(t)
    <3>1. CASE RouteNothing(t) \/ RouteNone(t)
      BY <3>1, GotoMoves DEF RouteNothing, RouteNone, StreamLockStep, SectionPlaces
    <3>2. CASE RouteStream(t)
      BY <2>1, <3>2, GotoMoves DEF RouteStream, StreamLockStep, SectionPlaces
    <3>3. CASE RouteStreamDone(t)
      BY <2>1, <3>3, GotoMoves DEF RouteStreamDone, StreamLockStep, Section, SectionPlaces
    <3>4. CASE RouteStandby(t)
      BY <2>1, <3>4, GotoMoves DEF RouteStandby, StandbyBegin, StreamLockStep, SectionPlaces
    <3>5. CASE RouteStandbyStopped(t)
      BY <2>1, <3>5, GotoMoves
         DEF RouteStandbyStopped, StandbyEnd, StreamLockStep, Section, SectionPlaces
    <3>6. CASE UnlockAgain(t)
      BY <2>1, <3>6, GotoMoves DEF UnlockAgain, StreamLockStep, SectionPlaces
    <3> QED
      BY <1>2, <3>1, <3>2, <3>3, <3>4, <3>5, <3>6 DEF Routing
  <2>8. DOMAIN streamLock' = Dirs
    BY <2>7 DEF StreamLockStep, Lock, Unlock, Typed
  <2> QED
    BY <2>1, <2>3, <2>5, <2>6, <2>7, <2>8 DEF LockStep, Moves, Typed, TypedRest
<1> QED
  BY <1>1, <1>2

(* A call on the device touches no stream's lock outside a route.            *)
OnDevice(t) ==
  /\ Moves(t) /\ pc'[t] \notin SectionPlaces /\ HoldStep(t)
  /\ UNCHANGED <<scenario, streamLock>>
  /\ device_current' \in [Dirs -> AllDevices]
  /\ \E device \in AllDevices : want' = [want EXCEPT ![t] = device]

LEMMA OnDeviceLock ==
  ASSUME Typed, NEW t \in Threads, OnDevice(t) PROVE LockStep(t) /\ TypedRest'
<1>1. PICK device \in AllDevices : want' = [want EXCEPT ![t] = device]
  BY DEF OnDevice
<1>2. want' \in [Threads -> AllDevices] /\ \A u \in Threads \ {t} : want'[u] = want[u]
  BY <1>1 DEF Typed
<1> QED
  BY <1>2 DEF OnDevice, LockStep, StreamLockStep, Moves, Typed, TypedRest

LEMMA NothingAsked ==
  ASSUME Typed, NEW t \in Threads
  PROVE  UNCHANGED want => \E device \in AllDevices : want' = [want EXCEPT ![t] = device]
<1>1. want[t] \in AllDevices /\ want = [want EXCEPT ![t] = want[t]]
  BY DEF Typed
<1> QED
  BY <1>1

LEMMA SetParametersOnDevice ==
  ASSUME Typed, NEW t \in Threads, NEW device \in AllDevices, SetParameters(t, device)
  PROVE  OnDevice(t)
<1>1. Moves(t) /\ pc'[t] = "route"
  BY GotoMoves DEF SetParameters
<1>2. HoldStep(t)
  <2>1. deviceLock = None /\ deviceLock' = t
    BY DEF SetParameters
  <2> QED
    BY <2>1 DEF HoldStep
<1>3. want' = [want EXCEPT ![t] = device] /\ UNCHANGED <<scenario, streamLock, device_current>>
  BY DEF SetParameters, streams
<1> QED
  BY <1>1, <1>2, <1>3 DEF OnDevice, SectionPlaces, Typed

LEMMA PhoneCallOnDevice ==
  ASSUME Typed, PhoneCall PROVE OnDevice("policy")
<1> "policy" \in Threads
  BY DEF Threads
<1>1. UNCHANGED <<scenario, streamLock, device_current>>
  BY DEF PhoneCall, CallBegin, CallOpen, CallRoute, CallTwomic, CallVolume, CallEnd, HangUp,
         HangUpTwomic, HangUpClose, VoiceVolume, VoiceVolumeSet, streams
<1>2. PICK place \in {"idle", "callCodec", "callRoute", "callTwomic", "callVolume", "callEnd",
                      "hangUp", "hangUpCodec", "volume"} : Goto("policy", place)
  BY DEF PhoneCall, CallBegin, CallOpen, CallRoute, CallTwomic, CallVolume, CallEnd, HangUp,
         HangUpTwomic, HangUpClose, VoiceVolume, VoiceVolumeSet, Return
<1>3. Moves("policy") /\ pc'["policy"] = place
  BY <1>2, GotoMoves
<1>4. \E device \in AllDevices : want' = [want EXCEPT !["policy"] = device]
  <2>1. CASE CallBegin
    <3>1. device_current["out"] \in AllDevices /\ Earpiece \in AllDevices
      BY DevicesAssumption DEF Typed, Dirs, AllDevices
    <3> QED
      BY <2>1, <3>1 DEF CallBegin
  <2>2. CASE CallEnd \/ HangUpClose \/ VoiceVolumeSet
    BY <2>2 DEF CallEnd, HangUpClose, VoiceVolumeSet, Return, AllDevices
  <2>3. CASE UNCHANGED want
    BY <2>3, NothingAsked
  <2> QED
    BY <2>1, <2>2, <2>3 DEF PhoneCall, CallOpen, CallRoute, CallTwomic, CallVolume, HangUp,
                            HangUpTwomic, VoiceVolume
<1>5. HoldStep("policy")
  <2>1. CASE CallBegin \/ HangUp \/ VoiceVolume
    <3>1. deviceLock = None /\ deviceLock' = "policy"
      BY <2>1 DEF CallBegin, HangUp, VoiceVolume
    <3> QED
      BY <3>1 DEF HoldStep
  <2>2. CASE CallOpen \/ CallRoute \/ CallTwomic \/ CallVolume \/ HangUpTwomic
    BY <2>2 DEF CallOpen, CallRoute, CallTwomic, CallVolume, HangUpTwomic, HoldStep,
                DevicePlaces
  <2>3. CASE CallEnd \/ HangUpClose \/ VoiceVolumeSet
    <3>1. pc["policy"] \in DevicePlaces /\ deviceLock' = None /\ Goto("policy", "idle")
      BY <2>3 DEF CallEnd, HangUpClose, VoiceVolumeSet, Return, DevicePlaces
    <3>2. pc'["policy"] \notin DevicePlaces
      BY <3>1, GotoMoves DEF DevicePlaces
    <3> QED
      BY <3>1, <3>2 DEF HoldStep
  <2> QED
    BY <2>1, <2>2, <2>3 DEF PhoneCall
<1> QED
  BY <1>1, <1>3, <1>4, <1>5 DEF OnDevice, SectionPlaces, Typed

LEMMA StreamComesOrGoesOnDevice ==
  ASSUME Typed, StreamComesOrGoes PROVE OnDevice("policy")
<1> "policy" \in Threads
  BY DEF Threads
<1>1. ASSUME NEW d \in Dirs, NEW device \in Outputs \cup Inputs, OpenStream(d, device)
      PROVE  OnDevice("policy")
  <2>1. /\ UNCHANGED <<scenario, streamLock, device_current>>
        /\ want' = [want EXCEPT !["policy"] = device]
    BY <1>1 DEF OpenStream, streams
  <2>2. \/ Goto("policy", "openCodec") /\ deviceLock = None /\ deviceLock' = "policy"
        \/ Goto("policy", "openPcm") /\ UNCHANGED deviceLock
    BY <1>1 DEF OpenStream
  <2>3. Moves("policy") /\ pc'["policy"] \notin SectionPlaces
    BY <2>2, GotoMoves DEF SectionPlaces
  <2>4. HoldStep("policy")
    <3>1. CASE deviceLock = None /\ deviceLock' = "policy"
      BY <3>1 DEF HoldStep
    <3>2. CASE Goto("policy", "openPcm") /\ UNCHANGED deviceLock
      BY <3>2, GotoMoves DEF HoldStep, DevicePlaces
    <3> QED
      BY <2>2, <3>1, <3>2
  <2> QED
    BY <2>1, <2>3, <2>4 DEF OnDevice, AllDevices, Typed
<1>2. CASE OpenPcm
  <2>1. /\ UNCHANGED <<scenario, streamLock, deviceLock>> /\ Goto("policy", "idle")
        /\ want' = [want EXCEPT !["policy"] = None]
    BY <1>2 DEF OpenPcm, Return
  <2>2. Moves("policy") /\ HoldStep("policy") /\ pc'["policy"] \notin SectionPlaces
    BY <2>1, GotoMoves DEF HoldStep, DevicePlaces, SectionPlaces
  <2>3. device_current' \in [Dirs -> AllDevices]
    BY <1>2 DEF OpenPcm, Typed
  <2> QED
    BY <2>1, <2>2, <2>3 DEF OnDevice, AllDevices
<1>3. ASSUME NEW d \in Dirs, CloseStream(d) PROVE OnDevice("policy")
  <2>1. UNCHANGED <<scenario, streamLock, deviceLock, want>>
    BY <1>3 DEF CloseStream
  <2>2. Goto("policy", "close") \/ Goto("policy", "closeCodec")
    BY <1>3 DEF CloseStream
  <2>3. Moves("policy") /\ HoldStep("policy") /\ pc'["policy"] \notin SectionPlaces
    BY <2>1, <2>2, GotoMoves DEF HoldStep, DevicePlaces, SectionPlaces
  <2>4. device_current' \in [Dirs -> AllDevices]
    BY <1>3 DEF CloseStream, Typed, AllDevices
  <2> QED
    BY <2>1, <2>3, <2>4, NothingAsked DEF OnDevice
<1>4. CASE OpenRouted \/ CloseStopped \/ CloseEnd
  <2>1. UNCHANGED <<scenario, streamLock, want, device_current>>
    BY <1>4 DEF OpenRouted, CloseStopped, CloseEnd, streams
  <2>2. PICK place \in {"openPcm", "close", "idle"} : Goto("policy", place)
    BY <1>4 DEF OpenRouted, CloseStopped, CloseEnd
  <2>3. Moves("policy") /\ pc'["policy"] \notin SectionPlaces \cup DevicePlaces
    BY <2>2, GotoMoves DEF SectionPlaces, DevicePlaces
  <2>4. HoldStep("policy")
    BY <1>4, <2>3 DEF OpenRouted, CloseStopped, CloseEnd, HoldStep, DevicePlaces
  <2> QED
    BY <2>1, <2>3, <2>4, NothingAsked DEF OnDevice, Typed
<1> QED
  BY <1>1, <1>2, <1>3, <1>4 DEF StreamComesOrGoes

-----------------------------------------------------------------------------
(* The device's own calls never route to no device.                          *)

LEMMA PolicyRoutingKeeps ==
  ASSUME Typed, PolicyRoutesDevices, Routing("policy") PROVE PolicyRoutesDevices'
<1> "policy" \in Threads
  BY DEF Threads
<1>1. PICK place \in {"ril", "routeCodec", "idle"} : Goto("policy", place)
  BY DEF PolicyRoutesDevices, Routing, RouteNothing, RouteStream, RouteStreamDone, RouteNone,
         RouteStandby, RouteStandbyStopped, UnlockAgain, RouteModem, Return
<1> QED
  BY <1>1, GotoMoves DEF PolicyRoutesDevices

LEMMA SetParametersKeeps ==
  ASSUME Typed, PolicyRoutesDevices, NEW t \in Threads, NEW device \in AllDevices,
         SetParameters(t, device)
  PROVE  PolicyRoutesDevices'
<1>1. Moves(t) /\ pc'[t] = "route" /\ want' = [want EXCEPT ![t] = device]
  BY GotoMoves DEF SetParameters
<1>2. CASE t = "policy"
  <2>1. device # None
    BY <1>2, DevicesAssumption DEF SetParameters, Typed, Dirs
  <2> QED
    BY <1>1, <1>2, <2>1 DEF PolicyRoutesDevices, Typed
<1>3. CASE t # "policy"
  BY <1>1, <1>3 DEF PolicyRoutesDevices, Moves, Typed, Threads
<1> QED
  BY <1>2, <1>3

LEMMA DeviceCallKeeps ==
  ASSUME Typed, PhoneCall \/ StreamComesOrGoes PROVE PolicyRoutesDevices'
<1> "policy" \in Threads
  BY DEF Threads
<1>1. PICK place \in {"idle", "callCodec", "callRoute", "callTwomic", "callVolume", "callEnd",
                      "hangUp", "hangUpCodec", "volume", "openCodec", "openPcm", "closeCodec",
                      "close"} : Goto("policy", place)
  <2>1. CASE PhoneCall
    BY <2>1 DEF PhoneCall, CallBegin, CallOpen, CallRoute, CallTwomic, CallVolume, CallEnd,
                HangUp, HangUpTwomic, HangUpClose, VoiceVolume, VoiceVolumeSet, Return
  <2>2. CASE StreamComesOrGoes
    BY <2>2 DEF StreamComesOrGoes, OpenStream, CloseStream, OpenRouted, OpenPcm, CloseStopped,
                CloseEnd, Return
  <2> QED
    BY <2>1, <2>2
<1> QED
  BY <1>1, GotoMoves DEF PolicyRoutesDevices

LEMMA StreamThreadKeeps ==
  ASSUME PolicyRoutesDevices, NEW d \in Dirs, Moves(d),
         \A u \in Threads \ {d} : want'[u] = want[u]
  PROVE  PolicyRoutesDevices'
<1>1. "policy" \in Threads \ {d}
  BY DEF Threads, Dirs
<1> QED
  BY <1>1 DEF PolicyRoutesDevices, Moves

-----------------------------------------------------------------------------
(* The whole.                                                                *)

AudioInv == Typed /\ CodecInv /\ InCodec /\ LockInv

LEMMA AudioInvStarts == ASSUME Init PROVE AudioInv
<1>1. Typed
  BY DEF Init, Typed, AllDevices
<1>2. CodecInv /\ InCodec
  <2>1. \A t \in Threads : route[t] = None /\ pc[t] = "idle"
    BY DEF Init
  <2>2. path = Merged(state, codecDevice)
    BY DEF Init, Merged, NoRoute
  <2> QED
    BY <2>1, <2>2 DEF CodecInv, RoutesAreMerges, PathIsCurrent, InCodec, CodecPlaces
<1>3. LockInv
  <2>1. \A t \in Threads : pc[t] = "idle"
    BY DEF Init
  <2> QED
    BY <2>1 DEF LockInv, StreamLockIsOwn, Section, CallsHoldDevice, DevicePlaces,
                PolicyRoutesDevices, Threads
<1> QED
  BY <1>1, <1>2, <1>3 DEF AudioInv

LEMMA StepKeeps ==
  ASSUME AudioInv, NEW t \in Threads, CodecStep(t), LockStep(t), TypedRest',
         PolicyRoutesDevices'
  PROVE  AudioInv'
<1>1. CodecInv' /\ InCodec' /\ TypedCodec'
  BY CodecStepKeeps DEF AudioInv
<1>2. StreamLockIsOwn'
  BY StreamLockStepKeeps DEF AudioInv
<1>3. CallsHoldDevice'
  BY HoldStepKeeps DEF AudioInv, LockInv, LockStep
<1> QED
  BY <1>1, <1>2, <1>3 DEF AudioInv, LockInv, Typed, TypedRest, TypedCodec

LEMMA AudioInvKept == ASSUME AudioInv, [Next]_vars PROVE AudioInv'
<1> Typed /\ PolicyRoutesDevices /\ "policy" \in Threads
  BY DEF AudioInv, LockInv, Threads
<1>1. ASSUME NEW d \in Dirs, StreamStep(d) PROVE AudioInv'
  <2>1. CodecStep(d) /\ LockStep(d) /\ TypedRest' /\ d \in Threads
    BY <1>1, StreamStepsCodec, StreamStepsLock, DirOfStream DEF StreamStep
  <2>2. PolicyRoutesDevices'
    BY <2>1, StreamThreadKeeps DEF LockStep
  <2> QED
    BY <2>1, <2>2, StepKeeps
<1>2. ASSUME NEW t \in Threads, Routing(t) PROVE AudioInv'
  <2>1. CodecStep(t) /\ LockStep(t) /\ TypedRest'
    BY <1>2, RoutingStepsCodec, RoutingStepsLock
  <2>2. CASE t = "policy"
    BY <1>2, <2>1, <2>2, PolicyRoutingKeeps, StepKeeps
  <2>3. CASE t \in Dirs
    BY <2>1, <2>3, StreamThreadKeeps, StepKeeps DEF LockStep
  <2> QED
    BY <2>2, <2>3 DEF Threads, Dirs
<1>3. ASSUME NEW t \in Threads, NEW device \in AllDevices, SetParameters(t, device)
      PROVE  AudioInv'
  <2>1. LockStep(t) /\ TypedRest' /\ PolicyRoutesDevices'
    BY <1>3, SetParametersOnDevice, OnDeviceLock, SetParametersKeeps
  <2>2. CodecStep(t)
    BY <1>3, GotoMoves DEF SetParameters, CodecStep, Elsewhere, CodecPlaces
  <2> QED
    BY <2>1, <2>2, StepKeeps
<1>4. CASE PhoneCall
  BY <1>4, PhoneCallCodec, PhoneCallOnDevice, OnDeviceLock, DeviceCallKeeps, StepKeeps
<1>5. CASE StreamComesOrGoes
  BY <1>5, StreamComesOrGoesCodec, StreamComesOrGoesOnDevice, OnDeviceLock, DeviceCallKeeps,
     StepKeeps
<1>6. ASSUME UNCHANGED <<scenario, calls, streamLock, device_current, codec>> PROVE AudioInv'
  <2>1. CodecInv'
    BY <1>6, CodecUntouched DEF AudioInv
  <2>2. Typed' /\ InCodec'
    BY <1>6 DEF AudioInv, Typed, InCodec, calls, codec
  <2>3. LockInv'
    BY <1>6 DEF AudioInv, LockInv, StreamLockIsOwn, Section, Dir, CallsHoldDevice,
                PolicyRoutesDevices, calls
  <2> QED
    BY <2>1, <2>2, <2>3 DEF AudioInv
<1>7. ASSUME NEW d \in Dirs, SetFormat(d) PROVE AudioInv'
  BY <1>6, <1>7 DEF SetFormat
<1>8. CASE MicMute
  BY <1>6, <1>8 DEF MicMute, streams
<1>9. CASE UNCHANGED vars
  BY <1>6, <1>9 DEF vars, streams
<1>10. CASE \E d \in Dirs : Stream(d)
  BY <1>1, <1>2, <1>10, DirOfStream DEF Stream, StreamStep
<1>11. CASE Device
  BY <1>2, <1>4, <1>5, <1>11 DEF Device, PhoneCall, StreamComesOrGoes
<1> QED
  BY <1>1, <1>3, <1>4, <1>5, <1>7, <1>8, <1>9, <1>10, <1>11
     DEF Next, StreamStep, PhoneCall, StreamComesOrGoes, AllDevices

LEMMA AudioInvHolds == Spec => []AudioInv
  BY AudioInvStarts, AudioInvKept, PTL DEF Spec

(* A thread between a lock and an unlock of a stream holds it, although a     *)
(* route to no device unlocks twice (audio_out_set_route, audio_in_set_route). *)
THEOREM StreamLocksAreOwn == Spec => []StreamLockIsOwn
<1>1. AudioInv => StreamLockIsOwn
  BY DEF AudioInv, LockInv
<1> QED
  BY <1>1, AudioInvHolds, PTL

(* The codec's driver has the route its variables ask for, whatever the       *)
(* devices and calls, if nobody overlapped in yamaha_mc1n2_audio_route_start. *)
THEOREM PathStaysCurrent == Spec => []PathIsCurrent
<1>1. AudioInv => PathIsCurrent
  BY DEF AudioInv, CodecInv
<1> QED
  BY <1>1, AudioInvHolds, PTL

-----------------------------------------------------------------------------
(* Standby.  Only the thread of a stream puts it in standby or takes it out; *)
(* the device's calls never route a stream to no device, and close one only  *)
(* while its thread is idle.                                                *)

BusyPlaces == {"start", "stop", "routeStop"}
Flags ==
  /\ standby \in [Dirs -> BOOLEAN] /\ pcm \in [Dirs -> BOOLEAN] /\ uneven \in [Dirs -> BOOLEAN]
SilentInv(d) ==
  /\ pc[d] \notin BusyPlaces /\ ~uneven[d] => (pcm[d] <=> ~standby[d]) /\ (state[d] <=> ~standby[d])
  /\ pc[d] = "start" => state[d] /\ standby[d] /\ (~uneven[d] => ~pcm[d])
  /\ pc[d] \in {"stop", "routeStop"} => ~state[d] /\ ~pcm[d]
Silent == Flags /\ \A d \in Dirs : SilentInv(d)

SameStream(d) == UNCHANGED <<standby[d], pcm[d], uneven[d], state[d]>>
SamePlace(d) == pc'[d] = pc[d] \/ (pc[d] \notin BusyPlaces /\ pc'[d] \notin BusyPlaces)
Beside(d) == SameStream(d) /\ SamePlace(d)

LEMMA BesideKeeps ==
  ASSUME NEW d \in Dirs, SilentInv(d), Beside(d)
  PROVE  SilentInv(d)'
  BY DEF SilentInv, Beside, SameStream, SamePlace, BusyPlaces

LEMMA StateOfCodec ==
  /\ \A t \in Threads : RouteDone(t) => state' = state
  /\ \A t \in Threads, d \in Dirs : \A device : SetDevice(t, d, device) => state' = state
  /\ \A t \in Threads : \A what : Start(t, what) => state' = [state EXCEPT ![what] = TRUE]
  /\ \A t \in Threads : \A what : Stop(t, what) => state' = [state EXCEPT ![what] = FALSE]
  BY DEF RouteDone, SetDevice, Start, Stop, RouteStart

(* A step of the thread of d that leaves its flags alone.                    *)
LEMMA PlaceOnly ==
  ASSUME Typed, NEW t \in Threads, Moves(t), pc[t] \notin BusyPlaces, pc'[t] \notin BusyPlaces,
         UNCHANGED <<standby, pcm, uneven, state>>
  PROVE  \A d \in Dirs : Beside(d)
  BY DEF Moves, Beside, SameStream, SamePlace, Dirs, Threads

(* audio_*_standby(), by the thread of the stream.                           *)
LEMMA StandbyBeginKeeps ==
  ASSUME Typed, Flags, NEW d \in Dirs, SilentInv(d), pc[d] \notin BusyPlaces,
         NEW busy \in {"stop", "routeStop"}, NEW idle \in {"idle", "unlockAgain"},
         StandbyBegin(d, d, busy, idle), UNCHANGED <<standby, uneven>>
  PROVE  Flags' /\ SilentInv(d)' /\ \A e \in Dirs \ {d} : Beside(e)
<1> d \in Threads /\ d \in DOMAIN state
  BY DEF Dirs, Threads, Typed
<1>1. pcm' = [pcm EXCEPT ![d] = FALSE]
  BY DEF StandbyBegin
<1>2. Flags' /\ pcm'[d] = FALSE
  BY <1>1 DEF Flags
<1>3. CASE standby[d]
  <2>1. Goto(d, idle) /\ UNCHANGED state
    BY <1>3 DEF StandbyBegin, codec
  <2>2. pc'[d] = idle /\ Moves(d)
    BY <2>1, GotoMoves
  <2>3. SilentInv(d)'
    BY <1>2, <1>3, <2>1, <2>2 DEF SilentInv, Flags, BusyPlaces
  <2>4. \A e \in Dirs \ {d} : Beside(e)
    BY <1>1, <2>1, <2>2 DEF Moves, Beside, SameStream, SamePlace, Flags, Dirs, Threads
  <2> QED
    BY <1>2, <2>3, <2>4
<1>4. CASE ~standby[d]
  <2>1. Goto(d, busy) /\ state' = [state EXCEPT ![d] = FALSE]
    BY <1>4, StateOfCodec DEF StandbyBegin
  <2>2. pc'[d] = busy /\ Moves(d) /\ state'[d] = FALSE
    BY <2>1, GotoMoves DEF Typed
  <2>3. SilentInv(d)'
    BY <1>2, <2>2 DEF SilentInv, BusyPlaces
  <2>4. \A e \in Dirs \ {d} : Beside(e)
    BY <1>1, <2>1, <2>2 DEF Moves, Beside, SameStream, SamePlace, Flags, Typed, Dirs, Threads
  <2> QED
    BY <1>2, <2>3, <2>4
<1> QED
  BY <1>3, <1>4

LEMMA StandbyEndKeeps ==
  ASSUME Typed, Flags, NEW d \in Dirs, SilentInv(d), pc[d] \in {"stop", "routeStop"},
         NEW next \in {"idle", "unlockAgain"}, StandbyEnd(d, d, next), UNCHANGED pcm
  PROVE  Flags' /\ SilentInv(d)' /\ \A e \in Dirs \ {d} : Beside(e)
<1> d \in Threads
  BY DEF Dirs, Threads
<1>1. /\ standby' = [standby EXCEPT ![d] = TRUE] /\ uneven' = [uneven EXCEPT ![d] = FALSE]
      /\ UNCHANGED <<pcm, state>>
  BY StateOfCodec DEF StandbyEnd
<1>2. Flags' /\ standby'[d] = TRUE /\ uneven'[d] = FALSE
  BY <1>1 DEF Flags
<1>3. pc'[d] = next /\ Moves(d)
  BY GotoMoves DEF StandbyEnd
<1>4. ~state[d] /\ ~pcm[d]
  BY DEF SilentInv
<1>5. SilentInv(d)'
  BY <1>1, <1>2, <1>3, <1>4 DEF SilentInv, BusyPlaces
<1>6. \A e \in Dirs \ {d} : Beside(e)
  BY <1>1, <1>3 DEF Moves, Beside, SameStream, SamePlace, Flags, Dirs, Threads
<1> QED
  BY <1>2, <1>5, <1>6

(* audio_*_write(): out of standby, or not.                                  *)
LEMMA WriteKeeps ==
  ASSUME Typed, Flags, NEW d \in Dirs, SilentInv(d), Write(d) \/ WriteOpened(d) \/ Transfer(d)
  PROVE  Flags' /\ SilentInv(d)' /\ \A e \in Dirs \ {d} : Beside(e)
<1> d \in Threads
  BY DEF Dirs, Threads
<1>1. CASE Write(d)
  <2>1. UNCHANGED <<standby, pcm, uneven>> /\ pc[d] = "idle"
    BY <1>1 DEF Write, streams
  <2>2. Flags'
    BY <2>1 DEF Flags
  <2>3. CASE standby[d]
    <3>1. pc'[d] = "start" /\ Moves(d) /\ state' = [state EXCEPT ![d] = TRUE]
      BY <1>1, <2>3, GotoMoves, StateOfCodec DEF Write
    <3>2. state'[d] = TRUE /\ \A e \in Dirs \ {d} : state'[e] = state[e]
      BY <3>1 DEF Typed, Dirs
    <3>3. SilentInv(d)'
      BY <2>1, <2>3, <3>1, <3>2 DEF SilentInv, BusyPlaces
    <3>4. \A e \in Dirs \ {d} : Beside(e)
      BY <2>1, <3>1, <3>2 DEF Moves, Beside, SameStream, SamePlace, Dirs, Threads
    <3> QED
      BY <2>2, <3>3, <3>4
  <2>4. CASE ~standby[d]
    <3>1. pc'[d] = "transfer" /\ Moves(d) /\ UNCHANGED state
      BY <1>1, <2>4, GotoMoves DEF Write, codec
    <3>2. \A e \in Dirs : Beside(e)
      BY <2>1, <3>1, PlaceOnly DEF BusyPlaces
    <3> QED
      BY <2>2, <3>2, BesideKeeps
  <2> QED
    BY <2>3, <2>4
<1>2. CASE WriteOpened(d)
  <2>1. state' = state /\ state[d] /\ standby[d] /\ (~uneven[d] => ~pcm[d])
    BY <1>2, StateOfCodec DEF WriteOpened, SilentInv
  <2>2. CASE /\ pcm' = [pcm EXCEPT ![d] = TRUE] /\ standby' = [standby EXCEPT ![d] = FALSE]
             /\ Goto(d, "transfer") /\ UNCHANGED uneven
    <3>1. Flags' /\ pcm'[d] = TRUE /\ standby'[d] = FALSE
      BY <2>2 DEF Flags
    <3>2. pc'[d] = "transfer" /\ Moves(d)
      BY <2>2, GotoMoves
    <3>3. SilentInv(d)'
      BY <2>1, <3>1, <3>2 DEF SilentInv, BusyPlaces
    <3>4. \A e \in Dirs \ {d} : Beside(e)
      BY <2>1, <2>2, <3>2 DEF Moves, Beside, SameStream, SamePlace, Flags, Dirs, Threads
    <3> QED
      BY <3>1, <3>3, <3>4
  <2>3. CASE /\ uneven' = [uneven EXCEPT ![d] = TRUE] /\ Goto(d, "idle")
             /\ UNCHANGED <<pcm, standby>>
    <3>1. Flags' /\ uneven'[d] = TRUE
      BY <2>3 DEF Flags
    <3>2. pc'[d] = "idle" /\ Moves(d)
      BY <2>3, GotoMoves
    <3>3. SilentInv(d)'
      BY <3>1, <3>2 DEF SilentInv, BusyPlaces
    <3>4. \A e \in Dirs \ {d} : Beside(e)
      BY <2>1, <2>3, <3>2 DEF Moves, Beside, SameStream, SamePlace, Flags, Dirs, Threads
    <3> QED
      BY <3>1, <3>3, <3>4
  <2> QED
    BY <1>2, <2>2, <2>3 DEF WriteOpened
<1>3. CASE Transfer(d)
  <2>1. /\ UNCHANGED <<standby, pcm, uneven, state>> /\ pc[d] = "transfer"
        /\ pc'[d] = "idle" /\ Moves(d)
    BY <1>3, GotoMoves DEF Transfer, streams, codec
  <2>2. \A e \in Dirs : Beside(e)
    BY <2>1, PlaceOnly DEF BusyPlaces
  <2>3. Flags'
    BY <2>1 DEF Flags
  <2> QED
    BY <2>2, <2>3, BesideKeeps
<1> QED
  BY <1>1, <1>2, <1>3

(* A step that touches no stream and no stream's side of the codec.          *)
LEMMA AllBeside ==
  ASSUME Silent, \A d \in Dirs : Beside(d), UNCHANGED <<standby, pcm, uneven>>
  PROVE  Silent'
<1>1. Flags'
  BY DEF Silent, Flags
<1>2. \A d \in Dirs : SilentInv(d)'
  BY BesideKeeps DEF Silent
<1> QED
  BY <1>1, <1>2 DEF Silent

LEMMA OthersBeside ==
  ASSUME Silent, NEW d \in Dirs, Flags', SilentInv(d)', \A e \in Dirs \ {d} : Beside(e)
  PROVE  Silent'
<1>1. ASSUME NEW e \in Dirs \ {d} PROVE SilentInv(e)'
  BY BesideKeeps DEF Silent
<1> QED
  BY <1>1 DEF Silent

LEMMA StreamKeepsSilent ==
  ASSUME Typed, Silent, NEW d \in Dirs,
         Write(d) \/ WriteOpened(d) \/ Transfer(d) \/ Standby(d) \/ StandbyStopped(d)
  PROVE  Silent'
<1>1. Flags /\ SilentInv(d)
  BY DEF Silent
<1>2. CASE Write(d) \/ WriteOpened(d) \/ Transfer(d)
  BY <1>1, <1>2, WriteKeeps, OthersBeside
<1>3. CASE Standby(d)
  <2>1. /\ StandbyBegin(d, d, "stop", "idle") /\ UNCHANGED <<standby, uneven>>
        /\ pc[d] \notin BusyPlaces
    BY <1>3 DEF Standby, BusyPlaces
  <2> QED
    BY <1>1, <2>1, StandbyBeginKeeps, OthersBeside
<1>4. CASE StandbyStopped(d)
  <2>1. StandbyEnd(d, d, "idle") /\ UNCHANGED pcm /\ pc[d] = "stop"
    BY <1>4 DEF StandbyStopped
  <2> QED
    BY <1>1, <2>1, StandbyEndKeeps, OthersBeside
<1> QED
  BY <1>2, <1>3, <1>4

(* A route to no device is a stream's own.                                   *)
LEMMA RoutingKeepsSilent ==
  ASSUME Typed, PolicyRoutesDevices, Silent, NEW t \in Threads, Routing(t)
  PROVE  Silent'
<1>1. CASE RouteNothing(t) \/ RouteStream(t) \/ RouteStreamDone(t) \/ RouteNone(t)
           \/ UnlockAgain(t) \/ RouteModem(t)
  <2>1. UNCHANGED <<standby, pcm, uneven>>
    BY <1>1 DEF RouteNothing, RouteStream, RouteStreamDone, RouteNone, UnlockAgain, RouteModem,
                streams
  <2>2. UNCHANGED state
    BY <1>1, StateOfCodec, WantedDirection
       DEF RouteNothing, RouteStream, RouteStreamDone, RouteNone, UnlockAgain, RouteModem, codec
  <2>3. pc[t] \in {"route", "routeCodec", "unlockAgain", "ril"}
    BY <1>1 DEF RouteNothing, RouteStream, RouteStreamDone, RouteNone, UnlockAgain, RouteModem
  <2>4. \/ Goto(t, "ril") \/ Goto(t, "routeCodec") \/ Goto(t, "routeStandby") \/ Goto(t, "idle")
    BY <1>1 DEF RouteNothing, RouteStream, RouteStreamDone, RouteNone, UnlockAgain, RouteModem,
                Return
  <2>5. Moves(t) /\ pc[t] \notin BusyPlaces /\ pc'[t] \notin BusyPlaces
    BY <2>3, <2>4, GotoMoves DEF BusyPlaces
  <2> QED
    BY <2>1, <2>2, <2>5, PlaceOnly, AllBeside
<1>2. CASE RouteStandby(t) \/ RouteStandbyStopped(t)
  <2>1. t # "policy"
    BY <1>2 DEF RouteStandby, RouteStandbyStopped, PolicyRoutesDevices
  <2>2. t \in Dirs /\ Dir(t) = t
    BY <2>1 DEF Threads, Dirs, Dir
  <2>3. Flags /\ SilentInv(t)
    BY <2>2 DEF Silent
  <2>4. CASE RouteStandby(t)
    <3>1. /\ StandbyBegin(t, t, "routeStop", "unlockAgain") /\ UNCHANGED <<standby, uneven>>
          /\ pc[t] \notin BusyPlaces
      BY <2>2, <2>4 DEF RouteStandby, BusyPlaces
    <3> QED
      BY <2>2, <2>3, <3>1, StandbyBeginKeeps, OthersBeside
  <2>5. CASE RouteStandbyStopped(t)
    <3>1. StandbyEnd(t, t, "unlockAgain") /\ UNCHANGED pcm /\ pc[t] = "routeStop"
      BY <2>2, <2>5 DEF RouteStandbyStopped
    <3> QED
      BY <2>2, <2>3, <3>1, StandbyEndKeeps, OthersBeside
  <2> QED
    BY <1>2, <2>4, <2>5
<1> QED
  BY <1>1, <1>2 DEF Routing

(* The device's other calls, but closing a stream: they only start and stop  *)
(* the modem's side of the codec.                                           *)
LEMMA PolicyBeside ==
  ASSUME Silent, Moves("policy"), UNCHANGED <<standby, pcm, uneven>>,
         state'["out"] = state["out"], state'["in"] = state["in"]
  PROVE  Silent'
<1>1. \A d \in Dirs : Beside(d)
  BY DEF Moves, Beside, SameStream, SamePlace, Dirs, Threads
<1> QED
  BY <1>1, AllBeside

LEMMA PhoneKeepsSilent ==
  ASSUME Typed, Silent, PhoneCall
  PROVE  Silent'
<1> "policy" \in Threads
  BY DEF Threads
<1>1. UNCHANGED <<standby, pcm, uneven>>
  BY DEF PhoneCall, CallBegin, CallOpen, CallRoute, CallTwomic, CallVolume, CallEnd, HangUp,
         HangUpTwomic, HangUpClose, VoiceVolume, VoiceVolumeSet, streams
<1>2. Moves("policy")
  BY GotoMoves
     DEF PhoneCall, CallBegin, CallOpen, CallRoute, CallTwomic, CallVolume, CallEnd, HangUp,
         HangUpTwomic, HangUpClose, VoiceVolume, VoiceVolumeSet, Return
<1>3. CASE CallBegin \/ HangUpTwomic
  <2>1. \/ state' = [state EXCEPT !["modem"] = TRUE] \/ state' = [state EXCEPT !["modem"] = FALSE]
    BY <1>3, StateOfCodec DEF CallBegin, HangUpTwomic
  <2>2. state'["out"] = state["out"] /\ state'["in"] = state["in"]
    BY <2>1 DEF Typed
  <2> QED
    BY <1>1, <1>2, <2>2, PolicyBeside
<1>4. CASE ~(CallBegin \/ HangUpTwomic)
  <2>1. UNCHANGED state
    BY <1>4, StateOfCodec
       DEF PhoneCall, CallOpen, CallRoute, CallTwomic, CallVolume, CallEnd, HangUp, HangUpClose,
           VoiceVolume, VoiceVolumeSet, codec
  <2> QED
    BY <1>1, <1>2, <2>1, PolicyBeside
<1> QED
  BY <1>3, <1>4

(* Closing a stream, which nobody writes to or routes.                        *)
LEMMA CloseKeepsSilent ==
  ASSUME Typed, Silent, NEW d \in Dirs, CloseStream(d)
  PROVE  Silent'
<1> "policy" \in Threads
  BY DEF Threads
<1>1. /\ standby' = [standby EXCEPT ![d] = TRUE] /\ pcm' = [pcm EXCEPT ![d] = FALSE]
      /\ pc[d] = "idle"
  BY DEF CloseStream
<1>2. Moves("policy")
  BY GotoMoves DEF CloseStream
<1>3. pc'[d] = "idle" /\ \A e \in Dirs : pc'[e] = pc[e]
  BY <1>1, <1>2 DEF Moves, Dirs, Threads
<1>4. /\ standby'[d] = TRUE /\ pcm'[d] = FALSE
      /\ \A e \in Dirs \ {d} : standby'[e] = standby[e] /\ pcm'[e] = pcm[e]
  BY <1>1 DEF Silent, Flags
<1>5. CASE standby[d]
  <2>1. UNCHANGED <<state, uneven>>
    BY <1>5 DEF CloseStream, codec
  <2>2. Flags'
    BY <1>1, <2>1 DEF Silent, Flags
  <2>3. SilentInv(d)'
    BY <1>1, <1>3, <1>4, <1>5, <2>1 DEF Silent, SilentInv, BusyPlaces
  <2>4. \A e \in Dirs \ {d} : Beside(e)
    BY <1>3, <1>4, <2>1 DEF Beside, SameStream, SamePlace
  <2> QED
    BY <2>2, <2>3, <2>4, OthersBeside
<1>6. CASE ~standby[d]
  <2>1. state' = [state EXCEPT ![d] = FALSE] /\ uneven' = [uneven EXCEPT ![d] = FALSE]
    BY <1>6, StateOfCodec DEF CloseStream
  <2>2. Flags'
    BY <1>1, <2>1 DEF Silent, Flags
  <2>3. /\ state'[d] = FALSE
        /\ \A e \in Dirs \ {d} : state'[e] = state[e] /\ uneven'[e] = uneven[e]
    BY <2>1 DEF Typed, Silent, Flags, Dirs
  <2>4. SilentInv(d)'
    BY <1>3, <1>4, <2>3 DEF SilentInv, BusyPlaces
  <2>5. \A e \in Dirs \ {d} : Beside(e)
    BY <1>3, <1>4, <2>3 DEF Beside, SameStream, SamePlace
  <2> QED
    BY <2>2, <2>4, <2>5, OthersBeside
<1> QED
  BY <1>5, <1>6

LEMMA ComesOrGoesKeepsSilent ==
  ASSUME Typed, Silent, StreamComesOrGoes
  PROVE  Silent'
<1> "policy" \in Threads
  BY DEF Threads
<1>1. ASSUME NEW d \in Dirs, NEW device \in Outputs \cup Inputs, OpenStream(d, device)
      PROVE  Silent'
  <2>1. UNCHANGED <<standby, pcm, uneven, state>> /\ Moves("policy")
    BY <1>1, GotoMoves, StateOfCodec DEF OpenStream, streams
  <2> QED
    BY <2>1, PolicyBeside
<1>2. CASE OpenRouted \/ OpenPcm \/ CloseStopped \/ CloseEnd
  <2>1. UNCHANGED <<standby, pcm, uneven, state>>
    BY <1>2, StateOfCodec DEF OpenRouted, OpenPcm, CloseStopped, CloseEnd, streams, codec
  <2>2. Moves("policy")
    BY <1>2, GotoMoves DEF OpenRouted, OpenPcm, CloseStopped, CloseEnd, Return
  <2> QED
    BY <2>1, <2>2, PolicyBeside
<1> QED
  BY <1>1, <1>2, CloseKeepsSilent DEF StreamComesOrGoes

(* A format that is not the mixer's.                                         *)
LEMMA FormatKeepsSilent ==
  ASSUME Silent, NEW d \in Dirs, SetFormat(d)
  PROVE  Silent'
<1>1. /\ standby' = [standby EXCEPT ![d] = TRUE] /\ pc[d] = "idle"
      /\ uneven' = [uneven EXCEPT ![d] = uneven[d] \/ ~standby[d]]
      /\ UNCHANGED <<pc, pcm, state>>
  BY DEF SetFormat, calls, codec
<1>2. /\ Flags' /\ standby'[d] = TRUE /\ uneven'[d] = (uneven[d] \/ ~standby[d])
      /\ \A e \in Dirs \ {d} : standby'[e] = standby[e] /\ uneven'[e] = uneven[e]
  BY <1>1 DEF Silent, Flags
<1>3. CASE uneven[d] \/ ~standby[d]
  BY <1>1, <1>2, <1>3, OthersBeside DEF SilentInv, BusyPlaces, Beside, SameStream, SamePlace
<1>4. CASE ~uneven[d] /\ standby[d]
  BY <1>1, <1>2, <1>4, OthersBeside
     DEF Silent, SilentInv, BusyPlaces, Beside, SameStream, SamePlace
<1> QED
  BY <1>3, <1>4

LEMMA SilentStarts == ASSUME Init PROVE Silent
  BY DEF Init, Silent, Flags, SilentInv, BusyPlaces, Dirs, Threads

LEMMA SilentKept == ASSUME AudioInv, Silent, [Next]_vars PROVE Silent'
<1> Typed /\ PolicyRoutesDevices
  BY DEF AudioInv, LockInv
<1>1. ASSUME NEW d \in Dirs, StreamStep(d) PROVE Silent'
  BY <1>1, StreamKeepsSilent DEF StreamStep
<1>2. ASSUME NEW t \in Threads, Routing(t) PROVE Silent'
  BY <1>2, RoutingKeepsSilent
<1>3. ASSUME NEW t \in Threads, NEW device \in AllDevices, SetParameters(t, device)
      PROVE  Silent'
  <2>1. pc'[t] = "route" /\ Moves(t) /\ pc[t] = "idle"
    BY <1>3, GotoMoves DEF SetParameters
  <2>2. UNCHANGED <<standby, pcm, uneven, state>>
    BY <1>3 DEF SetParameters, streams, codec
  <2> QED
    BY <2>1, <2>2, PlaceOnly, AllBeside DEF BusyPlaces
<1>4. ASSUME UNCHANGED <<pc, streams, codec>> PROVE Silent'
  BY <1>4 DEF Silent, Flags, SilentInv, streams, codec
<1>5. CASE MicMute \/ UNCHANGED vars
  BY <1>4, <1>5 DEF MicMute, vars, calls
<1>6. CASE \E d \in Dirs : Stream(d)
  BY <1>1, <1>2, <1>6, DirOfStream DEF Stream, StreamStep
<1>7. CASE Device
  BY <1>2, <1>7, PhoneKeepsSilent, ComesOrGoesKeepsSilent
     DEF Device, PhoneCall, StreamComesOrGoes, Threads
<1> QED
  BY <1>1, <1>3, <1>5, <1>6, <1>7, PhoneKeepsSilent, ComesOrGoesKeepsSilent, FormatKeepsSilent
     DEF Next, StreamStep, PhoneCall, StreamComesOrGoes, AllDevices

(* Standby, the PCM and the codec agree about a stream that nobody works on,  *)
(* for any devices and failures, unless a PCM failed to open or a format was  *)
(* changed half-way: whose lock is free has no thread between two of them.   *)
THEOREM StandbyStaysSilent == Spec => []StandbyIsSilent
<1>1. AudioInv /\ Silent => StandbyIsSilent
  <2> SUFFICES ASSUME AudioInv, Silent, NEW d \in Dirs, streamLock[d] = None, ~uneven[d]
               PROVE  pcm[d] = ~standby[d] /\ state[d] = ~standby[d]
    BY DEF StandbyIsSilent
  <2>1. d \in Threads /\ Dir(d) = d /\ d # None
    BY DevicesAssumption DEF Dirs, Threads, Dir
  <2>2. pc[d] \notin BusyPlaces
    BY <2>1 DEF AudioInv, LockInv, StreamLockIsOwn, Section, BusyPlaces
  <2>3. (pcm[d] <=> ~standby[d]) /\ (state[d] <=> ~standby[d])
    BY <2>2 DEF Silent, SilentInv
  <2>4. pcm[d] \in BOOLEAN /\ standby[d] \in BOOLEAN /\ state[d] \in BOOLEAN
    BY DEF AudioInv, Typed, Silent, Flags, Dirs
  <2> QED
    BY <2>3, <2>4
<1> QED
  BY <1>1, AudioInvHolds, SilentStarts, SilentKept, AudioInvStarts, PTL DEF Spec
(* Where set_mode() is on its way into a call, and where a route has moved    *)
(* its stream and not yet told the modem.                                   *)
CallPlaces == {"callCodec", "callRoute", "callTwomic", "callVolume", "callEnd"}
MovedPlaces == {"routeCodec", "routeStandby", "routeStop", "unlockAgain", "ril"}
MovesOut(t) == pc[t] \in MovedPlaces /\ Dir(t) = "out"

(* The modem's client notes a device before it tells the modem; a call begins *)
(* with the device that its first routing will ask for.                     *)
ModemInv ==
  /\ pc["policy"] \in CallPlaces => mode = "normal"
  /\ pc["policy"] \in CallPlaces \ {"callCodec"} /\ ril => rilDevice = want["policy"]
  /\ ril /\ ~rilLeft /\ ~untold /\ rilDevice # None /\ pc["policy"] # "callRoute"
       => modemPath = rilDevice
  /\ mode = "call" /\ ril /\ ~rilLeft /\ asked # None => rilDevice = asked

(* The stream's device, the codec's and the one asked for.                  *)
DeviceInv ==
  /\ opened \in [Dirs -> BOOLEAN]
  /\ pc["out"] # "idle" => opened["out"]
  /\ opened["out"] /\ device_current["out"] # None => codecDevice["out"] = device_current["out"]
  /\ pc["policy"] \in {"openCodec", "openPcm"} /\ Dir("policy") = "out"
       => codecDevice["out"] = want["policy"] /\ ~opened["out"] /\ asked = None
  /\ pc["policy"] \in CallPlaces /\ opened["out"] => device_current["out"] = want["policy"]
  /\ opened["out"] => \A t \in Threads : MovesOut(t) => device_current["out"] = want[t]
  /\ mode = "call" /\ asked # None /\ opened["out"] /\ (\A t \in Threads : ~MovesOut(t))
       => device_current["out"] = asked

-----------------------------------------------------------------------------
(* The device a routing asked for.                                           *)

LEMMA DeviceLockIsOne ==
  ASSUME LockInv, NEW t \in Threads, NEW u \in Threads,
         pc[t] \in DevicePlaces, pc[u] \in DevicePlaces
  PROVE  t = u
  BY DEF LockInv, CallsHoldDevice

(* A step that is not about a call.                                          *)
LEMMA ModemAside ==
  ASSUME ModemInv, UNCHANGED <<mode, ril, rilDevice, rilLeft, modemPath, untold>>,
         asked' \in {asked, None},
         \/ pc'["policy"] = pc["policy"] /\ want'["policy"] = want["policy"]
         \/ pc["policy"] \notin CallPlaces /\ pc'["policy"] \notin CallPlaces
  PROVE  ModemInv'
  BY DEF ModemInv, CallPlaces

LEMMA ModemAsideOfStreams ==
  ASSUME ModemInv, Typed, NEW t \in Threads, Moves(t), t # "policy", UNCHANGED <<want, mode, modem>>
  PROVE  ModemInv'
<1>1. pc'["policy"] = pc["policy"] /\ want'["policy"] = want["policy"]
  BY DEF Moves, Threads
<1> QED
  BY <1>1, ModemAside DEF modem

LEMMA StreamStepKeepsModem ==
  ASSUME ModemInv, Typed, NEW d \in Dirs,
         Write(d) \/ WriteOpened(d) \/ Transfer(d) \/ Standby(d) \/ StandbyStopped(d)
  PROVE  ModemInv'
<1> d \in Threads /\ d # "policy"
  BY DEF Dirs, Threads
<1>1. UNCHANGED <<want, mode, modem>>
  BY DEF Write, WriteOpened, Transfer, Standby, StandbyStopped
<1>2. \E place : Goto(d, place)
  BY DEF Write, WriteOpened, Transfer, Standby, StandbyStopped, StandbyBegin, StandbyEnd
<1> QED
  BY <1>1, <1>2, GotoMoves, ModemAsideOfStreams

LEMMA RouteModemKeepsModem ==
  ASSUME ModemInv, Typed, LockInv, NEW t \in Threads, RouteModem(t)
  PROVE  ModemInv'
<1>1. pc["policy"] \notin CallPlaces
  BY DeviceLockIsOne DEF RouteModem, DevicePlaces, CallPlaces, Threads
<1>2. Moves(t) /\ pc'[t] = "idle"
  BY GotoMoves DEF RouteModem, Return
<1>3. pc'["policy"] \notin CallPlaces
  BY <1>1, <1>2 DEF Moves, CallPlaces, Threads
<1>4. UNCHANGED <<mode, ril>>
  BY DEF RouteModem
<1>5. CASE Dir(t) # "out"
  BY <1>1, <1>3, <1>4, <1>5, ModemAside DEF RouteModem
<1>6. CASE Dir(t) = "out" /\ ~(ril /\ rilDevice # want[t])
  BY <1>1, <1>3, <1>4, <1>6 DEF RouteModem, ModemInv, CallPlaces
<1>7. CASE Dir(t) = "out" /\ ril /\ rilDevice # want[t]
  <2>1. asked' = want[t] /\ RilSetRoute(want[t])
    BY <1>7 DEF RouteModem
  <2> QED
    BY <1>1, <1>3, <1>4, <2>1
       DEF RilSetRoute, Refused, Connected, PathOf, ModemInv, CallPlaces
<1> QED
  BY <1>5, <1>6, <1>7

LEMMA RoutingKeepsModem ==
  ASSUME ModemInv, Typed, LockInv, NEW t \in Threads, Routing(t)
  PROVE  ModemInv'
<1>1. CASE RouteModem(t)
  BY <1>1, RouteModemKeepsModem
<1>2. CASE ~RouteModem(t)
  <2>1. UNCHANGED <<want, mode, modem>>
    BY <1>2 DEF Routing, RouteNothing, RouteStream, RouteStreamDone, RouteNone, RouteStandby,
       RouteStandbyStopped, UnlockAgain
  <2>2. /\ \E place \in MovedPlaces : Goto(t, place)
        /\ pc[t] \in MovedPlaces \cup {"route"}
    BY <1>2 DEF Routing, RouteNothing, RouteStream, RouteStreamDone, RouteNone, RouteStandby,
       RouteStandbyStopped, UnlockAgain, StandbyBegin, StandbyEnd, MovedPlaces
  <2>3. Moves(t) /\ pc'[t] \in MovedPlaces
    BY <2>2, GotoMoves
  <2>4. \/ pc'["policy"] = pc["policy"] /\ want'["policy"] = want["policy"]
        \/ pc["policy"] \notin CallPlaces /\ pc'["policy"] \notin CallPlaces
    BY <2>1, <2>2, <2>3 DEF Moves, Threads, MovedPlaces, CallPlaces
  <2> QED
    BY <2>1, <2>4, ModemAside DEF modem
<1> QED
  BY <1>1, <1>2

LEMMA SetParametersKeepsModem ==
  ASSUME ModemInv, Typed, NEW t \in Threads, NEW device, SetParameters(t, device)
  PROVE  ModemInv'
<1>1. Moves(t) /\ pc[t] = "idle" /\ pc'[t] = "route"
  BY GotoMoves DEF SetParameters
<1>2. want' = [want EXCEPT ![t] = device] /\ UNCHANGED <<mode, modem>>
  BY DEF SetParameters
<1>3. \/ pc'["policy"] = pc["policy"] /\ want'["policy"] = want["policy"]
      \/ pc["policy"] \notin CallPlaces /\ pc'["policy"] \notin CallPlaces
  BY <1>1, <1>2 DEF Moves, Typed, Threads, CallPlaces
<1> QED
  BY <1>2, <1>3, ModemAside DEF modem

LEMMA ComesOrGoesKeepsModem ==
  ASSUME ModemInv, Typed, StreamComesOrGoes
  PROVE  ModemInv'
<1> "policy" \in Threads
  BY DEF Threads
<1>1. /\ UNCHANGED <<mode, ril, rilDevice, rilLeft, modemPath, untold>>
      /\ asked' \in {asked, None}
  BY DEF StreamComesOrGoes, OpenStream, CloseStream, OpenRouted, OpenPcm, CloseStopped,
     CloseEnd, modem
<1>2. pc["policy"] \notin CallPlaces
  BY DEF StreamComesOrGoes, OpenStream, CloseStream, OpenRouted, OpenPcm, CloseStopped,
     CloseEnd, CallPlaces
<1>3. \E place \in {"idle", "openCodec", "openPcm", "close", "closeCodec"} : Goto("policy", place)
  BY DEF StreamComesOrGoes, OpenStream, CloseStream, OpenRouted, OpenPcm, CloseStopped,
     CloseEnd, Return
<1>4. pc'["policy"] \notin CallPlaces
  BY <1>3, GotoMoves DEF CallPlaces
<1> QED
  BY <1>1, <1>2, <1>4, ModemAside

LEMMA PhoneCallKeepsModem ==
  ASSUME ModemInv, Typed, PhoneCall
  PROVE  ModemInv'
<1> "policy" \in Threads
  BY DEF Threads
<1>1. CASE CallBegin
  <2>1. pc'["policy"] = "callCodec" /\ pc["policy"] = "idle" /\ mode = "normal"
    BY <1>1, GotoMoves DEF CallBegin
  <2>2. UNCHANGED <<mode, modem>>
    BY <1>1 DEF CallBegin
  <2> QED
    BY <2>1, <2>2 DEF ModemInv, modem, CallPlaces
<1>2. CASE CallOpen
  <2>1. \/ pc'["policy"] = "callEnd" /\ ril' = FALSE
        \/ pc'["policy"] = "callRoute" /\ rilDevice' = want["policy"]
    BY <1>2, GotoMoves DEF CallOpen
  <2>2. pc["policy"] = "callCodec" /\ UNCHANGED <<mode, want>>
    BY <1>2 DEF CallOpen
  <2> QED
    BY <2>1, <2>2 DEF ModemInv, CallPlaces
<1>3. CASE CallRoute
  <2>1. pc["policy"] = "callRoute" /\ pc'["policy"] = "callTwomic"
        /\ UNCHANGED <<mode, want, ril, asked>>
    BY <1>3, GotoMoves DEF CallRoute
  <2>2. CASE want["policy"] # None
    <3>1. RilSetRoute(want["policy"])
      BY <1>3, <2>2 DEF CallRoute
    <3> QED
      BY <2>1, <2>2, <3>1
         DEF RilSetRoute, Refused, Connected, PathOf, ModemInv, CallPlaces
  <2>3. CASE want["policy"] = None
    BY <1>3, <2>1, <2>3 DEF CallRoute, ModemInv, CallPlaces
  <2> QED
    BY <2>2, <2>3
<1>4. CASE CallTwomic \/ CallVolume
  <2>1. /\ pc["policy"] \in {"callTwomic", "callVolume"}
        /\ pc'["policy"] \in {"callVolume", "callEnd"}
        /\ UNCHANGED <<mode, want, ril, rilDevice, modemPath, asked, untold>>
    BY <1>4, GotoMoves DEF CallTwomic, CallVolume
  <2>2. ~rilLeft' => ~rilLeft
    BY <1>4 DEF CallTwomic, CallVolume, RilCall, Refused, Connected
  <2> QED
    BY <2>1, <2>2 DEF ModemInv, CallPlaces
<1>5. CASE CallEnd
  <2>1. /\ pc["policy"] = "callEnd" /\ pc'["policy"] = "idle" /\ asked' = want["policy"]
        /\ UNCHANGED <<ril, rilDevice, rilLeft, modemPath, untold>>
    BY <1>5, GotoMoves DEF CallEnd, Return
  <2> QED
    BY <2>1 DEF ModemInv, CallPlaces
<1>6. CASE HangUp \/ VoiceVolume
  <2>1. /\ pc["policy"] = "idle" /\ pc'["policy"] \notin CallPlaces
        /\ UNCHANGED <<mode, modem>>
    BY <1>6, GotoMoves DEF HangUp, VoiceVolume, CallPlaces
  <2> QED
    BY <2>1, ModemAside DEF modem, CallPlaces
<1>7. CASE HangUpTwomic \/ VoiceVolumeSet
  <2>1. /\ pc["policy"] \in {"hangUp", "volume"} /\ pc'["policy"] \in {"hangUpCodec", "idle"}
        /\ UNCHANGED <<mode, ril, rilDevice, modemPath, asked, untold>>
    BY <1>7, GotoMoves DEF HangUpTwomic, VoiceVolumeSet, Return
  <2>2. ~rilLeft' => ~rilLeft
    BY <1>7 DEF HangUpTwomic, VoiceVolumeSet, RilCall, Refused, Connected
  <2> QED
    BY <2>1, <2>2 DEF ModemInv, CallPlaces
<1>8. CASE HangUpClose
  <2>1. /\ pc["policy"] = "hangUpCodec" /\ pc'["policy"] = "idle" /\ mode' = "normal"
        /\ asked' = None /\ UNCHANGED <<modemPath, untold>>
        /\ ~ril' \/ UNCHANGED <<ril, rilDevice, rilLeft>>
    BY <1>8, GotoMoves DEF HangUpClose, Return
  <2> QED
    BY <2>1 DEF ModemInv, CallPlaces
<1> QED
  BY <1>1, <1>2, <1>3, <1>4, <1>5, <1>6, <1>7, <1>8 DEF PhoneCall

OpenPlaces == {"openCodec", "openPcm"}

LEMMA CodecDeviceKept ==
  /\ \A t \in Threads : RouteDone(t) => codecDevice' = codecDevice
  /\ \A t \in Threads : \A what : Start(t, what) => codecDevice' = codecDevice
  /\ \A t \in Threads : \A what : Stop(t, what) => codecDevice' = codecDevice
  /\ \A t \in Threads, d \in Dirs : \A device :
       SetDevice(t, d, device) => codecDevice' = [codecDevice EXCEPT ![d] = device]
  BY DEF RouteDone, Start, Stop, SetDevice, RouteStart

SameDevices == UNCHANGED <<opened, device_current, codecDevice>>

(* A step that neither routes nor opens anything.                            *)
LEMMA DeviceAside ==
  ASSUME DeviceInv, NEW t \in Threads, Moves(t), SameDevices, UNCHANGED <<want, mode>>,
         asked' \in {asked, None},
         pc[t] \notin MovedPlaces, pc'[t] \notin MovedPlaces \cup CallPlaces \cup OpenPlaces,
         t = "out" => opened["out"] \/ pc'[t] = "idle"
  PROVE  DeviceInv'
<1>1. \A u \in Threads : MovesOut(u)' <=> MovesOut(u)
  BY DEF Moves, MovesOut, Dir
<1> QED
  BY <1>1 DEF DeviceInv, Moves, SameDevices, Threads, OpenPlaces, Dir

LEMMA StreamStepKeepsDevice ==
  ASSUME DeviceInv, Typed, NEW d \in Dirs,
         Write(d) \/ WriteOpened(d) \/ Transfer(d) \/ Standby(d) \/ StandbyStopped(d)
  PROVE  DeviceInv'
<1> d \in Threads
  BY DEF Dirs, Threads
<1>1. UNCHANGED <<want, mode, opened, device_current, asked>>
  BY DEF Write, WriteOpened, Transfer, Standby, StandbyStopped, modem, streams
<1>2. UNCHANGED codecDevice
  BY CodecDeviceKept
     DEF Write, WriteOpened, Transfer, Standby, StandbyStopped, StandbyBegin, StandbyEnd, codec
<1>3. \E place \in {"idle", "start", "transfer", "stop"} : Goto(d, place)
  BY DEF Write, WriteOpened, Transfer, Standby, StandbyStopped, StandbyBegin, StandbyEnd
<1>4. Moves(d) /\ pc'[d] \in {"idle", "start", "transfer", "stop"}
  BY <1>3, GotoMoves
<1>5. /\ pc[d] \in {"idle", "start", "transfer", "stop"}
      /\ pc[d] = "idle" => opened[d]
  BY DEF Write, WriteOpened, Transfer, Standby, StandbyStopped
<1>6. d = "out" => opened["out"]
  BY <1>5 DEF DeviceInv
<1> QED
  BY <1>1, <1>2, <1>4, <1>5, <1>6, DeviceAside
     DEF SameDevices, MovedPlaces, CallPlaces, OpenPlaces

(* Between its move and the modem, a route keeps what it has set.            *)
LEMMA MovedKeepsDevice ==
  ASSUME DeviceInv, NEW t \in Threads, Moves(t), SameDevices, UNCHANGED <<want, mode, asked>>,
         pc[t] \in MovedPlaces, pc'[t] \in MovedPlaces
  PROVE  DeviceInv'
<1>1. \A u \in Threads : MovesOut(u)' <=> MovesOut(u)
  BY DEF Moves, MovesOut, Dir
<1> QED
  BY <1>1
     DEF DeviceInv, Moves, SameDevices, Threads, OpenPlaces, CallPlaces, MovedPlaces, Dir

(* The move: the stream's device, and with it the codec's, is the one wanted. *)
LEMMA MoveKeepsDevice ==
  ASSUME DeviceInv, Typed, LockInv, NEW t \in Threads, Moves(t),
         UNCHANGED <<want, mode, asked, opened>>, pc[t] = "route", pc'[t] \in MovedPlaces,
         opened[Dir(t)] => device_current'[Dir(t)] = want[t],
         \A d \in Dirs : device_current'[d] # device_current[d] => d = Dir(t) /\ opened[d],
         \A d \in Dirs : codecDevice'[d] # codecDevice[d] => d = Dir(t) /\ opened[d],
         want[t] # None /\ device_current'[Dir(t)] # device_current[Dir(t)]
           => codecDevice'[Dir(t)] = want[t],
         codecDevice'[Dir(t)] # codecDevice[Dir(t)] => codecDevice'[Dir(t)] = want[t]
  PROVE  DeviceInv'
<1>1. \A u \in Threads \ {t} : pc[u] \notin DevicePlaces /\ pc'[u] = pc[u]
  BY DeviceLockIsOne DEF DevicePlaces, Moves
<1>2. \A u \in Threads : Dir(u)' = Dir(u)
  BY DEF Dir
<1>3. pc'["policy"] \notin CallPlaces
  BY <1>1 DEF MovedPlaces, CallPlaces, DevicePlaces, Threads
<1>4. \A u \in Threads : MovesOut(u)' => u = t /\ Dir(t) = "out"
  BY <1>1, <1>2 DEF MovesOut, MovedPlaces, DevicePlaces
<1>5. Dir(t) = "out" => MovesOut(t)'
  BY <1>2 DEF MovesOut
<1>6. "out" \in Dirs
  BY DEF Dirs
<1>7. opened' \in [Dirs -> BOOLEAN] /\ (pc'["out"] # "idle" => opened'["out"])
  BY <1>1 DEF DeviceInv, Threads
<1>8. opened'["out"] /\ device_current'["out"] # None
        => codecDevice'["out"] = device_current'["out"]
  BY <1>6 DEF DeviceInv
<1>9. pc'["policy"] \in OpenPlaces /\ Dir("policy")' = "out"
        => codecDevice'["out"] = want'["policy"] /\ ~opened'["out"] /\ asked' = None
  BY <1>1, <1>2, <1>6 DEF DeviceInv, OpenPlaces, MovedPlaces, Threads
<1>10. opened'["out"] => \A u \in Threads : MovesOut(u)' => device_current'["out"] = want'[u]
  BY <1>4
<1>11. mode' = "call" /\ asked' # None /\ opened'["out"] /\ (\A u \in Threads : ~MovesOut(u)')
         => device_current'["out"] = asked'
  <2> SUFFICES ASSUME mode = "call", asked # None, opened["out"], Dir(t) # "out"
               PROVE  device_current'["out"] = asked
    BY <1>5
  <2>1. \A u \in Threads : ~MovesOut(u)
    BY <1>1 DEF MovesOut, MovedPlaces, DevicePlaces
  <2> QED
    BY <1>6, <2>1 DEF DeviceInv
<1> QED
  BY <1>3, <1>7, <1>8, <1>9, <1>10, <1>11 DEF DeviceInv, OpenPlaces

(* The routing returns: what it asked for is what the stream has.            *)
LEMMA RouteModemKeepsDevice ==
  ASSUME DeviceInv, Typed, LockInv, NEW t \in Threads, RouteModem(t)
  PROVE  DeviceInv'
<1>1. Moves(t) /\ pc[t] = "ril" /\ pc'[t] = "idle"
  BY GotoMoves DEF RouteModem, Return
<1>2. /\ SameDevices /\ mode' = mode /\ want' = [want EXCEPT ![t] = None]
      /\ asked' = IF Dir(t) = "out" THEN want[t] ELSE asked
  BY DEF RouteModem, Return, SameDevices, streams, codec
<1>3. \A u \in Threads \ {t} : pc[u] \notin DevicePlaces /\ pc'[u] = pc[u] /\ want'[u] = want[u]
  BY <1>1, <1>2, DeviceLockIsOne DEF DevicePlaces, Moves, Typed
<1>4. \A u \in Threads : ~MovesOut(u)'
  BY <1>1, <1>3 DEF MovesOut, MovedPlaces, DevicePlaces
<1>5. pc'["policy"] \notin CallPlaces
  BY <1>1, <1>3 DEF CallPlaces, DevicePlaces, Threads
<1>6. mode' = "call" /\ asked' # None /\ opened'["out"] => device_current'["out"] = asked'
  <2>1. CASE Dir(t) = "out"
    BY <1>1, <1>2, <2>1 DEF DeviceInv, MovesOut, MovedPlaces, SameDevices
  <2>2. CASE Dir(t) # "out"
    <3>1. \A u \in Threads : ~MovesOut(u)
      BY <1>3, <2>2 DEF MovesOut, MovedPlaces, DevicePlaces
    <3> QED
      BY <1>2, <2>2, <3>1 DEF DeviceInv, SameDevices
  <2> QED
    BY <2>1, <2>2
<1>7. pc'["policy"] \in OpenPlaces /\ Dir("policy")' = "out"
        => codecDevice'["out"] = want'["policy"] /\ ~opened'["out"] /\ asked' = None
  <2> SUFFICES ASSUME pc'["policy"] \in OpenPlaces, Dir("policy")' = "out"
               PROVE  codecDevice'["out"] = want'["policy"] /\ ~opened'["out"] /\ asked' = None
    OBVIOUS
  <2>1. t # "policy" /\ "policy" \in Threads
    BY <1>1 DEF OpenPlaces, Threads
  <2>2. pc["policy"] \in OpenPlaces /\ want'["policy"] = want["policy"]
    BY <1>3, <2>1
  <2>3. codecDevice["out"] = want["policy"] /\ ~opened["out"] /\ asked = None
    BY <2>2 DEF DeviceInv, OpenPlaces, Dir
  <2>4. t = "in"
    BY <1>1, <2>1, <2>3 DEF DeviceInv, Threads
  <2> QED
    BY <1>2, <2>2, <2>3, <2>4 DEF SameDevices, Dir, Dirs
<1>8. pc'["out"] # "idle" => opened'["out"]
  BY <1>1, <1>2, <1>3 DEF DeviceInv, SameDevices, Threads
<1> QED
  BY <1>2, <1>4, <1>5, <1>6, <1>7, <1>8 DEF DeviceInv, SameDevices, OpenPlaces

LEMMA RoutingKeepsDevice ==
  ASSUME DeviceInv, Typed, LockInv, NEW t \in Threads, Routing(t)
  PROVE  DeviceInv'
<1> Dir(t) \in Dirs
  BY WantedDirection
<1>1. CASE RouteModem(t)
  BY <1>1, RouteModemKeepsDevice
<1>2. CASE RouteNothing(t)
  <2>1. Moves(t) /\ pc[t] = "route" /\ pc'[t] \in MovedPlaces
    BY <1>2, GotoMoves DEF RouteNothing, MovedPlaces
  <2>2. /\ UNCHANGED <<want, mode, asked, opened, device_current, codecDevice>>
        /\ opened[Dir(t)] => device_current[Dir(t)] = want[t]
    BY <1>2 DEF RouteNothing, modem, streams, codec
  <2> QED
    BY <2>1, <2>2, MoveKeepsDevice
<1>3. CASE RouteStream(t)
  <2>1. Moves(t) /\ pc[t] = "route" /\ pc'[t] \in MovedPlaces
    BY <1>3, GotoMoves DEF RouteStream, MovedPlaces
  <2>2. /\ UNCHANGED <<want, mode, asked, opened>> /\ opened[Dir(t)]
        /\ device_current' = [device_current EXCEPT ![Dir(t)] = want[t]]
        /\ codecDevice' = [codecDevice EXCEPT ![Dir(t)] = want[t]]
    BY <1>3, CodecDeviceKept DEF RouteStream, modem
  <2>3. /\ device_current'[Dir(t)] = want[t] /\ codecDevice'[Dir(t)] = want[t]
        /\ \A d \in Dirs \ {Dir(t)} : device_current'[d] = device_current[d]
                                      /\ codecDevice'[d] = codecDevice[d]
    BY <2>2 DEF Typed
  <2> QED
    BY <2>1, <2>2, <2>3, MoveKeepsDevice
<1>4. CASE RouteNone(t)
  <2>1. Moves(t) /\ pc[t] = "route" /\ pc'[t] \in MovedPlaces
    BY <1>4, GotoMoves DEF RouteNone, MovedPlaces
  <2>2. /\ UNCHANGED <<want, mode, asked, opened, codecDevice>> /\ opened[Dir(t)]
        /\ device_current' = [device_current EXCEPT ![Dir(t)] = None] /\ want[t] = None
    BY <1>4 DEF RouteNone, modem, codec
  <2>3. /\ device_current'[Dir(t)] = want[t]
        /\ \A d \in Dirs \ {Dir(t)} : device_current'[d] = device_current[d]
    BY <2>2 DEF Typed
  <2> QED
    BY <2>1, <2>2, <2>3, MoveKeepsDevice
<1>5. CASE RouteStreamDone(t) \/ RouteStandby(t) \/ RouteStandbyStopped(t) \/ UnlockAgain(t)
  <2>1. /\ pc[t] \in MovedPlaces /\ UNCHANGED <<want, mode, asked, opened, device_current>>
        /\ \E place \in MovedPlaces : Goto(t, place)
    BY <1>5 DEF RouteStreamDone, RouteStandby, RouteStandbyStopped, UnlockAgain, StandbyBegin,
       StandbyEnd, MovedPlaces, modem, streams
  <2>2. UNCHANGED codecDevice
    BY <1>5, CodecDeviceKept DEF RouteStreamDone, RouteStandby, RouteStandbyStopped,
       UnlockAgain, StandbyBegin, StandbyEnd, codec
  <2>3. Moves(t) /\ pc'[t] \in MovedPlaces
    BY <2>1, GotoMoves
  <2> QED
    BY <2>1, <2>2, <2>3, MovedKeepsDevice DEF SameDevices
<1> QED
  BY <1>1, <1>2, <1>3, <1>4, <1>5 DEF Routing

LEMMA SetParametersKeepsDevice ==
  ASSUME DeviceInv, Typed, LockInv, NEW t \in Threads, NEW device, SetParameters(t, device)
  PROVE  DeviceInv'
<1>1. Moves(t) /\ pc[t] = "idle" /\ pc'[t] = "route"
  BY GotoMoves DEF SetParameters
<1>2. /\ UNCHANGED <<mode, asked>> /\ SameDevices /\ deviceLock = None
      /\ want' = [want EXCEPT ![t] = device] /\ (t \in Dirs => opened[t])
  BY DEF SetParameters, modem, streams, codec, SameDevices
<1>3. \A u \in Threads \ {t} : pc'[u] = pc[u] /\ want'[u] = want[u]
  BY <1>1, <1>2 DEF Moves, Typed
<1>4. \A u \in Threads : pc[u] \notin DevicePlaces
  BY <1>2, DevicesAssumption DEF LockInv, CallsHoldDevice, Threads
<1>5. \A u \in Threads : pc[u] \notin MovedPlaces \cup CallPlaces
                         /\ pc'[u] \notin MovedPlaces \cup CallPlaces
  BY <1>1, <1>3, <1>4 DEF MovedPlaces, CallPlaces, DevicePlaces
<1>6. pc'["policy"] \in OpenPlaces => pc["policy"] \in OpenPlaces /\ UNCHANGED want["policy"]
  BY <1>1, <1>3 DEF OpenPlaces, Threads
<1>7. pc'["out"] # "idle" => opened'["out"]
  BY <1>1, <1>2, <1>3 DEF DeviceInv, SameDevices, Threads, Dirs
<1> QED
  BY <1>2, <1>5, <1>6, <1>7 DEF DeviceInv, SameDevices, OpenPlaces, MovesOut, Dir, Threads

(* The calls on the device change no stream; a call begins with the device of *)
(* the stream, which then nobody moves.                                     *)
LEMMA PhoneCallKeepsDevice ==
  ASSUME DeviceInv, Typed, LockInv, ModemInv, PhoneCall
  PROVE  DeviceInv'
<1> "policy" \in Threads
  BY DEF Threads
<1>1. /\ SameDevices
      /\ deviceLock = None \/ pc["policy"] \in DevicePlaces
      /\ pc["policy"] \notin MovedPlaces
  <2>1. UNCHANGED <<opened, device_current>>
    BY DEF PhoneCall, CallBegin, CallOpen, CallRoute, CallTwomic, CallVolume, CallEnd, HangUp,
       HangUpTwomic, HangUpClose, VoiceVolume, VoiceVolumeSet, streams
  <2>2. UNCHANGED codecDevice
    BY CodecDeviceKept DEF PhoneCall, CallBegin, CallOpen, CallRoute, CallTwomic, CallVolume,
       CallEnd, HangUp, HangUpTwomic, HangUpClose, VoiceVolume, VoiceVolumeSet, codec
  <2> QED
    BY <2>1, <2>2 DEF SameDevices, PhoneCall, CallBegin, CallOpen, CallRoute, CallTwomic,
       CallVolume, CallEnd, HangUp, HangUpTwomic, HangUpClose, VoiceVolume, VoiceVolumeSet,
       DevicePlaces, MovedPlaces
<1>2. \E place \in CallPlaces \cup {"idle", "hangUp", "hangUpCodec", "volume"} :
        Goto("policy", place)
  BY DEF PhoneCall, CallBegin, CallOpen, CallRoute, CallTwomic, CallVolume, CallEnd, HangUp,
     HangUpTwomic, HangUpClose, VoiceVolume, VoiceVolumeSet, Return, CallPlaces
<1>3. Moves("policy") /\ pc'["policy"] \in CallPlaces \cup {"idle", "hangUp", "hangUpCodec", "volume"}
  BY <1>2, GotoMoves
<1>4. \A u \in Threads \ {"policy"} : pc[u] \notin DevicePlaces /\ pc'[u] = pc[u]
  BY <1>1, <1>3, DeviceLockIsOne, DevicesAssumption
     DEF LockInv, CallsHoldDevice, Moves, Threads
<1>5. \A u \in Threads : ~MovesOut(u) /\ ~MovesOut(u)'
  BY <1>1, <1>3, <1>4 DEF MovesOut, MovedPlaces, CallPlaces, DevicePlaces
<1>6. pc'["policy"] \in CallPlaces /\ opened'["out"] => device_current'["out"] = want'["policy"]
  <2>1. CASE CallBegin
    BY <1>1, <2>1 DEF CallBegin, SameDevices, Typed
  <2>2. CASE CallOpen \/ CallRoute \/ CallTwomic \/ CallVolume
    BY <1>1, <2>2
       DEF CallOpen, CallRoute, CallTwomic, CallVolume, SameDevices, DeviceInv, CallPlaces
  <2>3. CASE CallEnd \/ HangUp \/ HangUpTwomic \/ HangUpClose \/ VoiceVolume \/ VoiceVolumeSet
    <3>1. \E place \in {"idle", "hangUp", "hangUpCodec", "volume"} : Goto("policy", place)
      BY <2>3 DEF CallEnd, HangUp, HangUpTwomic, HangUpClose, VoiceVolume, VoiceVolumeSet, Return
    <3> QED
      BY <3>1, GotoMoves DEF CallPlaces
  <2> QED
    BY <2>1, <2>2, <2>3 DEF PhoneCall
<1>7. mode' = "call" /\ asked' # None /\ opened'["out"] => device_current'["out"] = asked'
  <2>1. CASE CallEnd
    BY <1>1, <2>1 DEF CallEnd, SameDevices, DeviceInv, CallPlaces
  <2>2. CASE HangUpClose
    BY <2>2 DEF HangUpClose
  <2>3. CASE ~CallEnd /\ ~HangUpClose
    <3>1. UNCHANGED <<mode, asked>>
      BY <2>3 DEF PhoneCall, CallBegin, CallOpen, CallRoute, CallTwomic, CallVolume, HangUp,
         HangUpTwomic, VoiceVolume, VoiceVolumeSet, modem
    <3> QED
      BY <1>1, <1>5, <3>1 DEF SameDevices, DeviceInv
  <2> QED
    BY <2>1, <2>2, <2>3
<1>8. pc'["policy"] \notin OpenPlaces /\ pc'["out"] = pc["out"]
  BY <1>3, <1>4 DEF OpenPlaces, CallPlaces, Threads
<1> QED
  BY <1>1, <1>5, <1>6, <1>7, <1>8 DEF DeviceInv, SameDevices, OpenPlaces

LEMMA OpenStreamKeepsDevice ==
  ASSUME DeviceInv, Typed, LockInv, NEW d \in Dirs, NEW device \in Outputs \cup Inputs,
         OpenStream(d, device)
  PROVE  DeviceInv'
<1> "policy" \in Threads
  BY DEF Threads
<1>1. Moves("policy") /\ pc'["policy"] \in OpenPlaces
  BY GotoMoves DEF OpenStream, OpenPlaces
<1>2. /\ UNCHANGED <<opened, device_current, mode>> /\ deviceLock = None /\ ~opened[d]
      /\ pc["policy"] = "idle" /\ want' = [want EXCEPT !["policy"] = device]
      /\ codecDevice' = [codecDevice EXCEPT ![d] = device]
      /\ asked' = IF d = "out" THEN None ELSE asked
  BY CodecDeviceKept DEF OpenStream, streams
<1>3. device \in Outputs <=> d = "out"
  BY DevicesAssumption DEF OpenStream, Devices, Dirs, Typed
<1>4. \A u \in Threads : pc[u] \notin DevicePlaces
  BY <1>2, DevicesAssumption DEF LockInv, CallsHoldDevice, Threads
<1>5. \A u \in Threads : ~MovesOut(u) /\ ~MovesOut(u)'
  BY <1>1, <1>4 DEF MovesOut, MovedPlaces, DevicePlaces, OpenPlaces, Moves
<1>6. pc'["policy"] \notin CallPlaces /\ pc'["out"] = pc["out"]
  BY <1>1 DEF OpenPlaces, CallPlaces, Moves, Threads
<1>7. want'["policy"] = device /\ (Dir("policy")' = "out" => d = "out")
  BY <1>2, <1>3 DEF Dir, Typed, Dirs
<1>8. CASE d = "out"
  <2>1. codecDevice'["out"] = device /\ asked' = None /\ ~opened'["out"]
    BY <1>2, <1>8 DEF Typed
  <2> QED
    BY <1>2, <1>5, <1>6, <1>7, <2>1 DEF DeviceInv
<1>9. CASE d # "out"
  <2>1. codecDevice'["out"] = codecDevice["out"] /\ asked' = asked /\ Dir("policy")' # "out"
    BY <1>2, <1>7, <1>9 DEF Typed, Dirs
  <2> QED
    BY <1>2, <1>5, <1>6, <2>1 DEF DeviceInv
<1> QED
  BY <1>8, <1>9

LEMMA OpenPcmKeepsDevice ==
  ASSUME DeviceInv, Typed, OpenPcm
  PROVE  DeviceInv'
<1> DEFINE d == Dir("policy")
<1> "policy" \in Threads
  BY DEF Threads
<1>1. Moves("policy") /\ pc["policy"] = "openPcm" /\ pc'["policy"] = "idle"
  BY GotoMoves DEF OpenPcm, Return
<1>2. /\ UNCHANGED <<codecDevice, mode, asked>>
      /\ want' = [want EXCEPT !["policy"] = None]
      /\ \/ /\ opened' = [opened EXCEPT ![d] = TRUE]
            /\ device_current' = [device_current EXCEPT ![d] = want["policy"]]
         \/ UNCHANGED <<opened, device_current>>
  BY DEF OpenPcm, Return, codec, modem
<1>3. \A u \in Threads \ {"policy"} : pc'[u] = pc[u] /\ want'[u] = want[u]
  BY <1>1, <1>2 DEF Moves, Typed
<1>4. \A u \in Threads : MovesOut(u)' <=> MovesOut(u)
  BY <1>1, <1>3 DEF MovesOut, MovedPlaces, Dir, Threads, Dirs
<1>5. ~MovesOut("policy") /\ pc'["policy"] \notin CallPlaces \cup OpenPlaces
  BY <1>1 DEF MovesOut, MovedPlaces, CallPlaces, OpenPlaces
<1>6. opened' \in [Dirs -> BOOLEAN] /\ pc'["out"] = pc["out"]
  BY <1>2, <1>3 DEF DeviceInv, Threads
<1>7. CASE d = "out"
  <2>1. codecDevice["out"] = want["policy"] /\ ~opened["out"] /\ asked = None
    BY <1>1, <1>7 DEF DeviceInv, OpenPlaces
  <2>2. pc["out"] = "idle" /\ ~MovesOut("out") /\ ~MovesOut("in")
    BY <2>1 DEF DeviceInv, MovesOut, MovedPlaces, Dir, Dirs
  <2>3. \A u \in Threads : ~MovesOut(u)'
    BY <1>4, <1>5, <2>2 DEF Threads
  <2>4. opened'["out"] => device_current'["out"] = want["policy"]
    BY <1>2, <1>7, <2>1 DEF Typed, DeviceInv
  <2> QED
    BY <1>2, <1>5, <1>6, <2>1, <2>2, <2>3, <2>4 DEF DeviceInv, OpenPlaces
<1>8. CASE d # "out"
  <2>1. opened'["out"] = opened["out"] /\ device_current'["out"] = device_current["out"]
    BY <1>2, <1>8 DEF Typed, DeviceInv, Dirs
  <2> QED
    BY <1>2, <1>3, <1>4, <1>5, <1>6, <2>1 DEF DeviceInv, OpenPlaces
<1> QED
  BY <1>7, <1>8

LEMMA CloseStreamKeepsDevice ==
  ASSUME DeviceInv, Typed, NEW d \in Dirs, CloseStream(d)
  PROVE  DeviceInv'
<1> "policy" \in Threads /\ d \in Threads
  BY DEF Threads, Dirs
<1>1. Moves("policy") /\ pc["policy"] = "idle" /\ pc'["policy"] \in {"close", "closeCodec"}
  BY GotoMoves DEF CloseStream
<1>2. /\ UNCHANGED <<want, mode>> /\ pc[d] = "idle"
      /\ opened' = [opened EXCEPT ![d] = FALSE]
      /\ device_current' = [device_current EXCEPT ![d] = None]
      /\ asked' = IF d = "out" THEN None ELSE asked
  BY DEF CloseStream
<1>3. UNCHANGED codecDevice
  BY CodecDeviceKept DEF CloseStream, codec
<1>4. \A u \in Threads : MovesOut(u)' <=> MovesOut(u)
  BY <1>1, <1>2 DEF Moves, MovesOut, MovedPlaces, Dir
<1>5. pc'["policy"] \notin CallPlaces \cup OpenPlaces /\ pc'["out"] = pc["out"]
  BY <1>1 DEF CallPlaces, OpenPlaces, Moves, Threads
<1>6. opened' \in [Dirs -> BOOLEAN]
  BY <1>2 DEF DeviceInv
<1>7. CASE d = "out"
  <2>1. ~opened'["out"] /\ pc'["out"] = "idle"
    BY <1>2, <1>5, <1>7 DEF DeviceInv
  <2> QED
    BY <1>5, <1>6, <2>1 DEF DeviceInv, OpenPlaces
<1>8. CASE d # "out"
  <2>1. /\ opened'["out"] = opened["out"] /\ device_current'["out"] = device_current["out"]
        /\ asked' = asked
    BY <1>2, <1>8 DEF DeviceInv, Typed, Dirs
  <2> QED
    BY <1>2, <1>3, <1>4, <1>5, <1>6, <2>1 DEF DeviceInv, OpenPlaces
<1> QED
  BY <1>7, <1>8

LEMMA ComesOrGoesKeepsDevice ==
  ASSUME DeviceInv, Typed, LockInv, StreamComesOrGoes
  PROVE  DeviceInv'
<1> "policy" \in Threads
  BY DEF Threads
<1>1. CASE OpenRouted
  <2>1. /\ Moves("policy") /\ pc["policy"] = "openCodec" /\ pc'["policy"] = "openPcm"
        /\ SameDevices /\ UNCHANGED <<want, mode, asked>>
    BY <1>1, GotoMoves, CodecDeviceKept DEF OpenRouted, SameDevices, streams, modem
  <2>2. \A u \in Threads : MovesOut(u)' <=> MovesOut(u)
    BY <2>1 DEF Moves, MovesOut, MovedPlaces, Dir
  <2>3. Dir("policy")' = Dir("policy") /\ pc'["out"] = pc["out"]
    BY <2>1 DEF Dir, Moves, Threads
  <2>4. /\ pc'["policy"] \notin CallPlaces
        /\ Dir("policy")' = "out"
             => codecDevice'["out"] = want'["policy"] /\ ~opened'["out"] /\ asked' = None
    BY <2>1, <2>3 DEF DeviceInv, SameDevices, CallPlaces
  <2> QED
    BY <2>1, <2>2, <2>3, <2>4 DEF DeviceInv, SameDevices
<1>2. CASE CloseStopped \/ CloseEnd
  <2>1. /\ Moves("policy") /\ pc["policy"] \in {"closeCodec", "close"}
        /\ pc'["policy"] \in {"close", "idle"}
        /\ SameDevices /\ UNCHANGED <<want, mode, asked>>
    BY <1>2, GotoMoves, CodecDeviceKept DEF CloseStopped, CloseEnd, SameDevices, streams, modem,
       codec
  <2> QED
    BY <2>1, DeviceAside DEF MovedPlaces, CallPlaces, OpenPlaces
<1> QED
  BY <1>1, <1>2, OpenStreamKeepsDevice, OpenPcmKeepsDevice, CloseStreamKeepsDevice
     DEF StreamComesOrGoes

ReachInv == ModemInv /\ DeviceInv

LEMMA ReachStarts == ASSUME Init PROVE ReachInv
  BY DEF Init, ReachInv, ModemInv, DeviceInv, CallPlaces, MovesOut, MovedPlaces, Dirs, Threads

LEMMA ReachKept == ASSUME AudioInv, ReachInv, [Next]_vars PROVE ReachInv'
<1> Typed /\ LockInv /\ ModemInv /\ DeviceInv
  BY DEF AudioInv, ReachInv
<1>1. ASSUME NEW d \in Dirs, StreamStep(d) PROVE ReachInv'
  BY <1>1, StreamStepKeepsModem, StreamStepKeepsDevice DEF StreamStep, ReachInv
<1>2. ASSUME NEW t \in Threads, Routing(t) PROVE ReachInv'
  BY <1>2, RoutingKeepsModem, RoutingKeepsDevice DEF ReachInv
<1>3. ASSUME NEW t \in Threads, NEW device \in AllDevices, SetParameters(t, device)
      PROVE  ReachInv'
  BY <1>3, SetParametersKeepsModem, SetParametersKeepsDevice DEF ReachInv
<1>4. ASSUME UNCHANGED <<pc, want, mode, opened, device_current, codecDevice, ril, rilDevice,
                         rilLeft, modemPath, asked, untold>>
      PROVE  ReachInv'
  BY <1>4 DEF ReachInv, ModemInv, DeviceInv, MovesOut, Dir
<1>5. CASE MicMute \/ UNCHANGED vars \/ \E d \in Dirs : SetFormat(d)
  BY <1>4, <1>5 DEF MicMute, SetFormat, vars, calls, streams, codec, modem
<1>6. CASE \E d \in Dirs : Stream(d)
  BY <1>1, <1>2, <1>6, DirOfStream DEF Stream, StreamStep
<1>7. CASE PhoneCall \/ StreamComesOrGoes
  BY <1>7, PhoneCallKeepsModem, PhoneCallKeepsDevice, ComesOrGoesKeepsModem,
     ComesOrGoesKeepsDevice DEF ReachInv
<1>8. CASE Device
  BY <1>2, <1>7, <1>8 DEF Device, PhoneCall, StreamComesOrGoes, Threads
<1> QED
  BY <1>1, <1>3, <1>5, <1>6, <1>7, <1>8
     DEF Next, StreamStep, PhoneCall, StreamComesOrGoes, AllDevices

(* In a call, a routing that has returned has reached the codec and the modem  *)
(* both, for any devices and any mix of streams, calls and failures, if the    *)
(* modem took its path.                                                      *)
THEOREM RoutingReachesModem == Spec => []RouteReachesModem
<1>1. AudioInv /\ ReachInv => RouteReachesModem
  <2> SUFFICES ASSUME AudioInv, ReachInv, mode = "call", deviceLock = None, ril, ~rilLeft,
                      ~untold, asked # None
               PROVE  modemPath = asked /\ (opened["out"] => codecDevice["out"] = asked)
    BY DEF RouteReachesModem
  <2>1. \A t \in Threads : pc[t] \notin DevicePlaces
    BY DevicesAssumption DEF AudioInv, LockInv, CallsHoldDevice, Threads
  <2>2. modemPath = asked
    BY <2>1 DEF ReachInv, ModemInv, CallPlaces, DevicePlaces, Threads
  <2>3. \A t \in Threads : ~MovesOut(t)
    BY <2>1 DEF MovesOut, MovedPlaces, DevicePlaces
  <2> QED
    BY <2>2, <2>3 DEF ReachInv, DeviceInv
<1> QED
  BY <1>1, AudioInvHolds, ReachStarts, ReachKept, AudioInvStarts, PTL DEF Spec

-----------------------------------------------------------------------------
(* A set of numbers has a least one, and a bounded one a greatest.          *)
LEMMA LeastIs ==
  ASSUME NEW S \in SUBSET Nat, S # {}
  PROVE  Min(S) \in S /\ \A y \in S : Min(S) <= y
<1> DEFINE R == OpToRel(<, Nat)
<1>1. IsWellFoundedOn(R, Nat)
  BY NatLessThanWellFounded
<1>2. \A x, y \in Nat : <<y, x>> \in R <=> y < x
  BY DEF OpToRel
<1> HIDE DEF R
<1>3. \E x \in S : \A y \in S : ~(<<y, x>> \in R)
  BY <1>1, WFMin
<1>4. PICK x \in S : \A y \in S : ~(<<y, x>> \in R)
  BY <1>3
<1>5. \A y \in S : ~(y < x)
  BY <1>2, <1>4
<1>6. S \subseteq Nat /\ x \in Nat
  OBVIOUS
<1>7. \E z \in S : \A y \in S : z <= y
  BY <1>5, <1>6
<1> QED
  BY <1>7 DEF Min

LEMMA GreatestIs ==
  ASSUME NEW n \in Nat, NEW S \in SUBSET (1..n), S # {}
  PROVE  Max(S) \in S
<1> DEFINE T == { k \in Nat : \E x \in S : k = n - x }
<1>1. \A x \in S : x \in Nat /\ x <= n /\ n - x \in Nat
  OBVIOUS
<1>2. T \in SUBSET Nat /\ T # {}
  BY <1>1
<1>3. Min(T) \in T /\ \A y \in T : Min(T) <= y
  BY <1>2, LeastIs
<1>4. PICK x \in S : Min(T) = n - x
  BY <1>3
<1>5. \A y \in S : x >= y
  <2> SUFFICES ASSUME NEW y \in S PROVE x >= y
    OBVIOUS
  <2>1. n - y \in T
    BY <1>1
  <2>2. n - x <= n - y
    BY <1>3, <1>4, <2>1
  <2> QED
    BY <1>1, <2>2
<1> HIDE DEF T
<1> QED
  BY <1>5 DEF Max

-----------------------------------------------------------------------------
(* What the parser has after n tags of a file.                              *)
Begins(file) == [config |-> ParserBegins(file), mixer |-> NoMixer]
After(r, file, n) == ReadOne(r, Configs[file][n])
Reads(file) ==
  CHOOSE read : read = [n \in Nat |-> IF n = 0 THEN Begins(file) ELSE After(read[n - 1], file, n)]

LEMMA ContentsAre ==
  ASSUME NEW file PROVE Contents(file) = Reads(file)[Len(Configs[file])].mixer
  BY DEF Contents, Reads, Begins, After

(* The recursion is well defined: the first steps are, for any number of    *)
(* them, and in one way only.                                               *)
LEMMA ReadsAre ==
  ASSUME NEW file
  PROVE  /\ Reads(file)[0] = Begins(file)
         /\ \A n \in Nat : Reads(file)[n + 1] = After(Reads(file)[n], file, n + 1)
<1> DEFINE Steps(g, n) ==
      \A i \in 0..n : g[i] = IF i = 0 THEN Begins(file) ELSE After(g[i - 1], file, i)
<1>1. ASSUME NEW g, NEW h, NEW n \in Nat, NEW k \in Nat, Steps(g, n), Steps(h, k), NEW j \in 0..n,
             j <= k
      PROVE  g[j] = h[j]
  <2> DEFINE Differ == { i \in Nat : i <= n /\ i <= k /\ g[i] # h[i] }
  <2>0. SUFFICES ASSUME g[j] # h[j] PROVE FALSE
    OBVIOUS
  <2>1. Min(Differ) \in Differ /\ \A y \in Differ : Min(Differ) <= y
    <3>1. j \in Nat /\ j <= n
      OBVIOUS
    <3>2. j \in Differ
      BY <1>1, <2>0, <3>1
    <3> QED
      BY <3>2, LeastIs
  <2> DEFINE i == Min(Differ)
  <2> HIDE DEF i
  <2>2. i \in Nat /\ i <= n /\ i <= k /\ g[i] # h[i]
    BY <2>1 DEF i
  <2>3. i \in 0..n /\ i \in 0..k
    BY <2>2
  <2>4. i # 0
    BY <1>1, <2>2, <2>3
  <2>5. i - 1 \in Nat /\ i - 1 <= n /\ i - 1 <= k /\ ~(i <= i - 1)
    BY <2>2, <2>4
  <2>6. i - 1 \notin Differ
    BY <2>1, <2>5 DEF i
  <2>7. g[i - 1] = h[i - 1]
    BY <2>5, <2>6
  <2>8. g[i] = After(g[i - 1], file, i) /\ h[i] = After(h[i - 1], file, i)
    BY <1>1, <2>3, <2>4
  <2> QED
    BY <2>2, <2>7, <2>8
<1>2. \A n \in Nat : \E g : Steps(g, n)
  <2> DEFINE Missing == { n \in Nat : ~\E g : Steps(g, n) }
  <2> SUFFICES ASSUME Missing # {} PROVE FALSE
    OBVIOUS
  <2>1. Min(Missing) \in Missing /\ \A y \in Missing : Min(Missing) <= y
    BY LeastIs
  <2> DEFINE n == Min(Missing)
  <2> HIDE DEF n
  <2>2. n \in Nat /\ ~\E g : Steps(g, n)
    BY <2>1 DEF n
  <2>3. n # 0
    <3>1. Steps([i \in 0..0 |-> Begins(file)], 0)
      OBVIOUS
    <3> HIDE DEF Steps
    <3> QED
      BY <2>2, <3>1
  <2>4. n - 1 \in Nat /\ ~(n <= n - 1)
    BY <2>2, <2>3
  <2>5. n - 1 \notin Missing
    BY <2>1, <2>4 DEF n
  <2>6. PICK g : Steps(g, n - 1)
    BY <2>4, <2>5
  <2> DEFINE h == [i \in 0..n |-> IF i = n THEN After(g[n - 1], file, n) ELSE g[i]]
  <2>7. ASSUME NEW i \in 0..n PROVE h[i] = IF i = 0 THEN Begins(file) ELSE After(h[i - 1], file, i)
    <3>1. CASE i = n
      <4>1. h[i] = After(g[n - 1], file, n)
        BY <3>1
      <4>2. h[n - 1] = g[n - 1]
        <5>1. n - 1 \in 0..n /\ n - 1 # n
          BY <2>2, <2>4
        <5> QED
          BY <5>1
      <4> HIDE DEF h
      <4> QED
        BY <2>3, <3>1, <4>1, <4>2
    <3>2. CASE i # n
      <4>1. i \in 0..(n - 1) /\ h[i] = g[i]
        BY <2>2, <3>2
      <4>2. i # 0 => i - 1 \in 0..n /\ i - 1 # n /\ h[i - 1] = g[i - 1]
        BY <2>2, <3>2
      <4>3. g[i] = IF i = 0 THEN Begins(file) ELSE After(g[i - 1], file, i)
        BY <2>6, <4>1
      <4> HIDE DEF h
      <4> QED
        BY <4>1, <4>2, <4>3
    <3> QED
      BY <3>1, <3>2
  <2>8. Steps(h, n)
    BY <2>7
  <2> QED
    BY <2>2, <2>8
<1> DEFINE Of(n) == CHOOSE g : Steps(g, n)
           F == [n \in Nat |-> Of(n)[n]]
<1>3. ASSUME NEW n \in Nat PROVE Steps(Of(n), n)
  <2> HIDE DEF Steps
  <2> QED
    BY <1>2
<1>4. ASSUME NEW n \in Nat PROVE F[n] = IF n = 0 THEN Begins(file) ELSE After(F[n - 1], file, n)
  <2>1. Of(n)[n] = IF n = 0 THEN Begins(file) ELSE After(Of(n)[n - 1], file, n)
    <3>1. n \in 0..n
      OBVIOUS
    <3> HIDE DEF Of
    <3> QED
      BY <1>3, <3>1
  <2>2. n # 0 => Of(n)[n - 1] = Of(n - 1)[n - 1]
    <3> SUFFICES ASSUME n # 0 PROVE Of(n)[n - 1] = Of(n - 1)[n - 1]
      OBVIOUS
    <3>1. n - 1 \in Nat /\ n - 1 \in 0..n /\ n - 1 <= n - 1
      OBVIOUS
    <3> HIDE DEF Of, Steps
    <3> QED
      BY <1>1, <1>3, <3>1
  <2>3. F[n] = Of(n)[n] /\ (n # 0 => F[n - 1] = Of(n - 1)[n - 1])
    <3>1. n # 0 => n - 1 \in Nat
      OBVIOUS
    <3> HIDE DEF Of
    <3> QED
      BY <3>1
  <2> HIDE DEF F, Of
  <2> QED
    BY <2>1, <2>2, <2>3
<1>5. F = [n \in Nat |-> IF n = 0 THEN Begins(file) ELSE After(F[n - 1], file, n)]
  <2>1. F = [n \in Nat |-> F[n]]
    BY DEF F
  <2> HIDE DEF F
  <2> QED
    BY <1>4, <2>1
<1> HIDE DEF F
<1>6. Reads(file) = [n \in Nat |-> IF n = 0 THEN Begins(file)
                                  ELSE After(Reads(file)[n - 1], file, n)]
  BY <1>5 DEF Reads
<1>7. Reads(file)[0] = Begins(file)
  BY <1>6
<1>8. ASSUME NEW n \in Nat PROVE Reads(file)[n + 1] = After(Reads(file)[n], file, n + 1)
  <2>1. n + 1 \in Nat /\ n + 1 # 0 /\ (n + 1) - 1 = n
    OBVIOUS
  <2> QED
    BY <1>6, <2>1
<1> QED
  BY <1>7, <1>8

-----------------------------------------------------------------------------
(* What the helpers find in a list and do with it.                          *)
LEMMA ListIs ==
  ASSUME NEW E, NEW list \in Seq(E)
  PROVE  /\ Len(list) \in Nat /\ DOMAIN list = 1..Len(list)
         /\ ToSet(list) \subseteq E
         /\ \A i \in DOMAIN list : list[i] \in ToSet(list)
         /\ \A e \in ToSet(list) : \E i \in DOMAIN list : list[i] = e
<1>1. Len(list) \in Nat /\ DOMAIN list = 1..Len(list) /\ \A i \in 1..Len(list) : list[i] \in E
  BY LenProperties, ElementOfSeq
<1> QED
  BY <1>1 DEF ToSet

LEMMA FirstIs ==
  ASSUME NEW D, NEW devices \in Seq(D), NEW type
  PROVE  \/ FirstOf(devices, type) = NoDevice
         \/ FirstOf(devices, type) \in ToSet(devices) /\ FirstOf(devices, type).type = type
<1> DEFINE found == { i \in DOMAIN devices : devices[i].type = type }
<1>1. found \in SUBSET Nat /\ found \subseteq DOMAIN devices
  BY ListIs
<1>2. CASE found = {}
  BY <1>2 DEF FirstOf
<1>3. CASE found # {}
  <2>1. Min(found) \in found
    BY <1>1, <1>3, LeastIs
  <2>2. FirstOf(devices, type) = devices[Min(found)]
    BY <1>3 DEF FirstOf
  <2>3. devices[Min(found)].type = type /\ Min(found) \in DOMAIN devices
    BY <2>1
  <2> QED
    BY <2>2, <2>3, ListIs
<1> QED
  BY <1>2, <1>3

LEMMA DataIs ==
  ASSUME NEW E, NEW list \in Seq(E), NEW attr, NEW e \in GetData(list, attr), e.type = "ctrl"
  PROVE  e \in ToSet(list) /\ e.attr = attr
<1> DEFINE found == { i \in DOMAIN list : list[i].type = "ctrl" /\ list[i].attr = attr }
<1>1. found \in SUBSET Nat /\ found \subseteq DOMAIN list
  BY ListIs
<1>2. CASE found # {}
  <2>1. Min(found) \in found
    BY <1>1, <1>2, LeastIs
  <2>2. e = list[Min(found)]
    BY <1>2 DEF GetData
  <2>3. list[Min(found)].attr = attr /\ Min(found) \in DOMAIN list
    BY <2>1
  <2> QED
    BY <2>2, <2>3, ListIs
<1>3. CASE found = {}
  <2>1. e.type = "write"
    BY <1>3 DEF GetData
  <2> QED
    BY <2>1
<1> QED
  BY <1>2, <1>3

(* What a list leaves in a control.                                          *)
LEMMA ListSets ==
  ASSUME NEW E, NEW list \in Seq(E), NEW values, NEW refused, NEW c \in DOMAIN values
  PROVE  LET left == SetRouteList(values, list, refused)[c] IN
         /\ c \in refused \/ c \notin NamesIn(ToSet(list)) => left = values[c]
         /\ left = values[c] \/ left \in ValueIn(list, c)
         /\ \/ c \in refused \/ c \notin NamesIn(ToSet(list))
            \/ \E e \in ToSet(list) : e.name = c /\ e.attr = "voice-volume"
            \/ left \in ValueIn(list, c)
<1> DEFINE writes == { i \in DOMAIN list : list[i].name = c /\ list[i].attr # "voice-volume" }
           left == SetRouteList(values, list, refused)[c]
<1>1. left = IF c \in refused \/ writes = {} THEN values[c] ELSE list[Max(writes)].value
  BY DEF SetRouteList
<1>2. Len(list) \in Nat /\ writes \in SUBSET (1..Len(list))
  BY ListIs
<1>3. writes # {} => list[Max(writes)].value \in ValueIn(list, c) /\ c \in NamesIn(ToSet(list))
  <2> SUFFICES ASSUME writes # {}
               PROVE  list[Max(writes)].value \in ValueIn(list, c) /\ c \in NamesIn(ToSet(list))
    OBVIOUS
  <2>1. Max(writes) \in writes
    BY <1>2, GreatestIs
  <2>2. list[Max(writes)].name = c /\ Max(writes) \in DOMAIN list
    BY <2>1
  <2>3. list[Max(writes)] \in ToSet(list)
    BY <2>2, ListIs
  <2> QED
    BY <2>2, <2>3 DEF ValueIn, NamesIn
<1>4. ASSUME c \in NamesIn(ToSet(list)), \A e \in ToSet(list) : e.name = c => e.attr # "voice-volume"
      PROVE  writes # {}
  <2>1. PICK e \in ToSet(list) : e.name = c
    BY <1>4 DEF NamesIn
  <2>2. PICK i \in DOMAIN list : list[i] = e
    BY <2>1, ListIs
  <2>3. i \in writes
    BY <1>4, <2>1, <2>2
  <2> QED
    BY <2>3
<1> HIDE DEF writes, left
<1>5. /\ c \in refused \/ c \notin NamesIn(ToSet(list)) => left = values[c]
      /\ left = values[c] \/ left \in ValueIn(list, c)
  BY <1>1, <1>3
<1>6. \/ c \in refused \/ c \notin NamesIn(ToSet(list))
      \/ \E e \in ToSet(list) : e.name = c /\ e.attr = "voice-volume"
      \/ left \in ValueIn(list, c)
  BY <1>1, <1>3, <1>4
<1> QED
  BY <1>5, <1>6 DEF left

LEMMA ListKeepsDomain ==
  ASSUME NEW values, NEW list, NEW refused
  PROVE  DOMAIN SetRouteList(values, list, refused) = DOMAIN values
  BY DEF SetRouteList

LEMMA EmptyList == ToSet(<< >>) = {} /\ \A c : ValueIn(<< >>, c) = {}
<1>1. ToSet(<< >>) = {}
  BY DEF ToSet
<1> QED
  BY <1>1 DEF ValueIn

LEMMA ValuesAre ==
  ASSUME NEW list, NEW c
  PROVE  c \in NamesIn(ToSet(list)) <=> ValueIn(list, c) # {}
  BY DEF ValueIn, NamesIn

LEMMA NoDeviceIs ==
  /\ NoDevice.enable = << >> /\ NoDevice.disable = << >>
  /\ ToSet(NoDevice.enable) = {} /\ ToSet(NoDevice.disable) = {}
  /\ NamesIn(ToSet(NoDevice.enable)) = {} /\ NamesIn(ToSet(NoDevice.disable)) = {}
  /\ \A c : ValueIn(NoDevice.enable, c) = {} /\ ValueIn(NoDevice.disable, c) = {}
<1>1. NoDevice.enable = << >> /\ NoDevice.disable = << >>
  BY DEF NoDevice
<1> QED
  BY <1>1, EmptyList DEF NamesIn

-----------------------------------------------------------------------------
(* What a mixer consists of that has read some of a file.                    *)
Entries(file) ==
  { [type |-> tag.elem, name |-> tag.name, value |-> tag.value, attr |-> tag.attr] :
      tag \in { t \in ToSet(Configs[file]) : t.name # "none" } }
DeviceTypes == {NoType} \cup ({"out"} \X OutputTypes) \cup ({"in"} \X InputTypes)
DeviceSet(file) ==
  [type : DeviceTypes, enable : Seq(Entries(file)), disable : Seq(Entries(file))]
PropSet(file) == {NoProps} \cup { tag.props : tag \in ToSet(Configs[file]) }
MixerSet(file) ==
  [AllDirections -> [props : PropSet(file), devices : Seq(DeviceSet(file)),
                     state : BOOLEAN, device_current : DeviceSet(file)]]
Currents(m, d) == DevicesOf(m, d) \cup {NoDevice}

LEMMA NoDeviceTyped == ASSUME NEW file PROVE NoDevice \in DeviceSet(file)
  BY EmptySeq DEF NoDevice, DeviceSet, DeviceTypes

LEMMA CurrentsAre ==
  ASSUME NEW file, NEW m \in MixerSet(file), NEW d \in AllDirections, NEW v \in Currents(m, d)
  PROVE  /\ v \in DeviceSet(file)
         /\ v.enable \in Seq(Entries(file)) /\ v.disable \in Seq(Entries(file))
         /\ ToSet(v.enable) \cup ToSet(v.disable) \subseteq ListsOf(m, d)
<1>1. m[d].devices \in Seq(DeviceSet(file))
  BY DEF MixerSet
<1>2. v \in DeviceSet(file)
  BY <1>1, ListIs, NoDeviceTyped DEF Currents, DevicesOf
<1>3. ToSet(v.enable) \cup ToSet(v.disable) \subseteq ListsOf(m, d)
  BY NoDeviceIs DEF ListsOf, Currents
<1> QED
  BY <1>2, <1>3 DEF DeviceSet

LEMMA SuitsNoDevice ==
  ASSUME NEW m, NEW c, NEW value
  PROVE  Suits(m, NoDevice, c, value) <=>
           (ValueIn(Shared(m).enable, c) # {} => value \in ValueIn(Shared(m).enable, c))
  BY NoDeviceIs DEF Suits

LEMMA AskedAre ==
  ASSUME NEW m, NEW c
  PROVE  /\ c \in AskedControls(m) <=> /\ c \notin InputNames(m)
                               /\ \E u \in DevicesOf(m, "output") : ValueIn(u.enable, c) # {}
<1>1. \A u : c \in NamesIn(ToSet(u.enable)) <=> ValueIn(u.enable, c) # {}
  BY ValuesAre
<1>2. c \in AskedControls(m) <=> /\ c \notin InputNames(m)
                         /\ \E u \in DevicesOf(m, "output") : c \in NamesIn(ToSet(u.enable))
  BY DEF AskedControls
<1> QED
  BY <1>1, <1>2

LEMMA SharedIs ==
  ASSUME NEW file, NEW m \in MixerSet(file)
  PROVE  /\ Shared(m) \in Currents(m, "output")
         /\ Shared(m) = FirstOf(m["output"].devices, <<"out", "default">>)
<1>1. m["output"].devices \in Seq(DeviceSet(file))
  BY DEF MixerSet, AllDirections
<1> QED
  BY <1>1, FirstIs DEF Shared, Currents, DevicesOf

(* What nobody asks for suits everybody.                                     *)
LEMMA UnaskedSuits ==
  ASSUME NEW file, NEW m \in MixerSet(file), NEW u \in Currents(m, "output"),
         NEW c, c \notin AskedControls(m), c \notin InputNames(m), NEW value
  PROVE  Suits(m, u, c, value)
<1>1. \A v \in Currents(m, "output") : ValueIn(v.enable, c) = {}
  BY AskedAre, NoDeviceIs DEF Currents
<1> QED
  BY <1>1, SharedIs DEF Suits

LEMMA OutputsUndo ==
  ASSUME NEW file, NEW m \in MixerSet(file), Undoes(m), NEW v \in Currents(m, "output")
  PROVE  /\ OutputUndoes(m, v)
         /\ \A e \in ToSet(v.enable) \cup ToSet(v.disable) : e.attr # "voice-volume"
<1>1. "output" \in AllDirections
  BY DEF AllDirections
<1>2. \A e \in ToSet(v.enable) \cup ToSet(v.disable) : e.attr # "voice-volume"
  BY <1>1, CurrentsAre DEF Undoes
<1>3. OutputUndoes(m, NoDevice)
  BY NoDeviceIs DEF OutputUndoes
<1> QED
  BY <1>2, <1>3 DEF Undoes, Currents

LEMMA ModemsUndo ==
  ASSUME NEW m, Undoes(m), NEW v \in Currents(m, "modem")
  PROVE  ModemUndoes(m, v)
<1>1. ModemUndoes(m, NoDevice)
  BY NoDeviceIs DEF ModemUndoes
<1> QED
  BY <1>1 DEF Undoes, Currents

-----------------------------------------------------------------------------
(* A switch.                                                                 *)
LEMMA SwitchOff ==
  ASSUME NEW file, NEW m \in MixerSet(file), Undoes(m), NEW v \in Currents(m, "output"),
         NEW ct, NEW refused, NEW c \in DOMAIN ct, c \in Switches(m), c \notin refused,
         ct[c] = On => On \in ValueIn(v.enable, c)
  PROVE  SetRouteList(ct, v.disable, refused)[c] # On
<1> DEFINE left == SetRouteList(ct, v.disable, refused)[c]
<1>1. v.disable \in Seq(Entries(file))
  BY CurrentsAre DEF AllDirections
<1>2. /\ On \notin ValueIn(v.disable, c)
      /\ On \in ValueIn(v.enable, c) => c \in NamesIn(ToSet(v.disable))
      /\ \A e \in ToSet(v.disable) : e.attr # "voice-volume"
  BY OutputsUndo DEF OutputUndoes
<1>3. /\ left = ct[c] \/ left \in ValueIn(v.disable, c)
      /\ c \in NamesIn(ToSet(v.disable)) => left \in ValueIn(v.disable, c)
  BY <1>1, <1>2, ListSets
<1> HIDE DEF left
<1>4. left # On
  BY <1>2, <1>3
<1> QED
  BY <1>4 DEF left

LEMMA SwitchOn ==
  ASSUME NEW file, NEW m \in MixerSet(file), Undoes(m), NEW v \in Currents(m, "output"),
         NEW ct, NEW refused, NEW c \in DOMAIN ct, c \in Switches(m), c \notin refused, ct[c] # On
  PROVE  SetRouteList(ct, v.enable, refused)[c] = On <=> On \in ValueIn(v.enable, c)
<1> DEFINE left == SetRouteList(ct, v.enable, refused)[c]
<1>1. v.enable \in Seq(Entries(file))
  BY CurrentsAre DEF AllDirections
<1>2. /\ On \in ValueIn(v.enable, c) => ValueIn(v.enable, c) = {On}
      /\ \A e \in ToSet(v.enable) : e.attr # "voice-volume"
  BY OutputsUndo DEF OutputUndoes
<1>3. /\ left = ct[c] \/ left \in ValueIn(v.enable, c)
      /\ c \in NamesIn(ToSet(v.enable)) => left \in ValueIn(v.enable, c)
  BY <1>1, <1>2, ListSets
<1> HIDE DEF left
<1>4. left = On <=> On \in ValueIn(v.enable, c)
  BY <1>2, <1>3, ValuesAre
<1> QED
  BY <1>4 DEF left

(* The lists of the inputs and the modem, and that of the default device,    *)
(* leave it alone.                                                           *)
LEMMA SwitchAlone ==
  ASSUME NEW file, NEW m \in MixerSet(file), Undoes(m), NEW list \in Seq(Entries(file)),
         \/ ToSet(list) \subseteq ListsOf(m, "input") \cup ListsOf(m, "modem")
         \/ list = Shared(m).enable,
         NEW ct, NEW refused, NEW c \in DOMAIN ct, c \in Switches(m)
  PROVE  SetRouteList(ct, list, refused)[c] = ct[c]
<1>1. c \notin NamesIn(ToSet(list))
  BY DEF Undoes, Switches, InputNames, NamesIn
<1> QED
  BY <1>1, ListSets

-----------------------------------------------------------------------------
(* A control that a device of the output asks for.                           *)
LEMMA SuitsRoute ==
  ASSUME NEW file, NEW m \in MixerSet(file), Undoes(m), NEW old \in Currents(m, "output"),
         NEW new \in Currents(m, "output"), NEW ct, NEW refused, NEW c \in DOMAIN ct,
         c \notin InputNames(m), c \notin refused, Suits(m, old, c, ct[c])
  PROVE  LET left == SetRouteList(ct, old.disable, refused) IN
         Suits(m, new, c, SetRouteList(left, new.enable, refused)[c])
<1> DEFINE left == SetRouteList(ct, old.disable, refused)
           x == left[c]
           y == SetRouteList(left, new.enable, refused)[c]
           own == ValueIn(new.enable, c)
           common == ValueIn(Shared(m).enable, c)
<1>1. old.disable \in Seq(Entries(file)) /\ new.enable \in Seq(Entries(file))
  BY CurrentsAre DEF AllDirections
<1>2. c \in DOMAIN left
  BY ListKeepsDomain
<1>3. /\ \A e \in ToSet(old.disable) : e.attr # "voice-volume"
      /\ \A e \in ToSet(new.enable) : e.attr # "voice-volume"
  BY OutputsUndo
<1>4. /\ ValueIn(old.disable, c) # {} => x \in ValueIn(old.disable, c)
      /\ ValueIn(old.disable, c) = {} => x = ct[c]
  BY <1>1, <1>3, ListSets, ValuesAre
<1>5. /\ own # {} => y \in own
      /\ own = {} => y = x
  <2> HIDE DEF left
  <2> QED
    BY <1>1, <1>2, <1>3, ListSets, ValuesAre
<1>6. common # {} => IF ValueIn(old.disable, c) # {} THEN ValueIn(old.disable, c) \subseteq common
                     ELSE ValueIn(old.enable, c) \subseteq common
  BY OutputsUndo, ValuesAre DEF OutputUndoes
<1>7. IF ValueIn(old.enable, c) # {} THEN ct[c] \in ValueIn(old.enable, c)
      ELSE common # {} => ct[c] \in common
  BY DEF Suits
<1> HIDE DEF x, y
<1>8. IF own # {} THEN y \in own ELSE common # {} => y \in common
  BY <1>4, <1>5, <1>6, <1>7
<1>9. Suits(m, new, c, y)
  BY <1>8 DEF Suits
<1> QED
  BY <1>9 DEF y

(* After a list of the modem that has something for it: what undoes a device *)
(* suits whatever device the output has.                                     *)
LEMMA SuitsUndone ==
  ASSUME NEW file, NEW m \in MixerSet(file), Undoes(m), NEW v \in Currents(m, "modem"),
         NEW u \in Currents(m, "output"), NEW ct, NEW refused, NEW c \in DOMAIN ct,
         c \in AskedControls(m), c \notin refused,
         Suits(m, u, c, ct[c]) \/ c \in NamesIn(ToSet(v.enable))
  PROVE  Suits(m, u, c, SetRouteList(ct, v.disable, refused)[c])
<1> DEFINE x == SetRouteList(ct, v.disable, refused)[c]
<1>1. v.disable \in Seq(Entries(file))
  BY CurrentsAre DEF AllDirections
<1>2. /\ c \in NamesIn(ToSet(v.enable)) => c \in NamesIn(ToSet(v.disable))
      /\ \A value \in ValueIn(v.disable, c) : Suits(m, u, c, value)
      /\ \A e \in ToSet(v.disable) : e.name = c => e.attr # "voice-volume"
  BY ModemsUndo DEF ModemUndoes, Currents
<1>3. /\ c \in NamesIn(ToSet(v.disable)) => x \in ValueIn(v.disable, c)
      /\ c \notin NamesIn(ToSet(v.disable)) => x = ct[c]
  BY <1>1, <1>2, ListSets
<1> HIDE DEF x
<1>4. Suits(m, u, c, x)
  BY <1>2, <1>3
<1> QED
  BY <1>4 DEF x

-----------------------------------------------------------------------------
(* The controls follow the routes, of the mixer mx that has read m, with the *)
(* values ct, but for the refused ones, rf; and while a call runs but for    *)
(* what the modem's device and its default one may have set.                 *)
ModemDefault(m) == FirstOf(m["modem"].devices, <<"out", "default">>)
ModemMay(m, mx) ==
  NamesIn(ToSet(mx["modem"].device_current.enable)) \cup NamesIn(ToSet(ModemDefault(m).enable))
SwitchesFollow(m, v, ct, rf) ==
  \A c \in Switches(m) \ rf :
    c \in DOMAIN ct => (ct[c] = On <=> On \in ValueIn(v.enable, c))
Following(m, mx, ct, rf) ==
  LET current == mx["output"].device_current IN
  /\ SwitchesFollow(m, current, ct, rf)
  /\ mx["output"].state =>
       \A c \in AskedControls(m) \ rf : c \in DOMAIN ct =>
         Suits(m, current, c, ct[c]) \/ (mx["modem"].state /\ c \in ModemMay(m, mx))

(* A direction has a device only while it runs.                              *)
Held(m, mx) ==
  \A d \in AllDirections : /\ mx[d].device_current \in Currents(m, d)
                           /\ ~mx[d].state => mx[d].device_current = NoDevice

LEMMA ModemDefaultIs ==
  ASSUME NEW file, NEW m \in MixerSet(file) PROVE ModemDefault(m) \in Currents(m, "modem")
<1>1. m["modem"].devices \in Seq(DeviceSet(file))
  BY DEF MixerSet, AllDirections
<1> QED
  BY <1>1, FirstIs DEF ModemDefault, Currents, DevicesOf

LEMMA KeepsFollowing ==
  ASSUME NEW m, NEW mx, NEW nx, NEW ct, NEW nt, NEW rf, Following(m, mx, ct, rf),
         nx["output"] = mx["output"], nx["modem"] = mx["modem"], DOMAIN nt = DOMAIN ct,
         \A c \in DOMAIN ct : c \in Switches(m) \cup AskedControls(m) => nt[c] = ct[c]
  PROVE  Following(m, nx, nt, rf)
<1>1. ModemMay(m, nx) = ModemMay(m, mx)
  BY DEF ModemMay
<1> QED
  BY <1>1 DEF Following, SwitchesFollow

LEMMA MoreRefused ==
  ASSUME NEW m, NEW mx, NEW ct, NEW rf, NEW rf2, rf \subseteq rf2, Following(m, mx, ct, rf)
  PROVE  Following(m, mx, ct, rf2)
  BY DEF Following, SwitchesFollow

(* A route of the output.                                                    *)
LEMMA SwitchesRoute ==
  ASSUME NEW file, NEW m \in MixerSet(file), Undoes(m), NEW old \in Currents(m, "output"),
         NEW new \in Currents(m, "output"), NEW ct, NEW rf, NEW refused, refused \subseteq rf,
         SwitchesFollow(m, old, ct, rf)
  PROVE  /\ SwitchesFollow(m, NoDevice, SetRouteList(ct, old.disable, refused), rf)
         /\ SwitchesFollow(m, new, SetRouteList(SetRouteList(ct, old.disable, refused),
                                                new.enable, refused), rf)
<1> DEFINE left == SetRouteList(ct, old.disable, refused)
           nt == SetRouteList(left, new.enable, refused)
<1>1. DOMAIN left = DOMAIN ct /\ DOMAIN nt = DOMAIN ct
  BY ListKeepsDomain
<1>2. ASSUME NEW c \in Switches(m) \ rf, c \in DOMAIN ct PROVE left[c] # On
  <2>1. ct[c] = On <=> On \in ValueIn(old.enable, c)
    BY <1>2 DEF SwitchesFollow
  <2> QED
    BY <1>2, <2>1, SwitchOff
<1>3. ASSUME NEW c \in Switches(m) \ rf, c \in DOMAIN ct
      PROVE  nt[c] = On <=> On \in ValueIn(new.enable, c)
  <2>1. left[c] # On /\ c \in DOMAIN left
    BY <1>1, <1>2, <1>3
  <2> HIDE DEF left
  <2> QED
    BY <2>1, SwitchOn
<1>4. \A c : On \notin ValueIn(NoDevice.enable, c)
  BY NoDeviceIs
<1> HIDE DEF left, nt
<1>5. SwitchesFollow(m, NoDevice, left, rf) /\ SwitchesFollow(m, new, nt, rf)
  BY <1>1, <1>2, <1>3, <1>4 DEF SwitchesFollow
<1> QED
  BY <1>5 DEF left, nt

LEMMA OutputRoutes ==
  ASSUME NEW file, NEW m \in MixerSet(file), Undoes(m), NEW mx, NEW nx, NEW ct, NEW rf,
         NEW refused, refused \subseteq rf, Held(m, mx), Following(m, mx, ct, rf),
         mx["output"].state, nx["modem"] = mx["modem"],
         NEW new \in Currents(m, "output"), nx["output"].device_current = new
  PROVE  LET left == SetRouteList(ct, mx["output"].device_current.disable, refused) IN
         Following(m, nx, SetRouteList(left, new.enable, refused), rf)
<1> DEFINE old == mx["output"].device_current
           left == SetRouteList(ct, old.disable, refused)
           nt == SetRouteList(left, new.enable, refused)
<1>1. old \in Currents(m, "output")
  BY DEF Held, AllDirections
<1>2. SwitchesFollow(m, new, nt, rf)
  BY <1>1, SwitchesRoute DEF Following
<1>3. DOMAIN nt = DOMAIN ct
  BY ListKeepsDomain
<1>4. ModemMay(m, nx) = ModemMay(m, mx)
  BY DEF ModemMay
<1>5. ASSUME NEW c \in AskedControls(m) \ rf, c \in DOMAIN ct
      PROVE  Suits(m, new, c, nt[c]) \/ (nx["modem"].state /\ c \in ModemMay(m, nx))
  <2>1. Suits(m, old, c, ct[c]) \/ (mx["modem"].state /\ c \in ModemMay(m, mx))
    BY <1>5 DEF Following
  <2>2. Suits(m, old, c, ct[c]) => Suits(m, new, c, nt[c])
    BY <1>1, <1>5, AskedAre, SuitsRoute
  <2> QED
    BY <1>4, <2>1, <2>2
<1> HIDE DEF nt
<1>6. Following(m, nx, nt, rf)
  BY <1>2, <1>3, <1>5 DEF Following
<1> QED
  BY <1>6 DEF nt

(* The output begins with the default device, whatever there was.            *)
LEMMA OutputBegins ==
  ASSUME NEW file, NEW m \in MixerSet(file), Undoes(m), NEW mx, NEW nx, NEW ct, NEW rf,
         NEW refused, refused \subseteq rf, Following(m, mx, ct, rf),
         mx["output"].device_current = NoDevice, nx["output"].device_current = NoDevice
  PROVE  Following(m, nx, SetRouteList(ct, Shared(m).enable, refused), rf)
<1> DEFINE nt == SetRouteList(ct, Shared(m).enable, refused)
<1>1. DOMAIN nt = DOMAIN ct
  BY ListKeepsDomain
<1>2. Shared(m) \in Currents(m, "output")
  BY SharedIs
<1>3. Shared(m).enable \in Seq(Entries(file))
  BY <1>2, CurrentsAre DEF AllDirections
<1>4. ASSUME NEW c \in Switches(m) \ rf, c \in DOMAIN ct PROVE nt[c] = ct[c]
  BY <1>3, <1>4, SwitchAlone
<1>5. ASSUME NEW c \in AskedControls(m) \ rf, c \in DOMAIN ct PROVE Suits(m, NoDevice, c, nt[c])
  <2>1. \A e \in ToSet(Shared(m).enable) : e.attr # "voice-volume"
    BY <1>2, OutputsUndo
  <2>2. ValueIn(Shared(m).enable, c) # {} => nt[c] \in ValueIn(Shared(m).enable, c)
    BY <1>3, <1>5, <2>1, ListSets, ValuesAre
  <2> HIDE DEF nt
  <2> QED
    BY <2>2, SuitsNoDevice
<1> HIDE DEF nt
<1>6. Following(m, nx, nt, rf)
  BY <1>1, <1>4, <1>5 DEF Following, SwitchesFollow
<1> QED
  BY <1>6 DEF nt

(* It ends with what its device and the default one undo.                    *)
LEMMA OutputEnds ==
  ASSUME NEW file, NEW m \in MixerSet(file), Undoes(m), NEW mx, NEW nx, NEW ct, NEW rf,
         NEW refused, refused \subseteq rf, Held(m, mx), Following(m, mx, ct, rf),
         nx["output"].device_current = NoDevice, ~nx["output"].state
  PROVE  LET left == SetRouteList(ct, mx["output"].device_current.disable, refused) IN
         Following(m, nx, SetRouteList(left, Shared(m).disable, refused), rf)
<1> DEFINE old == mx["output"].device_current
           left == SetRouteList(ct, old.disable, refused)
           nt == SetRouteList(left, Shared(m).disable, refused)
<1>1. old \in Currents(m, "output") /\ Shared(m) \in Currents(m, "output")
  BY SharedIs DEF Held, AllDirections
<1>2. SwitchesFollow(m, NoDevice, left, rf)
  BY <1>1, SwitchesRoute DEF Following
<1>3. DOMAIN nt = DOMAIN left
  BY ListKeepsDomain
<1> HIDE DEF left
<1>4. ASSUME NEW c \in Switches(m) \ rf, c \in DOMAIN left PROVE nt[c] # On
  <2>1. left[c] # On
    BY <1>2, <1>4, NoDeviceIs DEF SwitchesFollow
  <2> QED
    BY <1>1, <1>4, <2>1, SwitchOff
<1>5. SwitchesFollow(m, NoDevice, nt, rf)
  <2> HIDE DEF nt
  <2> QED
    BY <1>3, <1>4, NoDeviceIs DEF SwitchesFollow
<1>6. Following(m, nx, nt, rf)
  BY <1>5 DEF Following
<1> QED
  BY <1>6 DEF left

-----------------------------------------------------------------------------
(* A call writes no switch, and leaves the output's controls to its device,  *)
(* which puts them back.                                                     *)
LEMMA ModemKeeps ==
  ASSUME NEW m, NEW mx, NEW nx, NEW ct, NEW nt, NEW rf, Following(m, mx, ct, rf),
         nx["output"] = mx["output"], DOMAIN nt = DOMAIN ct,
         \A c \in Switches(m) : c \in DOMAIN ct => nt[c] = ct[c],
         \A c \in AskedControls(m) \ rf, u \in {mx["output"].device_current} :
           c \in DOMAIN ct /\ (Suits(m, u, c, ct[c]) \/ (mx["modem"].state /\ c \in ModemMay(m, mx))) =>
             Suits(m, u, c, nt[c]) \/ (nx["modem"].state /\ c \in ModemMay(m, nx))
  PROVE  Following(m, nx, nt, rf)
  BY DEF Following, SwitchesFollow

LEMMA ModemListsAre ==
  ASSUME NEW file, NEW m \in MixerSet(file), NEW v \in Currents(m, "modem")
  PROVE  /\ v.enable \in Seq(Entries(file)) /\ v.disable \in Seq(Entries(file))
         /\ ToSet(v.enable) \subseteq ListsOf(m, "modem")
         /\ ToSet(v.disable) \subseteq ListsOf(m, "modem")
  BY CurrentsAre DEF AllDirections

LEMMA ModemRoutes ==
  ASSUME NEW file, NEW m \in MixerSet(file), Undoes(m), NEW mx, NEW nx, NEW ct, NEW rf,
         NEW refused, refused \subseteq rf, Held(m, mx), Following(m, mx, ct, rf),
         nx["output"] = mx["output"], nx["modem"].state,
         NEW new \in Currents(m, "modem"), nx["modem"].device_current = new
  PROVE  LET left == SetRouteList(ct, mx["modem"].device_current.disable, refused) IN
         Following(m, nx, SetRouteList(left, new.enable, refused), rf)
<1> DEFINE old == mx["modem"].device_current
           u == mx["output"].device_current
           left == SetRouteList(ct, old.disable, refused)
           nt == SetRouteList(left, new.enable, refused)
<1>1. old \in Currents(m, "modem") /\ u \in Currents(m, "output")
  BY DEF Held, AllDirections
<1>2. DOMAIN left = DOMAIN ct /\ DOMAIN nt = DOMAIN ct
  BY ListKeepsDomain
<1>3. ASSUME NEW c \in Switches(m), c \in DOMAIN ct PROVE nt[c] = ct[c]
  <2>1. left[c] = ct[c]
    BY <1>1, <1>3, ModemListsAre, SwitchAlone
  <2> HIDE DEF left
  <2>2. nt[c] = left[c]
    BY <1>2, <1>3, ModemListsAre, SwitchAlone
  <2> QED
    BY <2>1, <2>2
<1>4. ASSUME NEW c \in AskedControls(m) \ rf, c \in DOMAIN ct,
             Suits(m, u, c, ct[c]) \/ c \in ModemMay(m, mx)
      PROVE  Suits(m, u, c, nt[c]) \/ c \in ModemMay(m, nx)
  <2>1. Suits(m, u, c, ct[c]) \/ c \in NamesIn(ToSet(old.enable)) => Suits(m, u, c, left[c])
    BY <1>1, <1>4, SuitsUndone
  <2> HIDE DEF left
  <2>2. c \notin NamesIn(ToSet(new.enable)) => nt[c] = left[c]
    BY <1>2, <1>4, ModemListsAre, ListSets
  <2> HIDE DEF nt
  <2> QED
    BY <1>4, <2>1, <2>2 DEF ModemMay
<1> HIDE DEF nt
<1>5. Following(m, nx, nt, rf)
  BY <1>2, <1>3, <1>4, ModemKeeps
<1> QED
  BY <1>5 DEF nt

LEMMA ModemBegins ==
  ASSUME NEW file, NEW m \in MixerSet(file), Undoes(m), NEW mx, NEW nx, NEW ct, NEW rf,
         NEW refused, Following(m, mx, ct, rf),
         nx["output"] = mx["output"], ~mx["modem"].state, nx["modem"].state
  PROVE  Following(m, nx, SetRouteList(ct, ModemDefault(m).enable, refused), rf)
<1> DEFINE list == ModemDefault(m).enable
           nt == SetRouteList(ct, list, refused)
           u == mx["output"].device_current
<1>1. list \in Seq(Entries(file)) /\ ToSet(list) \subseteq ListsOf(m, "modem")
  BY ModemDefaultIs, ModemListsAre
<1>2. DOMAIN nt = DOMAIN ct
  BY ListKeepsDomain
<1>3. ASSUME NEW c \in Switches(m), c \in DOMAIN ct PROVE nt[c] = ct[c]
  BY <1>1, <1>3, SwitchAlone
<1>4. ASSUME NEW c \in DOMAIN ct, Suits(m, u, c, ct[c])
      PROVE  Suits(m, u, c, nt[c]) \/ c \in ModemMay(m, nx)
  <2>1. c \notin NamesIn(ToSet(list)) => nt[c] = ct[c]
    BY <1>1, ListSets
  <2> HIDE DEF nt
  <2> QED
    BY <1>4, <2>1 DEF ModemMay
<1> HIDE DEF nt
<1>5. Following(m, nx, nt, rf)
  BY <1>2, <1>3, <1>4, ModemKeeps
<1> QED
  BY <1>5 DEF nt

LEMMA ModemEnds ==
  ASSUME NEW file, NEW m \in MixerSet(file), Undoes(m), NEW mx, NEW nx, NEW ct, NEW rf,
         NEW refused, refused \subseteq rf, Held(m, mx), Following(m, mx, ct, rf),
         nx["output"] = mx["output"]
  PROVE  LET left == SetRouteList(ct, mx["modem"].device_current.disable, refused) IN
         Following(m, nx, SetRouteList(left, ModemDefault(m).disable, refused), rf)
<1> DEFINE old == mx["modem"].device_current
           last == ModemDefault(m)
           u == mx["output"].device_current
           left == SetRouteList(ct, old.disable, refused)
           nt == SetRouteList(left, last.disable, refused)
<1>1. old \in Currents(m, "modem") /\ u \in Currents(m, "output")
  BY DEF Held, AllDirections
<1>2. last \in Currents(m, "modem")
  BY ModemDefaultIs
<1>3. DOMAIN left = DOMAIN ct /\ DOMAIN nt = DOMAIN ct
  BY ListKeepsDomain
<1>4. ASSUME NEW c \in Switches(m), c \in DOMAIN ct PROVE nt[c] = ct[c]
  <2>1. left[c] = ct[c]
    BY <1>1, <1>4, ModemListsAre, SwitchAlone
  <2> HIDE DEF left, last
  <2>2. nt[c] = left[c]
    BY <1>2, <1>3, <1>4, ModemListsAre, SwitchAlone
  <2> QED
    BY <2>1, <2>2
<1>5. ASSUME NEW c \in AskedControls(m) \ rf, c \in DOMAIN ct,
             Suits(m, u, c, ct[c]) \/ c \in ModemMay(m, mx)
      PROVE  Suits(m, u, c, nt[c])
  <2>1. Suits(m, u, c, ct[c]) \/ c \in NamesIn(ToSet(old.enable)) => Suits(m, u, c, left[c])
    BY <1>1, <1>5, SuitsUndone
  <2> HIDE DEF left
  <2>2. Suits(m, u, c, left[c]) \/ c \in NamesIn(ToSet(last.enable)) => Suits(m, u, c, nt[c])
    BY <1>1, <1>2, <1>3, <1>5, SuitsUndone
  <2> HIDE DEF nt
  <2> QED
    BY <1>5, <2>1, <2>2 DEF ModemMay
<1> HIDE DEF nt
<1>6. Following(m, nx, nt, rf)
  BY <1>3, <1>4, <1>5, ModemKeeps
<1> QED
  BY <1>6 DEF nt

-----------------------------------------------------------------------------
(* What the inputs set, and the volumes of a call, nobody else asks for.     *)
LEMMA InputSets ==
  ASSUME NEW file, NEW m \in MixerSet(file), Undoes(m), NEW mx, NEW nx, NEW ct, NEW rf,
         NEW refused, Following(m, mx, ct, rf), nx["output"] = mx["output"],
         nx["modem"] = mx["modem"], NEW v \in Currents(m, "input"), NEW list \in {v.enable, v.disable}
  PROVE  Following(m, nx, SetRouteList(ct, list, refused), rf)
<1> DEFINE nt == SetRouteList(ct, list, refused)
<1>1. list \in Seq(Entries(file)) /\ ToSet(list) \subseteq ListsOf(m, "input")
  BY CurrentsAre DEF AllDirections
<1>2. ASSUME NEW c \in DOMAIN ct, c \in Switches(m) \cup AskedControls(m) PROVE nt[c] = ct[c]
  <2>1. CASE c \in Switches(m)
    BY <1>1, <2>1, SwitchAlone
  <2>2. CASE c \in AskedControls(m)
    <3>1. c \notin NamesIn(ToSet(list))
      BY <1>1, <2>2, AskedAre DEF InputNames, NamesIn
    <3> QED
      BY <1>1, <3>1, ListSets
  <2> QED
    BY <1>2, <2>1, <2>2
<1>3. DOMAIN nt = DOMAIN ct
  BY ListKeepsDomain
<1> HIDE DEF nt
<1>4. Following(m, nx, nt, rf)
  BY <1>2, <1>3, KeepsFollowing
<1> QED
  BY <1>4 DEF nt

LEMMA VolumeIsOwn ==
  ASSUME NEW file, NEW m \in MixerSet(file), Undoes(m), NEW v \in Currents(m, "modem"),
         NEW e \in ToSet(v.enable) \cup ToSet(v.disable), e.attr \in {"voice-volume", "mic-mute"},
         NEW ct, NEW nt, NEW mx, NEW rf, Following(m, mx, ct, rf), DOMAIN nt = DOMAIN ct,
         \A c \in DOMAIN ct : c # e.name => nt[c] = ct[c]
  PROVE  Following(m, mx, nt, rf)
<1>1. e.name \notin AskedControls(m)
  BY ModemsUndo DEF ModemUndoes
<1>2. e.name \notin Switches(m)
  BY ModemListsAre DEF Undoes, NamesIn
<1> QED
  BY <1>1, <1>2, KeepsFollowing

-----------------------------------------------------------------------------
(* Reading: what a file may leave in the parser and the directions.          *)
ParserSet(file) ==
  [file : {file}, read : Nat, direction : AllDirections, io_props : PropSet(file),
   type : DeviceTypes, device : DeviceSet(file), list_start : {"none", "enable", "disable"}]
IdleMixers(file) ==
  { m \in MixerSet(file) : \A d \in AllDirections : ~m[d].state /\ m[d].device_current = NoDevice }
ReadSet(file) == [config : ParserSet(file), mixer : IdleMixers(file)]

LEMMA BeginsTyped == ASSUME NEW file PROVE Begins(file) \in ReadSet(file)
<1>1. ParserBegins(file) \in ParserSet(file)
  BY NoDeviceTyped DEF ParserBegins, ParserSet, AllDirections, PropSet, DeviceTypes
<1>2. NoMixer \in IdleMixers(file)
  <2>1. NoDirection \in [props : PropSet(file), devices : Seq(DeviceSet(file)),
                         state : BOOLEAN, device_current : DeviceSet(file)]
    BY NoDeviceTyped, EmptySeq DEF NoDirection, PropSet
  <2>2. ~NoDirection.state /\ NoDirection.device_current = NoDevice
    BY DEF NoDirection
  <2> HIDE DEF NoDirection
  <2> QED
    BY <2>1, <2>2 DEF NoMixer, IdleMixers, MixerSet
<1> QED
  BY <1>1, <1>2 DEF Begins, ReadSet

LEMMA DeviceStartsTyped ==
  ASSUME NEW file, NEW p \in ParserSet(file), NEW tag
  PROVE  DeviceStarts(p, tag) \in ParserSet(file) /\ DeviceStarts(p, tag).read = p.read
<1> DEFINE type == IF Knows(p.direction, tag.type) THEN <<SideOf(p.direction), tag.type>> ELSE p.type
           device == [NoDevice EXCEPT !.type = type]
<1>1. type \in DeviceTypes
  BY DEF ParserSet, DeviceTypes, Knows, SideOf, AllDirections
<1> HIDE DEF type
<1>2. device \in DeviceSet(file)
  BY <1>1, EmptySeq DEF NoDevice, DeviceSet
<1> HIDE DEF device
<1>3. DeviceStarts(p, tag) = IF type = NoType THEN p
                             ELSE [p EXCEPT !.type = type, !.device = device]
  BY DEF DeviceStarts, type, device
<1> QED
  BY <1>1, <1>2, <1>3 DEF ParserSet

LEMMA PathStartsTyped ==
  ASSUME NEW file, NEW p \in ParserSet(file), NEW tag
  PROVE  PathStarts(p, tag) \in ParserSet(file) /\ PathStarts(p, tag).read = p.read
  BY DEF PathStarts, ParserSet

LEMMA ControlStartsTyped ==
  ASSUME NEW file, NEW p \in ParserSet(file), NEW tag \in ToSet(Configs[file])
  PROVE  ControlStarts(p, tag) \in ParserSet(file) /\ ControlStarts(p, tag).read = p.read
<1> DEFINE e == [type |-> tag.elem, name |-> tag.name, value |-> tag.value, attr |-> tag.attr]
<1>1. CASE p.list_start # "none" /\ tag.name # "none"
  <2>1. e \in Entries(file)
    BY <1>1 DEF Entries
  <2> HIDE DEF e
  <2>2. p.device.enable \in Seq(Entries(file)) /\ p.device.disable \in Seq(Entries(file))
    BY DEF ParserSet, DeviceSet
  <2>3. Append(p.device.enable, e) \in Seq(Entries(file)) /\ Append(p.device.disable, e) \in Seq(Entries(file))
    BY <2>1, <2>2, AppendProperties
  <2>4. /\ [p.device EXCEPT !.enable = Append(@, e)] \in DeviceSet(file)
        /\ [p.device EXCEPT !.disable = Append(@, e)] \in DeviceSet(file)
    <3>1. p.device \in DeviceSet(file)
      BY DEF ParserSet
    <3> QED
      BY <2>3, <3>1 DEF DeviceSet
  <2>5. p.list_start = "enable" \/ p.list_start = "disable"
    BY <1>1 DEF ParserSet
  <2>6. ControlStarts(p, tag) \in { p, [p EXCEPT !.device.enable = Append(@, e)],
                                    [p EXCEPT !.device.disable = Append(@, e)] }
    BY <2>5 DEF ControlStarts, e
  <2> QED
    BY <2>4, <2>6 DEF ParserSet
<1>2. CASE ~(p.list_start # "none" /\ tag.name # "none")
  BY <1>2 DEF ControlStarts
<1> QED
  BY <1>1, <1>2

LEMMA StartTyped ==
  ASSUME NEW file, NEW r \in ReadSet(file), NEW tag \in ToSet(Configs[file])
  PROVE  ReadStart(r, tag) \in ReadSet(file) /\ ReadStart(r, tag).config.read = r.config.read
<1> DEFINE p == r.config
           Turned == [p EXCEPT !.direction = tag.elem, !.io_props = tag.props]
           q == CASE tag.elem \in AllDirections -> Turned
                  [] tag.elem = "device" -> DeviceStarts(p, tag)
                  [] tag.elem = "path" -> PathStarts(p, tag)
                  [] tag.elem \in {"ctrl", "write"} -> ControlStarts(p, tag)
                  [] OTHER -> p
<1>1. p \in ParserSet(file) /\ r.mixer \in IdleMixers(file)
  BY DEF ReadSet
<1>2. tag.elem \in AllDirections => Turned \in ParserSet(file) /\ Turned.read = p.read
  BY <1>1 DEF ParserSet, PropSet
<1>3. q \in ParserSet(file) /\ q.read = p.read
  <2> HIDE DEF p, Turned
  <2>1. /\ DeviceStarts(p, tag) \in ParserSet(file) /\ DeviceStarts(p, tag).read = p.read
        /\ PathStarts(p, tag) \in ParserSet(file) /\ PathStarts(p, tag).read = p.read
        /\ ControlStarts(p, tag) \in ParserSet(file) /\ ControlStarts(p, tag).read = p.read
    BY <1>1, DeviceStartsTyped, PathStartsTyped, ControlStartsTyped
  <2>2. CASE tag.elem \in AllDirections
    <3>1. tag.elem \notin {"device", "path", "ctrl", "write"}
      BY <2>2 DEF AllDirections
    <3>2. q = Turned
      BY <2>2, <3>1
    <3> QED
      BY <1>2, <2>2, <3>2
  <2>3. CASE tag.elem \notin AllDirections
    <3>1. q \in {DeviceStarts(p, tag), PathStarts(p, tag), ControlStarts(p, tag), p}
      BY <2>3
    <3> QED
      BY <1>1, <2>1, <3>1
  <2> QED
    BY <2>2, <2>3
<1>4. ReadStart(r, tag) = [r EXCEPT !.config = q]
  BY DEF ReadStart
<1> HIDE DEF q
<1>5. [r EXCEPT !.config = q] \in ReadSet(file) /\ [r EXCEPT !.config = q].config = q
  BY <1>1, <1>3 DEF ReadSet
<1> QED
  BY <1>3, <1>4, <1>5

LEMMA EndTyped ==
  ASSUME NEW file, NEW r \in ReadSet(file), NEW tag
  PROVE  ReadEnd(r, tag) \in ReadSet(file) /\ ReadEnd(r, tag).config.read = r.config.read
<1>1. r.config \in ParserSet(file) /\ r.mixer \in IdleMixers(file)
  BY DEF ReadSet
<1>2. CASE tag.elem \in AllDirections
  <2> DEFINE d == tag.elem
             io == [r.mixer[d] EXCEPT !.props = r.config.io_props]
             mx == [r.mixer EXCEPT ![d] = io]
             p == [r.config EXCEPT !.io_props = NoProps, !.direction = "output"]
  <2>1. /\ io \in [props : PropSet(file), devices : Seq(DeviceSet(file)),
                   state : BOOLEAN, device_current : DeviceSet(file)]
        /\ ~io.state /\ io.device_current = NoDevice
    BY <1>1, <1>2 DEF IdleMixers, MixerSet, ParserSet
  <2>2. p \in ParserSet(file) /\ p.read = r.config.read
    BY <1>1 DEF ParserSet, PropSet, AllDirections
  <2>3. ReadEnd(r, tag) = [r EXCEPT !.mixer = mx, !.config = p]
    <3>1. tag.elem \notin {"device", "path"}
      BY <1>2 DEF AllDirections
    <3> QED
      BY <1>1, <1>2, <3>1 DEF ReadEnd, ReadSet
  <2> HIDE DEF io, p
  <2>4. mx \in IdleMixers(file)
    BY <1>1, <1>2, <2>1 DEF IdleMixers, MixerSet
  <2> HIDE DEF mx
  <2> QED
    BY <2>2, <2>3, <2>4 DEF ReadSet
<1>3. CASE tag.elem = "device"
  <2> DEFINE d == r.config.direction
             io == [r.mixer[d] EXCEPT !.devices = Append(@, r.config.device)]
             mx == [r.mixer EXCEPT ![d] = io]
             p == [r.config EXCEPT !.device = NoDevice]
  <2>1. d \in AllDirections /\ r.config.device \in DeviceSet(file)
    BY <1>1 DEF ParserSet
  <2>2. r.mixer[d].devices \in Seq(DeviceSet(file))
    BY <1>1, <2>1 DEF IdleMixers, MixerSet
  <2>3. Append(r.mixer[d].devices, r.config.device) \in Seq(DeviceSet(file))
    BY <2>1, <2>2, AppendProperties
  <2>4. /\ io \in [props : PropSet(file), devices : Seq(DeviceSet(file)),
                   state : BOOLEAN, device_current : DeviceSet(file)]
        /\ ~io.state /\ io.device_current = NoDevice
    BY <1>1, <2>1, <2>3 DEF IdleMixers, MixerSet
  <2>5. p \in ParserSet(file) /\ p.read = r.config.read
    BY <1>1, NoDeviceTyped DEF ParserSet
  <2>6. ReadEnd(r, tag) = [r EXCEPT !.mixer = mx, !.config = p]
    <3>1. tag.elem \notin AllDirections
      BY <1>3 DEF AllDirections
    <3> QED
      BY <1>1, <1>3, <3>1 DEF ReadEnd, ReadSet
  <2> HIDE DEF io, p, d
  <2>7. mx \in IdleMixers(file)
    BY <1>1, <2>1, <2>4 DEF IdleMixers, MixerSet
  <2> HIDE DEF mx
  <2> QED
    BY <2>5, <2>6, <2>7 DEF ReadSet
<1>4. CASE tag.elem \notin AllDirections /\ tag.elem # "device"
  <2> DEFINE p == [r.config EXCEPT !.list_start = "none"]
  <2>1. p \in ParserSet(file) /\ p.read = r.config.read
    BY <1>1 DEF ParserSet
  <2>2. ReadEnd(r, tag) \in {r, [r EXCEPT !.config = p]}
    BY <1>4 DEF ReadEnd
  <2> HIDE DEF p
  <2> QED
    BY <1>1, <2>1, <2>2 DEF ReadSet
<1> QED
  BY <1>2, <1>3, <1>4

LEMMA OneTyped ==
  ASSUME NEW file, NEW r \in ReadSet(file), NEW tag \in ToSet(Configs[file])
  PROVE  ReadOne(r, tag) \in ReadSet(file) /\ ReadOne(r, tag).config.read = r.config.read + 1
<1> DEFINE next == IF tag.start THEN ReadStart(r, tag) ELSE ReadEnd(r, tag)
<1>1. next \in ReadSet(file) /\ next.config.read = r.config.read
  BY StartTyped, EndTyped
<1>2. ReadOne(r, tag) = [next EXCEPT !.config.read = @ + 1]
  BY DEF ReadOne
<1> HIDE DEF next
<1>3. next.config \in ParserSet(file)
  BY <1>1 DEF ReadSet
<1>4. [next.config EXCEPT !.read = @ + 1] \in ParserSet(file)
  BY <1>3 DEF ParserSet
<1>5. [next.config EXCEPT !.read = @ + 1].read = r.config.read + 1
  BY <1>1, <1>3 DEF ParserSet
<1> QED
  BY <1>1, <1>2, <1>4, <1>5 DEF ReadSet

TagsIn(file) == Configs[file] \in Seq(ToSet(Configs[file]))

LEMMA ReadsTyped ==
  ASSUME NEW file, TagsIn(file), NEW n \in Nat, n <= Len(Configs[file])
  PROVE  Reads(file)[n] \in ReadSet(file) /\ Reads(file)[n].config.read = n
<1> DEFINE Good(k) == Reads(file)[k] \in ReadSet(file) /\ Reads(file)[k].config.read = k
           Bad == { k \in Nat : k <= Len(Configs[file]) /\ ~Good(k) }
<1>0. Len(Configs[file]) \in Nat /\ \A i \in 1..Len(Configs[file]) : Configs[file][i] \in ToSet(Configs[file])
  BY ListIs DEF TagsIn
<1>1. Good(0)
  <2>1. Begins(file).config.read = 0
    BY DEF Begins, ParserBegins
  <2> QED
    BY <2>1, ReadsAre, BeginsTyped
<1>2. ASSUME NEW k \in Nat, k + 1 <= Len(Configs[file]), Good(k) PROVE Good(k + 1)
  <2>1. Configs[file][k + 1] \in ToSet(Configs[file])
    BY <1>0, <1>2
  <2>2. Reads(file)[k + 1] = ReadOne(Reads(file)[k], Configs[file][k + 1])
    BY ReadsAre DEF After
  <2> QED
    BY <1>2, <2>1, <2>2, OneTyped
<1>3. Bad = {}
  <2> SUFFICES ASSUME Bad # {} PROVE FALSE
    OBVIOUS
  <2>1. Min(Bad) \in Bad /\ \A k \in Bad : Min(Bad) <= k
    BY LeastIs
  <2> DEFINE k == Min(Bad)
  <2> HIDE DEF k
  <2>2. k \in Nat /\ k <= Len(Configs[file]) /\ ~Good(k)
    BY <2>1 DEF k
  <2> HIDE DEF Good
  <2>3. k # 0
    BY <1>1, <2>2
  <2>4. k - 1 \in Nat /\ ~(k <= k - 1) /\ k - 1 <= Len(Configs[file]) /\ (k - 1) + 1 = k
    BY <1>0, <2>2, <2>3
  <2>5. Good(k - 1)
    <3>1. k - 1 \notin Bad
      BY <2>1, <2>4 DEF k
    <3> QED
      BY <2>4, <3>1
  <2>6. Good((k - 1) + 1)
    BY <1>2, <2>2, <2>4, <2>5
  <2> QED
    BY <2>2, <2>4, <2>6
<1> HIDE DEF Good
<1>4. Good(n)
  BY <1>3
<1> QED
  BY <1>4 DEF Good

LEMMA ContentsTyped ==
  ASSUME NEW file, TagsIn(file)
  PROVE  Contents(file) \in MixerSet(file)
<1>1. Len(Configs[file]) \in Nat /\ Len(Configs[file]) <= Len(Configs[file])
  BY ListIs DEF TagsIn
<1>2. Reads(file)[Len(Configs[file])] \in ReadSet(file)
  BY <1>1, ReadsTyped
<1> QED
  BY <1>2, ContentsAre DEF ReadSet, IdleMixers

-----------------------------------------------------------------------------
(* The invariant.  While the file is read the parser and the directions are  *)
(* what its first tags make of them; an open mixer has the devices that the  *)
(* file describes; and closed or open the controls follow the routes.        *)
Described == Contents(config.file)
ReadInv ==
  /\ config.file \in DOMAIN Configs
  /\ config.read \in 0..Len(Configs[config.file])
  /\ config = Reads(config.file)[config.read].config
  /\ ~IsOpen => mixer = Reads(config.file)[config.read].mixer
  /\ IsOpen => \A d \in AllDirections : mixer[d].devices = Described[d].devices
HeldInv ==
  /\ mixer \in MixerSet(config.file) /\ Held(Described, mixer)
  /\ DOMAIN controls = FileNames(config.file)
  /\ mixerFaults = [budget |-> mixerFaults.budget, refused |-> mixerFaults.refused]
FollowInv == Following(Described, mixer, controls, mixerFaults.refused)
MixerInv == ReadInv /\ HeldInv /\ FollowInv

LEMMA DescribedIs ==
  ASSUME ReadInv
  PROVE  /\ TagsIn(config.file) /\ Undoes(Described) /\ Described \in MixerSet(config.file)
         /\ Len(Configs[config.file]) \in Nat
<1>1. TagsIn(config.file) /\ Undoes(Described)
  BY ConfigsUndo DEF ReadInv, TagsIn, Described
<1> QED
  BY <1>1, ContentsTyped, ListIs DEF Described, TagsIn

(* Two mixers with the same devices ask for the same.                        *)
LEMMA SameListed ==
  ASSUME NEW m, NEW mx, \A d \in AllDirections : mx[d].devices = m[d].devices
  PROVE  /\ Switches(mx) = Switches(m) /\ InputNames(mx) = InputNames(m)
         /\ Shared(mx) = Shared(m)
         /\ \A v, c, value : Suits(mx, v, c, value) <=> Suits(m, v, c, value)
<1>1. /\ mx["output"].devices = m["output"].devices /\ mx["input"].devices = m["input"].devices
  BY DEF AllDirections
<1>2. Shared(mx) = Shared(m)
  BY <1>1 DEF Shared
<1>3. ListsOf(mx, "output") = ListsOf(m, "output") /\ ListsOf(mx, "input") = ListsOf(m, "input")
  BY <1>1 DEF ListsOf, DevicesOf
<1> QED
  BY <1>2, <1>3 DEF Switches, InputNames, Suits

LEMMA FollowIsFollowing == MixerInv => ControlsFollowRoutes
<1> SUFFICES ASSUME MixerInv, IsOpen PROVE ControlsFollowRoutes
  BY DEF ControlsFollowRoutes
<1> DEFINE current == mixer["output"].device_current
           m == Described
<1>1. ReadInv /\ HeldInv /\ FollowInv
  BY DEF MixerInv
<1>2. m \in MixerSet(config.file) /\ current \in Currents(m, "output")
  BY <1>1, DescribedIs DEF HeldInv, Held, AllDirections
<1>3. /\ Switches(mixer) = Switches(m) /\ InputNames(mixer) = InputNames(m)
      /\ \A v, c, value : Suits(mixer, v, c, value) <=> Suits(m, v, c, value)
  BY <1>1, SameListed DEF ReadInv
<1>4. ASSUME NEW c \in Switches(m) \ mixerFaults.refused
      PROVE  controls[c] = On <=> On \in ValueIn(current.enable, c)
  <2>1. PICK x \in ListsOf(m, "output") : x.name = c
    BY <1>4 DEF Switches, NamesIn
  <2>2. PICK v \in DevicesOf(m, "output") : x \in ToSet(v.enable) \cup ToSet(v.disable)
    BY <2>1 DEF ListsOf
  <2>3. v.enable \in Seq(Entries(config.file)) /\ v.disable \in Seq(Entries(config.file))
    BY <1>2, <2>2, CurrentsAre DEF Currents, AllDirections
  <2>4. x \in Entries(config.file)
    BY <2>2, <2>3, ListIs
  <2>5. c \in DOMAIN controls
    BY <1>1, <2>1, <2>4 DEF HeldInv, Entries, FileNames
  <2> QED
    BY <1>1, <1>4, <2>5 DEF FollowInv, Following, SwitchesFollow
<1>5. ASSUME mixer["output"].state, ~mixer["modem"].state,
             NEW c \in DOMAIN controls \ (mixerFaults.refused \cup InputNames(m))
      PROVE  Suits(m, current, c, controls[c])
  <2>1. CASE c \in AskedControls(m)
    BY <1>1, <1>5, <2>1 DEF FollowInv, Following
  <2>2. CASE c \notin AskedControls(m)
    BY <1>2, <1>5, <2>2, UnaskedSuits
  <2> QED
    BY <2>1, <2>2
<1> HIDE DEF m, current
<1>6. /\ \A c \in Switches(mixer) \ mixerFaults.refused :
           controls[c] = On <=> On \in ValueIn(current.enable, c)
      /\ mixer["output"].state /\ ~mixer["modem"].state =>
           \A c \in DOMAIN controls \ (mixerFaults.refused \cup InputNames(mixer)) :
             Suits(mixer, current, c, controls[c])
  BY <1>3, <1>4, <1>5
<1> QED
  BY <1>6 DEF ControlsFollowRoutes, current

LEMMA MixerStarts == MixerInit => MixerInv
<1> SUFFICES ASSUME MixerInit PROVE MixerInv
  OBVIOUS
<1>1. PICK file \in DOMAIN Configs : config = ParserBegins(file)
  BY DEF MixerInit
<1>2. config.file = file /\ config.read = 0
  BY <1>1 DEF ParserBegins
<1>3. config = Reads(file)[0].config /\ mixer = Reads(file)[0].mixer
  <2>1. Reads(file)[0] = Begins(file)
    BY ReadsAre
  <2>2. mixer = NoMixer
    BY DEF MixerInit
  <2> QED
    BY <1>1, <2>1, <2>2 DEF Begins
<1>4. TagsIn(file)
  BY ConfigsUndo DEF TagsIn
<1>5. Len(Configs[file]) \in Nat
  BY <1>4, ListIs DEF TagsIn
<1>6. ReadInv
  BY <1>2, <1>3, <1>5, ContentsAre DEF ReadInv, IsOpen, Described
<1>7. Reads(file)[0] \in ReadSet(file)
  BY <1>4, <1>5, ReadsTyped
<1>8. mixer \in IdleMixers(file)
  BY <1>3, <1>7 DEF ReadSet
<1>9. HeldInv
  BY <1>2, <1>8 DEF HeldInv, IdleMixers, Held, Currents, MixerInit
<1>10. FollowInv
  <2>1. mixer["output"].device_current = NoDevice /\ ~mixer["output"].state
    BY <1>8 DEF IdleMixers, AllDirections
  <2>2. \A c \in DOMAIN controls : controls[c] # On
    <3>1. On # <<-1>>
      BY DEF On
    <3> HIDE DEF On
    <3> QED
      BY <3>1 DEF MixerInit
  <2> QED
    BY <2>1, <2>2, NoDeviceIs DEF FollowInv, Following, SwitchesFollow
<1> QED
  BY <1>6, <1>9, <1>10 DEF MixerInv

-----------------------------------------------------------------------------
(* Reading another tag changes nothing but what is read.                     *)
LEMMA ReadTagKeeps == MixerInv /\ ReadTag => MixerInv'
<1> SUFFICES ASSUME MixerInv, ReadTag PROVE MixerInv'
  OBVIOUS
<1> DEFINE file == config.file
           n == config.read
           next == ReadOne([config |-> config, mixer |-> mixer], Configs[file][n + 1])
<1>1. ReadInv /\ HeldInv /\ FollowInv
  BY DEF MixerInv
<1>2. TagsIn(file) /\ Len(Configs[file]) \in Nat /\ n \in Nat /\ n < Len(Configs[file])
  BY <1>1, DescribedIs DEF ReadInv, ReadTag
<1>3. ~IsOpen
  BY <1>2 DEF IsOpen
<1>4. Reads(file)[n] \in ReadSet(file) /\ Reads(file)[n].config.read = n
  BY <1>2, ReadsTyped
<1>5. [config |-> config, mixer |-> mixer] = Reads(file)[n]
  BY <1>1, <1>3, <1>4 DEF ReadInv, ReadSet
<1>6. next = Reads(file)[n + 1]
  <2>1. Reads(file)[n + 1] = ReadOne(Reads(file)[n], Configs[file][n + 1])
    BY <1>2, ReadsAre DEF After
  <2> QED
    BY <1>5, <2>1
<1>7. config' = next.config /\ mixer' = next.mixer /\ UNCHANGED <<controls, mixerFaults>>
  BY DEF ReadTag
<1> HIDE DEF next
<1>8. Reads(file)[n + 1] \in ReadSet(file) /\ Reads(file)[n + 1].config.read = n + 1
  BY <1>2, ReadsTyped
<1>9. config'.file = file /\ config'.read = n + 1
  BY <1>6, <1>7, <1>8 DEF ReadSet, ParserSet
<1>10. mixer' \in IdleMixers(file)
  BY <1>6, <1>7, <1>8 DEF ReadSet
<1>11. Described' = Described
  BY <1>9 DEF Described
<1>12. ReadInv'
  <2>1. IsOpen' => n + 1 = Len(Configs[file])
    BY <1>9 DEF IsOpen
  <2>2. IsOpen' => \A d \in AllDirections : mixer'[d].devices = Described'[d].devices
    BY <1>6, <1>7, <1>11, <2>1, ContentsAre DEF Described
  <2>3. config'.file \in DOMAIN Configs /\ config'.read \in 0..Len(Configs[config'.file])
    BY <1>1, <1>2, <1>9 DEF ReadInv
  <2>4. config' = Reads(config'.file)[config'.read].config
        /\ mixer' = Reads(config'.file)[config'.read].mixer
    BY <1>6, <1>7, <1>9
  <2> QED
    BY <2>2, <2>3, <2>4 DEF ReadInv
<1>13. HeldInv'
  BY <1>1, <1>7, <1>9, <1>10, <1>11 DEF HeldInv, IdleMixers, Held, Currents
<1>14. FollowInv'
  <2>1. mixer \in IdleMixers(file)
    BY <1>4, <1>5 DEF ReadSet
  <2>2. /\ mixer["output"].device_current = NoDevice /\ mixer'["output"].device_current = NoDevice
        /\ ~mixer'["output"].state
    BY <1>10, <2>1 DEF IdleMixers, AllDirections
  <2> QED
    BY <1>1, <1>7, <1>11, <2>2 DEF FollowInv, Following
<1> QED
  BY <1>12, <1>13, <1>14 DEF MixerInv

LEMMA CloseKeeps == MixerInv /\ CloseMixer => MixerInv'
<1> SUFFICES ASSUME MixerInv, CloseMixer PROVE MixerInv'
  OBVIOUS
<1> DEFINE file == config.file
<1>1. ReadInv /\ HeldInv /\ FollowInv
  BY DEF MixerInv
<1>2. /\ config' = ParserBegins(file) /\ mixer' = NoMixer /\ UNCHANGED <<controls, mixerFaults>>
      /\ ~mixer["output"].state
  BY DEF CloseMixer, AllDirections
<1>3. config'.file = file /\ config'.read = 0
  BY <1>2 DEF ParserBegins
<1>4. config' = Reads(file)[0].config /\ mixer' = Reads(file)[0].mixer
  <2>1. Reads(file)[0] = Begins(file)
    BY ReadsAre
  <2> QED
    BY <1>2, <2>1 DEF Begins
<1>5. TagsIn(file) /\ Len(Configs[file]) \in Nat
  BY <1>1, DescribedIs
<1>6. Described' = Described
  BY <1>3 DEF Described
<1>7. ReadInv'
  <2>1. IsOpen' => \A d \in AllDirections : mixer'[d].devices = Described'[d].devices
    BY <1>3, <1>4, <1>6, ContentsAre DEF IsOpen, Described
  <2> QED
    BY <1>1, <1>3, <1>4, <1>5, <2>1 DEF ReadInv
<1>8. mixer' \in IdleMixers(file)
  <2>1. Reads(file)[0] \in ReadSet(file)
    BY <1>5, ReadsTyped
  <2> QED
    BY <1>4, <2>1 DEF ReadSet
<1>9. HeldInv'
  BY <1>1, <1>2, <1>3, <1>6, <1>8 DEF HeldInv, IdleMixers, Held, Currents
<1>10. FollowInv'
  <2>1. /\ mixer["output"].device_current = NoDevice /\ mixer'["output"].device_current = NoDevice
        /\ ~mixer'["output"].state
    BY <1>1, <1>2, <1>8 DEF IdleMixers, AllDirections, HeldInv, Held
  <2> QED
    BY <1>1, <1>2, <1>6, <2>1 DEF FollowInv, Following
<1> QED
  BY <1>7, <1>9, <1>10 DEF MixerInv

-----------------------------------------------------------------------------
(* The calls of an open mixer.                                               *)
LEMMA OpenKeeps ==
  ASSUME MixerInv, IsOpen, config' = config, mixer' \in MixerSet(config.file),
         Held(Described, mixer'), \A d \in AllDirections : mixer'[d].devices = mixer[d].devices,
         DOMAIN controls' = DOMAIN controls,
         mixerFaults' = [budget |-> mixerFaults'.budget, refused |-> mixerFaults'.refused],
         Following(Described, mixer', controls', mixerFaults'.refused)
  PROVE  MixerInv'
<1>1. Described' = Described /\ (IsOpen' <=> IsOpen)
  BY DEF Described, IsOpen
<1>2. ReadInv'
  BY <1>1 DEF MixerInv, ReadInv
<1>3. HeldInv' /\ FollowInv'
  BY <1>1 DEF MixerInv, HeldInv, FollowInv
<1> QED
  BY <1>2, <1>3 DEF MixerInv

LEMMA MeetsAre ==
  ASSUME HeldInv, NEW opens, NEW refused, Meets(opens, refused)
  PROVE  /\ refused \subseteq mixerFaults'.refused
         /\ mixerFaults.refused \subseteq mixerFaults'.refused
         /\ mixerFaults' = [budget |-> mixerFaults'.budget, refused |-> mixerFaults'.refused]
<1> DEFINE b == mixerFaults.budget
           r == mixerFaults.refused
<1>1. mixerFaults = [budget |-> b, refused |-> r]
  BY DEF HeldInv
<1>2. mixerFaults' = [budget |-> IF opens /\ refused = {} THEN b ELSE b - 1,
                      refused |-> r \cup refused]
  BY <1>1 DEF Meets
<1> HIDE DEF b, r
<1>3. mixerFaults'.refused = r \cup refused
  BY <1>2
<1>4. mixerFaults' = [budget |-> mixerFaults'.budget, refused |-> mixerFaults'.refused]
  BY <1>2
<1> QED
  BY <1>3, <1>4 DEF r

LEMMA GotDevice ==
  ASSUME MixerInv, IsOpen, NEW d \in AllDirections, NEW type
  PROVE  /\ GetDevice(d, type) = FirstOf(Described[d].devices, type)
         /\ GetDevice(d, type) \in Currents(Described, d)
<1>1. mixer[d].devices = Described[d].devices
  BY DEF MixerInv, ReadInv
<1>2. Described[d].devices \in Seq(DeviceSet(config.file))
  BY DescribedIs DEF MixerInv, MixerSet
<1> QED
  BY <1>1, <1>2, FirstIs DEF GetDevice, Currents, DevicesOf

LEMMA StateTurns ==
  ASSUME MixerInv, NEW d \in AllDirections, NEW on \in BOOLEAN,
         mixer' = [mixer EXCEPT ![d].state = on, ![d].device_current = NoDevice]
  PROVE  /\ mixer' \in MixerSet(config.file) /\ Held(Described, mixer')
         /\ \A b \in AllDirections : mixer'[b].devices = mixer[b].devices
         /\ mixer'[d].state = on /\ mixer'[d].device_current = NoDevice
         /\ \A b \in AllDirections : b # d => mixer'[b] = mixer[b]
<1>1. mixer \in MixerSet(config.file) /\ Held(Described, mixer)
  BY DEF MixerInv, HeldInv
<1>2. /\ mixer' \in MixerSet(config.file)
      /\ \A b \in AllDirections : mixer'[b].devices = mixer[b].devices
      /\ mixer'[d].state = on /\ mixer'[d].device_current = NoDevice
      /\ \A b \in AllDirections : b # d => mixer'[b] = mixer[b]
  BY <1>1, NoDeviceTyped DEF MixerSet
<1>3. Held(Described, mixer')
  BY <1>1, <1>2 DEF Held, Currents
<1> QED
  BY <1>2, <1>3

LEMMA SetStateKeeps ==
  ASSUME MixerInv, NEW d \in AllDirections, NEW on \in BOOLEAN, SetState(d, on)
  PROVE  MixerInv'
<1> DEFINE current == mixer[d].device_current
           default == GetDevice(d, <<SideOf(d), "default">>)
           m == Described
           rf == mixerFaults'.refused
<1>1. IsOpen /\ mixer[d].state # on /\ config' = config
  BY DEF SetState
<1>2. PICK opens \in BOOLEAN, refused \in Refusals :
        /\ Meets(opens, refused)
        /\ IF opens
           THEN /\ controls' =
                     IF on THEN SetRouteList(controls, default.enable, refused)
                     ELSE SetRouteList(SetRouteList(controls, current.disable, refused),
                                       default.disable, refused)
                /\ mixer' = [mixer EXCEPT ![d].state = on, ![d].device_current = NoDevice]
           ELSE UNCHANGED <<mixer, controls>>
  BY DEF SetState
<1>3. HeldInv /\ ReadInv /\ FollowInv
  BY DEF MixerInv
<1>4. /\ refused \subseteq rf /\ mixerFaults.refused \subseteq rf
      /\ mixerFaults' = [budget |-> mixerFaults'.budget, refused |-> rf]
  BY <1>2, <1>3, MeetsAre
<1>5. Following(m, mixer, controls, rf)
  BY <1>3, <1>4, MoreRefused DEF FollowInv
<1>6. m \in MixerSet(config.file) /\ Undoes(m) /\ Held(m, mixer)
  BY <1>3, DescribedIs DEF HeldInv
<1>7. CASE ~opens
  BY <1>1, <1>2, <1>3, <1>4, <1>5, <1>7, OpenKeeps DEF HeldInv
<1>8. CASE opens
  <2>1. /\ mixer' \in MixerSet(config.file) /\ Held(m, mixer')
        /\ \A b \in AllDirections : mixer'[b].devices = mixer[b].devices
        /\ mixer'[d].state = on /\ mixer'[d].device_current = NoDevice
        /\ \A b \in AllDirections : b # d => mixer'[b] = mixer[b]
    BY <1>2, <1>8, StateTurns
  <2>2. /\ default = FirstOf(m[d].devices, <<SideOf(d), "default">>)
        /\ default \in Currents(m, d) /\ current \in Currents(m, d)
    BY <1>1, <1>6, GotDevice DEF Held
  <2>3. DOMAIN controls' = DOMAIN controls
    BY <1>2, <1>8, ListKeepsDomain
  <2>4. mixer[d].state \in BOOLEAN
    BY <1>3 DEF HeldInv, MixerSet
  <2>5. CASE d = "output"
    <3>1. default = Shared(m)
      BY <2>2, <2>5 DEF Shared, SideOf
    <3>2. mixer'["modem"] = mixer["modem"]
      BY <2>1, <2>5 DEF AllDirections
    <3>3. CASE on
      <4>1. mixer["output"].device_current = NoDevice
        BY <1>1, <1>6, <2>4, <2>5, <3>3 DEF Held
      <4>2. controls' = SetRouteList(controls, Shared(m).enable, refused)
        BY <1>2, <1>8, <3>1, <3>3
      <4>3. Following(m, mixer', controls', rf)
        BY <1>4, <1>5, <1>6, <2>1, <2>5, <4>1, <4>2, OutputBegins
      <4> QED
        BY <1>1, <1>4, <2>1, <2>3, <4>3, OpenKeeps
    <3>4. CASE ~on
      <4>1. controls' = SetRouteList(SetRouteList(controls, current.disable, refused),
                                     Shared(m).disable, refused)
        BY <1>2, <1>8, <3>1, <3>4
      <4>2. Following(m, mixer', controls', rf)
        BY <1>4, <1>5, <1>6, <2>1, <2>5, <3>4, <4>1, OutputEnds
      <4> QED
        BY <1>1, <1>4, <2>1, <2>3, <4>2, OpenKeeps
    <3> QED
      BY <3>3, <3>4
  <2>6. CASE d = "input"
    <3>1. mixer'["modem"] = mixer["modem"] /\ mixer'["output"] = mixer["output"]
      BY <2>1, <2>6 DEF AllDirections
    <3>2. CASE on
      <4>1. controls' = SetRouteList(controls, default.enable, refused)
        BY <1>2, <1>8, <3>2
      <4>2. Following(m, mixer', controls', rf)
        BY <1>5, <1>6, <2>2, <2>6, <3>1, <4>1, InputSets
      <4> QED
        BY <1>1, <1>4, <2>1, <2>3, <4>2, OpenKeeps
    <3>3. CASE ~on
      <4> DEFINE left == SetRouteList(controls, current.disable, refused)
      <4>1. controls' = SetRouteList(left, default.disable, refused)
        BY <1>2, <1>8, <3>3
      <4>2. Following(m, mixer', left, rf)
        BY <1>5, <1>6, <2>2, <2>6, <3>1, InputSets
      <4> HIDE DEF left
      <4>3. Following(m, mixer', controls', rf)
        BY <1>6, <2>2, <2>6, <4>1, <4>2, InputSets
      <4> QED
        BY <1>1, <1>4, <2>1, <2>3, <4>3, OpenKeeps
    <3> QED
      BY <3>2, <3>3
  <2>7. CASE d = "modem"
    <3>1. default = ModemDefault(m)
      BY <2>2, <2>7 DEF ModemDefault, SideOf
    <3>2. mixer'["output"] = mixer["output"]
      BY <2>1, <2>7 DEF AllDirections
    <3>3. CASE on
      <4>1. controls' = SetRouteList(controls, ModemDefault(m).enable, refused)
        BY <1>2, <1>8, <3>1, <3>3
      <4>2. ~mixer["modem"].state /\ mixer'["modem"].state
        BY <1>1, <2>1, <2>4, <2>7, <3>3
      <4>3. Following(m, mixer', controls', rf)
        BY <1>5, <1>6, <3>2, <4>1, <4>2, ModemBegins
      <4> QED
        BY <1>1, <1>4, <2>1, <2>3, <4>3, OpenKeeps
    <3>4. CASE ~on
      <4>1. controls' = SetRouteList(SetRouteList(controls, current.disable, refused),
                                     ModemDefault(m).disable, refused)
        BY <1>2, <1>8, <3>1, <3>4
      <4>2. Following(m, mixer', controls', rf)
        BY <1>4, <1>5, <1>6, <2>7, <3>2, <4>1, ModemEnds
      <4> QED
        BY <1>1, <1>4, <2>1, <2>3, <4>2, OpenKeeps
    <3> QED
      BY <3>3, <3>4
  <2> QED
    BY <2>5, <2>6, <2>7 DEF AllDirections
<1> QED
  BY <1>7, <1>8

(* What the routes of a call have made of the mixer so far.                  *)
Routed(r, rf) ==
  /\ r = [ok |-> r.ok, mixer |-> r.mixer, controls |-> r.controls]
  /\ r.mixer \in MixerSet(config.file) /\ Held(Described, r.mixer)
  /\ \A d \in AllDirections : /\ r.mixer[d].devices = mixer[d].devices
                              /\ r.mixer[d].state = mixer[d].state
  /\ DOMAIN r.controls = DOMAIN controls
  /\ Following(Described, r.mixer, r.controls, rf)

LEMMA RouteIsRouted ==
  ASSUME MixerInv, IsOpen, NEW r, NEW rf, Routed(r, rf), NEW d \in AllDirections, mixer[d].state,
         NEW type, NEW opens \in BOOLEAN, NEW refused, refused \subseteq rf
  PROVE  Routed(SetRoute(r, d, type, opens, refused), rf)
<1> DEFINE device == GetDevice(d, type)
           old == r.mixer[d].device_current
           left == SetRouteList(r.controls, old.disable, refused)
           nt == SetRouteList(left, device.enable, refused)
           nx == [r.mixer EXCEPT ![d].device_current = device]
           m == Described
           next == SetRoute(r, d, type, opens, refused)
<1>1. device \in Currents(m, d)
  BY GotDevice
<1>2. m \in MixerSet(config.file) /\ Undoes(m)
  BY DescribedIs DEF MixerInv
<1>3. next \in { [ok |-> FALSE, mixer |-> r.mixer, controls |-> r.controls], r, [ok |-> r.ok, mixer |-> nx, controls |-> nt] }
  <2>1. CASE ~opens \/ device = NoDevice
    <3>1. next = [ok |-> FALSE, mixer |-> r.mixer, controls |-> r.controls]
      BY <2>1 DEF SetRoute
    <3> QED
      BY <3>1
  <2>2. CASE opens /\ device # NoDevice /\ device = old
    <3>1. next = r
      BY <2>2 DEF SetRoute
    <3> QED
      BY <3>1
  <2>3. CASE opens /\ device # NoDevice /\ device # old
    <3>1. next = [ok |-> r.ok, mixer |-> [r.mixer EXCEPT ![d].device_current = device],
                  controls |-> SetRouteList(SetRouteList(r.controls, old.disable, refused),
                                            device.enable, refused)]
      BY <2>3 DEF SetRoute
    <3>2. next = [ok |-> r.ok, mixer |-> nx, controls |-> nt]
      BY <3>1 DEF Routed
    <3> QED
      BY <3>2
  <2> QED
    BY <2>1, <2>2, <2>3
<1> HIDE DEF next
<1>4. Routed([ok |-> FALSE, mixer |-> r.mixer, controls |-> r.controls], rf)
  <2> DEFINE q == [ok |-> FALSE, mixer |-> r.mixer, controls |-> r.controls]
  <2>1. q = [ok |-> q.ok, mixer |-> q.mixer, controls |-> q.controls]
        /\ q.mixer = r.mixer /\ q.controls = r.controls
    OBVIOUS
  <2> HIDE DEF q
  <2>2. Routed(q, rf)
    BY <2>1 DEF Routed
  <2> QED
    BY <2>2 DEF q
<1>5. Routed([ok |-> r.ok, mixer |-> nx, controls |-> nt], rf)
  <2> DEFINE q == [ok |-> r.ok, mixer |-> nx, controls |-> nt]
  <2>1. q = [ok |-> q.ok, mixer |-> q.mixer, controls |-> q.controls]
        /\ q.mixer = nx /\ q.controls = nt
    <3> HIDE DEF nt, nx
    <3> QED
      OBVIOUS
  <2>2. DOMAIN nt = DOMAIN r.controls
    BY ListKeepsDomain
  <2>3. device \in DeviceSet(config.file)
    BY <1>1, <1>2, CurrentsAre
  <2>4. /\ nx \in MixerSet(config.file) /\ nx[d].device_current = device
        /\ \A b \in AllDirections : /\ nx[b].devices = r.mixer[b].devices
                                    /\ nx[b].state = r.mixer[b].state
                                    /\ b # d => nx[b] = r.mixer[b]
    <3> HIDE DEF device
    <3> QED
      BY <2>3 DEF Routed, MixerSet
  <2>5. r.mixer[d].state
    BY DEF Routed
  <2>6. Held(m, r.mixer) /\ Following(m, r.mixer, r.controls, rf)
    BY DEF Routed
  <2> HIDE DEF nx, device
  <2>7. Held(m, nx)
    BY <1>1, <2>4, <2>5, <2>6 DEF Held
  <2>8. Following(m, nx, nt, rf)
    <3>1. CASE d = "output"
      <4>1. nx["modem"] = r.mixer["modem"]
        BY <2>4, <3>1 DEF AllDirections
      <4> QED
        BY <1>1, <1>2, <2>4, <2>5, <2>6, <3>1, <4>1, OutputRoutes
    <3>2. CASE d = "modem"
      <4>1. nx["output"] = r.mixer["output"] /\ nx["modem"].state
        BY <2>4, <2>5, <3>2 DEF AllDirections
      <4> QED
        BY <1>1, <1>2, <2>4, <2>6, <3>2, <4>1, ModemRoutes
    <3>3. CASE d = "input"
      <4>1. nx["output"] = r.mixer["output"] /\ nx["modem"] = r.mixer["modem"]
        BY <2>4, <3>3 DEF AllDirections
      <4>2. old \in Currents(m, "input")
        BY <2>6, <3>3 DEF Held
      <4>3. Following(m, nx, left, rf)
        BY <1>2, <2>6, <4>1, <4>2, InputSets
      <4> HIDE DEF left
      <4> QED
        BY <1>1, <1>2, <3>3, <4>3, InputSets
    <3> QED
      BY <3>1, <3>2, <3>3 DEF AllDirections
  <2> HIDE DEF q, nt
  <2>9. Routed(q, rf)
    BY <2>1, <2>2, <2>4, <2>7, <2>8 DEF Routed
  <2> QED
    BY <2>9 DEF q
<1> HIDE DEF nt, nx
<1>6. Routed(next, rf)
  BY <1>3, <1>4, <1>5
<1> QED
  BY <1>6 DEF next

LEMMA SetMixerDeviceKeeps ==
  ASSUME MixerInv, NEW type, SetMixerDevice(type)
  PROVE  MixerInv'
<1> DEFINE Turn(opens, refused, r, d) ==
             IF r.ok /\ mixer[d].state /\ (type[1] = "in" <=> d = "input")
             THEN SetRoute(r, d, type, opens, refused) ELSE r
           begin == [ok |-> TRUE, mixer |-> mixer, controls |-> controls]
           rf == mixerFaults'.refused
<1>1. PICK opens \in BOOLEAN, refused \in Refusals :
        LET done == Turn(opens, refused, Turn(opens, refused,
                      Turn(opens, refused, begin, "output"), "input"), "modem")
        IN /\ IsOpen /\ Meets(opens, refused)
           /\ mixer' = done.mixer /\ controls' = done.controls
  BY DEF SetMixerDevice
<1>2. IsOpen /\ config' = config
  BY <1>1 DEF SetMixerDevice
<1>3. HeldInv /\ FollowInv
  BY DEF MixerInv
<1>4. /\ refused \subseteq rf /\ mixerFaults.refused \subseteq rf
      /\ mixerFaults' = [budget |-> mixerFaults'.budget, refused |-> rf]
  BY <1>1, <1>3, MeetsAre
<1>5. Routed(begin, rf)
  <2>1. Following(Described, mixer, controls, rf)
    BY <1>3, <1>4, MoreRefused DEF FollowInv
  <2>2. begin = [ok |-> begin.ok, mixer |-> begin.mixer, controls |-> begin.controls]
        /\ begin.mixer = mixer /\ begin.controls = controls
    OBVIOUS
  <2> HIDE DEF begin
  <2> QED
    BY <1>3, <2>1, <2>2 DEF Routed, HeldInv
<1>6. ASSUME NEW r, Routed(r, rf), NEW d \in AllDirections PROVE Routed(Turn(opens, refused, r, d), rf)
  BY <1>2, <1>4, <1>6, RouteIsRouted
<1> HIDE DEF Turn, begin
<1> DEFINE first == Turn(opens, refused, begin, "output")
           second == Turn(opens, refused, first, "input")
           done == Turn(opens, refused, second, "modem")
<1>7. Routed(first, rf)
  BY <1>5, <1>6 DEF AllDirections
<1> HIDE DEF first
<1>8. Routed(second, rf)
  BY <1>6, <1>7 DEF AllDirections
<1> HIDE DEF second
<1>9. Routed(done, rf)
  BY <1>6, <1>8 DEF AllDirections
<1>10. mixer' = done.mixer /\ controls' = done.controls
  BY <1>1 DEF first, second
<1> HIDE DEF done
<1> QED
  BY <1>2, <1>4, <1>9, <1>10, OpenKeeps DEF Routed

LEMMA SetVolumeKeeps ==
  ASSUME MixerInv, NEW type, NEW percent, SetVolume("modem", type, "voice-volume", percent), IsOpen
  PROVE  MixerInv'
<1> DEFINE v == GetDevice("modem", type)
           rf == mixerFaults'.refused
<1>1. PICK e \in GetData(v.enable, "voice-volume"), refused \in Refusals :
        /\ e.type = "ctrl"
        /\ Meets(TRUE, refused \cap {e.name})
        /\ controls' = IF e.name \in refused THEN controls
                       ELSE [controls EXCEPT ![e.name] =
                               <<((e.value[2] - e.value[1]) * percent) \div 100 + e.value[1]>>]
  BY DEF SetVolume
<1>2. config' = config /\ mixer' = mixer
  BY DEF SetVolume
<1>3. HeldInv /\ ReadInv /\ FollowInv
  BY DEF MixerInv
<1>4. /\ mixerFaults.refused \subseteq rf
      /\ mixerFaults' = [budget |-> mixerFaults'.budget, refused |-> rf]
  BY <1>1, <1>3, MeetsAre
<1>5. Described \in MixerSet(config.file) /\ Undoes(Described) /\ v \in Currents(Described, "modem")
  BY <1>3, DescribedIs, GotDevice DEF AllDirections
<1>6. e \in ToSet(v.enable) /\ e.attr = "voice-volume"
  BY <1>1, <1>5, ModemListsAre, DataIs
<1>7. DOMAIN controls' = DOMAIN controls /\ \A c \in DOMAIN controls : c # e.name => controls'[c] = controls[c]
  BY <1>1
<1>8. Following(Described, mixer, controls, rf)
  BY <1>3, <1>4, MoreRefused DEF FollowInv
<1>9. Following(Described, mixer, controls', rf)
  BY <1>5, <1>6, <1>7, <1>8, VolumeIsOwn
<1> QED
  BY <1>2, <1>3, <1>4, <1>7, <1>9, OpenKeeps DEF HeldInv

LEMMA SetMuteKeeps ==
  ASSUME MixerInv, NEW type, NEW mute, SetMute("modem", type, mute), IsOpen
  PROVE  MixerInv'
<1> DEFINE v == GetDevice("modem", type)
           rf == mixerFaults'.refused
<1>1. PICK e \in GetData(IF mute THEN v.enable ELSE v.disable, "mic-mute"), refused \in Refusals :
        /\ e.type = "ctrl"
        /\ Meets(TRUE, refused \cap {e.name})
        /\ controls' = SetRouteList(controls, <<e>>, refused)
  BY DEF SetMute
<1>2. config' = config /\ mixer' = mixer
  BY DEF SetMute
<1>3. HeldInv /\ ReadInv /\ FollowInv
  BY DEF MixerInv
<1>4. /\ mixerFaults.refused \subseteq rf
      /\ mixerFaults' = [budget |-> mixerFaults'.budget, refused |-> rf]
  BY <1>1, <1>3, MeetsAre
<1>5. Described \in MixerSet(config.file) /\ Undoes(Described) /\ v \in Currents(Described, "modem")
  BY <1>3, DescribedIs, GotDevice DEF AllDirections
<1>6. e \in ToSet(v.enable) \cup ToSet(v.disable) /\ e.attr = "mic-mute"
  BY <1>1, <1>5, ModemListsAre, DataIs
<1>7. ASSUME NEW c \in DOMAIN controls, c # e.name PROVE controls'[c] = controls[c]
  <2> DEFINE list == <<e>>
  <2>1. list \in Seq({e}) /\ ToSet(list) = {e}
    BY DEF ToSet
  <2> HIDE DEF list
  <2>2. c \notin NamesIn(ToSet(list))
    BY <1>7, <2>1 DEF NamesIn
  <2>3. SetRouteList(controls, list, refused)[c] = controls[c]
    <3>1. PICK E : list \in Seq(E)
      BY <2>1
    <3>2. c \in DOMAIN controls
      BY <1>7
    <3>3. c \notin NamesIn(ToSet(list)) => SetRouteList(controls, list, refused)[c] = controls[c]
      BY ONLY <3>1, <3>2, ListSets
    <3> QED
      BY <2>2, <3>3
  <2> QED
    BY <1>1, <2>3 DEF list
<1>8. DOMAIN controls' = DOMAIN controls
  BY <1>1, ListKeepsDomain
<1>9. Following(Described, mixer, controls, rf)
  BY <1>3, <1>4, MoreRefused DEF FollowInv
<1>10. Following(Described, mixer, controls', rf)
  BY <1>5, <1>6, <1>7, <1>8, <1>9, VolumeIsOwn
<1> QED
  BY <1>2, <1>3, <1>4, <1>8, <1>10, OpenKeeps DEF HeldInv

(* Nothing runs while the file is read.                                      *)
LEMMA RunsWhenOpen ==
  ASSUME MixerInv, NEW d \in AllDirections, mixer[d].state PROVE IsOpen
<1>1. SUFFICES ASSUME ~IsOpen PROVE FALSE
  OBVIOUS
<1>2. ReadInv
  BY DEF MixerInv
<1>3. Reads(config.file)[config.read] \in ReadSet(config.file)
  BY <1>2, DescribedIs, ReadsTyped DEF ReadInv
<1>4. mixer \in IdleMixers(config.file)
  BY <1>1, <1>2, <1>3 DEF ReadInv, ReadSet
<1> QED
  BY <1>4 DEF IdleMixers

LEMMA MixerKept == MixerInv /\ [MixerNext]_mixerVars => MixerInv'
<1> SUFFICES ASSUME MixerInv, [MixerNext]_mixerVars PROVE MixerInv'
  OBVIOUS
<1>1. CASE ReadTag
  BY <1>1, ReadTagKeeps
<1>2. CASE \E d \in AllDirections, on \in BOOLEAN : SetState(d, on)
  BY <1>2, SetStateKeeps
<1>3. CASE \E type \in RoutedDevices : SetMixerDevice(type)
  BY <1>3, SetMixerDeviceKeeps
<1>4. ASSUME NEW type \in RoutedDevices, NEW percent \in 0..100,
             SetVolume("modem", type, "voice-volume", percent)
      PROVE  MixerInv'
  <2>1. IsOpen
    BY <1>4, RunsWhenOpen DEF SetVolume, AllDirections
  <2> QED
    BY <1>4, <2>1, SetVolumeKeeps
<1>5. ASSUME NEW type \in RoutedDevices, NEW mute \in BOOLEAN, SetMute("modem", type, mute)
      PROVE  MixerInv'
  <2>1. IsOpen
    BY <1>5, RunsWhenOpen DEF SetMute, AllDirections
  <2> QED
    BY <1>5, <2>1, SetMuteKeeps
<1>6. CASE CloseMixer
  BY <1>6, CloseKeeps
<1>7. CASE UNCHANGED mixerVars
  <2>1. UNCHANGED <<config, mixer, controls, mixerFaults>>
    BY <1>7 DEF mixerVars
  <2>2. Described' = Described /\ (IsOpen' <=> IsOpen)
    BY <2>1 DEF Described, IsOpen
  <2> QED
    BY <2>1, <2>2 DEF MixerInv, ReadInv, HeldInv, FollowInv
<1> QED
  BY <1>1, <1>2, <1>3, <1>4, <1>5, <1>6, <1>7 DEF MixerNext

(* Whatever streams and calls came and went, on whatever devices, a switch   *)
(* of the output is on exactly while its device is the current one, and      *)
(* without a call the codec has what the output's device and the default one *)
(* ask for (mixer.c), for any configuration that undoes what it does.        *)
THEOREM RoutesAreFollowed == MixerSpec => []ControlsFollowRoutes
<1>1. MixerInit => MixerInv
  BY MixerStarts
<1>2. MixerInv /\ [MixerNext]_mixerVars => MixerInv'
  BY MixerKept
<1>3. MixerInv => ControlsFollowRoutes
  BY FollowIsFollowing
<1> QED
  BY <1>1, <1>2, <1>3, PTL DEF MixerSpec
=============================================================================
