------------------------------ MODULE MCCamera ------------------------------
(* What the camera HAL does around a capture session, side by side: the      *)
(* set-up of the streams, the settings, the capture nodes and the torch.     *)
(* Their variables are disjoint and each behaviour runs one part, so their   *)
(* states add up instead of multiplying.                                    *)
EXTENDS StreamSetup, CameraSettings, CaptureNodes, TorchMode

VARIABLE part

cameraVars == <<part, setupVars, settingsVars, nodesVars, torchVars>>

MCInit ==
  /\ part \in {"streams", "settings", "nodes", "torch"}
  /\ SetupInit /\ SettingsInit /\ NodesInit /\ TorchInit
  /\ part # "nodes" => ~frontCamera /\ ~movie

(* A step of one part: its action, and the rest as it is (last: TLC is faster *)
(* when it meets a false guard first).                                       *)
InStreams == part = "streams"
BesideStreams == UNCHANGED <<part, settingsVars, nodesVars, torchVars>>
InSettings == part = "settings"
BesideSettings == UNCHANGED <<part, setupVars, nodesVars, torchVars>>
InNodes == part = "nodes"
BesideNodes == UNCHANGED <<part, setupVars, settingsVars, torchVars>>
InTorch == part = "torch"
BesideTorch == UNCHANGED <<part, setupVars, settingsVars, nodesVars>>

StreamsParts ==
  \/ InStreams /\ FlushRequested /\ BesideStreams
  \/ InStreams /\ FlushInvalidates /\ BesideStreams
  \/ InStreams /\ FlushStops /\ BesideStreams
  \/ InStreams /\ ConfigureUnsupported /\ BesideStreams
  \/ InStreams /\ ConfigureResetsNodes /\ BesideStreams
  \/ InStreams /\ ConfigureResetFails /\ BesideStreams
  \/ InStreams /\ ConfigureNoBridge /\ BesideStreams
  \/ InStreams /\ ConfigurePublishes /\ BesideStreams
  \/ InStreams /\ ConfigureNoMemory /\ BesideStreams
  \/ InStreams /\ ConfigureParams /\ BesideStreams
  \/ InStreams /\ ConfigureSucceeds /\ BesideStreams
  \/ InStreams /\ RequestApply /\ BesideStreams
  \/ InStreams /\ RequestPush /\ BesideStreams
  \/ InStreams /\ WorkerChecks /\ BesideStreams
  \/ InStreams /\ WorkerTooLate /\ BesideStreams
  \/ InStreams /\ WorkerStartsPreview /\ BesideStreams
  \/ InStreams /\ WorkerStartFails /\ BesideStreams
  \/ InStreams /\ FrameServed /\ BesideStreams
  \/ InStreams /\ WorkerAppliesStill /\ BesideStreams
  \/ InStreams /\ WorkerTakesPicture /\ BesideStreams
  \/ InStreams /\ PictureArrives /\ BesideStreams
  \/ \E c \in Configurations : InStreams /\ ConfigureBegin(c) /\ BesideStreams
  \/ \E withSettings, wantsStill \in BOOLEAN :
       InStreams /\ RequestGate(withSettings, wantsStill) /\ BesideStreams
SettingsParts ==
  \/ InSettings /\ PreviewRuns /\ BesideSettings
  \/ InSettings /\ StillStarts /\ BesideSettings
  \/ InSettings /\ StillTaken /\ BesideSettings
  \/ InSettings /\ StillEncoded /\ BesideSettings
  \/ InSettings /\ TriggerStart /\ BesideSettings
  \/ InSettings /\ TriggerCancel /\ BesideSettings
  \/ InSettings /\ CancelEnds /\ BesideSettings
  \/ InSettings /\ CancelGivesUp /\ BesideSettings
  \/ InSettings /\ ListWritten /\ BesideSettings
  \/ \E a \in Appliers : InSettings /\ ApplyTests(a) /\ BesideSettings
  \/ \E a \in Appliers : InSettings /\ ApplyReads(a) /\ BesideSettings
  \/ \E a \in Appliers : InSettings /\ ApplyCompares(a) /\ BesideSettings
  \/ \E a \in Appliers : InSettings /\ ApplyControls(a) /\ BesideSettings
  \/ \E a \in Appliers : InSettings /\ ApplyCaches(a) /\ BesideSettings
  \/ \E reset \in BOOLEAN : InSettings /\ SessionStops(reset) /\ BesideSettings
  \/ \E video \in BOOLEAN : InSettings /\ SessionConfigured(video) /\ BesideSettings
  \/ \E r \in SettingsRequests : InSettings /\ RequestSettings(r) /\ BesideSettings
  \/ \E s \in Scans : InSettings /\ ScanBegins(s) /\ BesideSettings
  \/ \E s \in Scans : InSettings /\ ScanPrepares(s) /\ BesideSettings
  \/ \E s \in Scans : InSettings /\ ScanRuns(s) /\ BesideSettings
  \/ \E s \in Scans : InSettings /\ ScanStops(s) /\ BesideSettings
  \/ \E s \in Scans : InSettings /\ ScanNotifies(s) /\ BesideSettings
  \/ \E s \in Scans : InSettings /\ ScanEnds(s) /\ BesideSettings
NodesParts ==
  \/ InNodes /\ PreviewArms /\ BesideNodes
  \/ InNodes /\ PreviewThreadFails /\ BesideNodes
  \/ InNodes /\ PreviewThreadEnds /\ BesideNodes
  \/ InNodes /\ OpenBackend /\ BesideNodes
  \/ InNodes /\ CloseBackend /\ BesideNodes
  \/ InNodes /\ OpenedOrFreed /\ BesideNodes
  \/ InNodes /\ ResetNodes /\ BesideNodes
  \/ InNodes /\ StartPreview /\ BesideNodes
  \/ InNodes /\ Flush /\ BesideNodes
  \/ InNodes /\ TakePicture /\ BesideNodes
  \/ \E a \in Actors : InNodes /\ NodeOperation(a) /\ BesideNodes
  \/ \E a \in Actors : InNodes /\ MapBuffers(a) /\ BesideNodes
  \/ \E a \in Actors : InNodes /\ MapPicture(a) /\ BesideNodes
  \/ \E a \in Actors : InNodes /\ SetFlags(a) /\ BesideNodes
  \/ \E a \in Actors : InNodes /\ PreviewLock(a) /\ BesideNodes
  \/ \E a \in Actors : InNodes /\ PictureLock(a) /\ BesideNodes
  \/ \E a \in Actors : InNodes /\ Wait(a) /\ BesideNodes
  \/ \E a \in Actors : InNodes /\ Nested(a) /\ BesideNodes
  \/ \E a \in Actors : InNodes /\ PreviewThread(a) /\ BesideNodes
  \/ \E a \in Actors : InNodes /\ PictureThreadStarts(a) /\ BesideNodes
  \/ \E s \in Stills : InNodes /\ PictureThreadBegins(s) /\ BesideNodes
  \/ \E s \in Stills : InNodes /\ Fill(s) /\ BesideNodes
  \/ \E s \in Stills : InNodes /\ Callbacks(s) /\ BesideNodes
TorchParts ==
  \/ InTorch /\ TorchOn /\ BesideTorch
  \/ InTorch /\ TorchOff /\ BesideTorch
  \/ InTorch /\ TorchReports /\ BesideTorch
  \/ InTorch /\ OpenReleasesTorch /\ BesideTorch
  \/ InTorch /\ OpenAnnounces /\ BesideTorch
  \/ InTorch /\ OpenSucceeds /\ BesideTorch
  \/ InTorch /\ OpenFails /\ BesideTorch
  \/ InTorch /\ CloseBegins /\ BesideTorch
  \/ InTorch /\ CloseAnnounces /\ BesideTorch
  \/ \E camera \in Cameras : InTorch /\ OpenBegins(camera) /\ BesideTorch
MCNext == StreamsParts \/ SettingsParts \/ NodesParts \/ TorchParts

MCSpec == MCInit /\ [][MCNext]_cameraVars

(* The lists of streams: photos, a movie, one with no bridge, analysis, a    *)
(* JPEG alone, and one that only the front camera has.                      *)
Nv(size) == [format |-> "nv", size |-> size, encoder |-> FALSE]
Encoder(size) == [format |-> "nv", size |-> size, encoder |-> TRUE]
Yuv(size) == [format |-> "yuv", size |-> size, encoder |-> FALSE]
Blob(size) == [format |-> "blob", size |-> size, encoder |-> FALSE]
StreamLists == {
  <<Nv(<<1280,720>>), Blob(<<3264,2448>>)>>,
  <<Nv(<<640,480>>), Encoder(<<1280,720>>), Blob(<<640,480>>)>>,
  <<Nv(<<1280,720>>), Nv(<<640,480>>)>>,
  <<Nv(<<1280,720>>), Yuv(<<640,480>>), Blob(<<640,480>>)>>,
  <<Blob(<<800,480>>)>>,
  <<Blob(<<1600,1200>>)>>}

(* The requests: a scan begins, with torch and a negative exposure; the      *)
(* continuous mode, which a scan that is late takes back; a still in a scene *)
(* mode, with the scan cancelled.                                           *)
Plain == [scene |-> "disabled", ae |-> "ON", flash |-> "OFF", af |-> "AUTO", awb |-> "AUTO",
          effect |-> "OFF", exposure |-> 0, crop |-> 3264, quality |-> 90, rotation |-> 0,
          gps |-> "none", trigger |-> "IDLE", still |-> FALSE]
RequestKinds ==
  { [Plain EXCEPT !.trigger = "START", !.rotation = 90, !.gps = "here", !.exposure = -4,
                  !.flash = "TORCH"],
    [Plain EXCEPT !.awb = "DAYLIGHT", !.ae = "AUTO_FLASH", !.crop = 1600,
                  !.af = "CONTINUOUS_VIDEO"],
    [Plain EXCEPT !.scene = "BEACH", !.effect = "MONO", !.rotation = 180, !.exposure = 4,
                  !.still = TRUE, !.trigger = "CANCEL"] }

(* Stills: without a position and a large thumbnail, with one and a small one.*)
Device == [maker |-> 7, model |-> 8, software |-> 10]
Position(degrees) ==
  [latitude |-> degrees, longitude |-> degrees, altitude |-> degrees, timestamp |-> 1,
   method |-> TRUE]
StillKinds == { AttributesOf(Device, Position(-1), 90, 60000),
                AttributesOf(Device, Position(7), 0, 3000) }
=============================================================================
