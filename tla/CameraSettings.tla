--------------------------- MODULE CameraSettings ---------------------------
(***************************************************************************)
(* The settings of a Camera3 request on their way to the rear sensor: the  *)
(* wrapper rewrites the backend's parameter list, the backend writes what  *)
(* changed to the driver, a scan of the auto focus runs in a thread of its *)
(* own, and a still takes some values with it and reads others later.      *)
(*                                                                         *)
(*   camera3/Camera3.cpp      updateBackendParameters, handleAfTrigger,    *)
(*                            resolveCropRegion, takePictureWorker         *)
(*   camera3/exynos_camera.c  params_apply and its handlers, auto_focus_*  *)
(*   camera3/exynos_param.c   exynos_params_string_set                     *)
(*   camera3/exynos_exif.c    what is read when a still is encoded         *)
(*                                                                         *)
(* The sizes and the sensor's mode are in StreamSetup.  A refused control  *)
(* is a fault; the controls of the auto focus motor are never refused.     *)
(*                                                                         *)
(* params_apply() has no lock: a request applies its list under            *)
(* backendOpsMutex_, a scan applies its own without it.  It is cut where   *)
(* the two can get between each other: the test and the setting of         *)
(* preview_params_set, the read of the list, the comparison with the       *)
(* cached control, the s_ctrl, the store into the cache.  The handlers     *)
(* share nothing but preview_params_set, so each of these is taken for all *)
(* the controls at once; the focus is one step, with the s_ctrls.          *)
(***************************************************************************)
EXTENDS Integers, Sequences, FiniteSets

CONSTANTS
  SettingsRequests,     \* the requests the framework may send
  Scans,                \* the auto focus threads that may be started
  Refusable,            \* the controls that the driver may refuse
  Freed,                \* the controls whose string may be read after it is freed
  MaxSettings,          \* requests
  MaxSettingsMishaps    \* controls refused and sensor restarts

(* Who may be in params_apply(): the holder of backendOpsMutex_, the scans.  *)
Locked == 0
Appliers == {Locked} \cup Scans
ASSUME ScansAssumption == Locked \notin Scans

NoValue == "none"

(* scene: of CONTROL_SCENE_MODE when the mode is USE_SCENE_MODE, or          *)
(* "disabled"; crop: the width of SCALER_CROP_REGION; gps: the coordinates.  *)
ASSUME RequestAssumption ==
  \A r \in SettingsRequests :
    DOMAIN r = {"scene", "ae", "flash", "af", "awb", "effect", "exposure", "crop",
                "quality", "rotation", "gps", "trigger", "still"}

VARIABLES
  list,            \* the backend's parameter list
  cachedControl, sensorControl,  \* struct exynos_camera, the driver (external)
  focus,           \* focus_mode, the motor, touch_focus_blocked, camera_sensor_mode
  paramsSet,       \* preview_params_set
  previewing, recordingOn,
  pending,         \* what is left of a call: a trigger, or a configuration's settings
  photo,           \* the still: queued with its snapshot, taken, encoded
  applying,        \* of each applier: where it is, and its local variables
  shown,           \* the last settings written, the controls refused or crossed (ghost)
  scans,           \* the threads' program counters
  afFlags, afState,
  cancel,          \* a cancel_auto_focus waits for the thread; it has stood (ghost)
  overlapped,      \* a scan started while another thread was alive (ghost)
  settingsBudget

sensorVars == <<cachedControl, sensorControl, focus, paramsSet, applying, shown>>
scanVars == <<scans, afFlags, afState, cancel, overlapped>>
settingsVars == <<list, sensorVars, previewing, recordingOn, pending, photo, scanVars,
                  settingsBudget>>

Use(what) ==
  /\ settingsBudget[what] > 0
  /\ settingsBudget' = [settingsBudget EXCEPT ![what] = @ - 1]

-----------------------------------------------------------------------------
(* The names: a metadata value to a parameter's string, the string to what   *)
(* the driver gets.                                                         *)
LegacyScene == [disabled |-> "auto", Action |-> "action", PORTRAIT |-> "portrait",
  LANDSCAPE |-> "landscape", NIGHT |-> "night", BEACH |-> "beach", SNOW |-> "snow",
  SUNSET |-> "sunset", FIREWORKS |-> "fireworks", PARTY |-> "party",
  CANDLELIGHT |-> "candlelight"]
SceneControl == [auto |-> "NONE", portrait |-> "PORTRAIT", landscape |-> "LANDSCAPE",
  night |-> "NIGHTSHOT", beach |-> "BEACH_SNOW", snow |-> "BEACH_SNOW", sunset |-> "SUNSET",
  fireworks |-> "FIREWORKS", action |-> "SPORTS", party |-> "PARTY_INDOOR",
  candlelight |-> "CANDLE_LIGHT"]

LegacyFlash(ae, flash) ==
  CASE flash = "TORCH" -> "torch"
    [] flash = "SINGLE" -> "on"
    [] OTHER -> [ON |-> "off", AUTO_FLASH |-> "auto", ALWAYS_FLASH |-> "on"][ae]
FlashControl == [off |-> "OFF", auto |-> "AUTO", on |-> "ON", torch |-> "TORCH"]

LegacyFocus == [OFF |-> "infinity", AUTO |-> "auto", MACRO |-> "macro",
                CONTINUOUS_VIDEO |-> "continuous-video"]
FocusMode(s) == CASE s \in {"continuous-video", "continuous-picture"} -> "continuous"
                  [] s \in {"infinity", "macro", "fixed"} -> s
                  [] OTHER -> "auto"

LegacyBalance == [AUTO |-> "auto", INCANDESCENT |-> "incandescent",
  FLUORESCENT |-> "fluorescent", DAYLIGHT |-> "daylight", CLOUDY |-> "cloudy-daylight"]
BalanceControl(s) == CASE s = "incandescent" -> "TUNGSTEN" [] s = "fluorescent" -> "FLUORESCENT"
                       [] s = "daylight" -> "SUNNY" [] s = "cloudy-daylight" -> "CLOUDY"
                       [] OTHER -> "AUTO"
LegacyEffect == [OFF |-> "none", MONO |-> "mono", NEGATIVE |-> "negative",
                 SEPIA |-> "sepia", AQUA |-> "aqua"]
EffectControl == [none |-> "NONE", mono |-> "BNW", negative |-> "NEGATIVE",
                  sepia |-> "SEPIA", aqua |-> "AQUA"]

(* resolveCropRegion(): the zoom step nearest to the crop, the lower of two. *)
SensorWidth == 3264
ZoomRatios == <<100, 102, 104, 109, 111, 113, 119, 121, 124, 131, 134, 138, 146, 150, 155, 159,
  165, 170, 182, 189, 200, 213, 222, 232, 243, 255, 283, 300, 319, 364, 400>>
CropRatio(width) ==
  LET ratio == (SensorWidth * 100 + width \div 2) \div width
  IN IF ratio > 400 THEN 400 ELSE IF ratio < 100 THEN 100 ELSE ratio
Distance(a, b) == IF a > b THEN a - b ELSE b - a
ZoomIndex == [width \in {r.crop : r \in SettingsRequests} |->
  LET miss(i) == Distance(ZoomRatios[i], CropRatio(width)) IN
  (CHOOSE i \in DOMAIN ZoomRatios : \A j \in DOMAIN ZoomRatios :
     miss(i) < miss(j) \/ (miss(i) = miss(j) /\ i <= j)) - 1]

-----------------------------------------------------------------------------
(* updateBackendParameters(): the list after a request.  A scene mode leaves *)
(* the keys it owns as they are.                                            *)
UsesScene(r) == LegacyScene[r.scene] # "auto"
Written(l, r) ==
  LET common == [l EXCEPT !.quality = r.quality, !.rotation = r.rotation, !.gps = r.gps,
                          !.zoom = ZoomIndex[r.crop], !.scene = LegacyScene[r.scene],
                          !.effect = LegacyEffect[r.effect]]
  IN IF UsesScene(r) THEN common
     ELSE [common EXCEPT !.exposure = r.exposure, !.flash = LegacyFlash(r.ae, r.flash),
                         !.focus = LegacyFocus[r.af], !.whitebalance = LegacyBalance[r.awb]]
(* configureStreams() passes no settings at all.                            *)
WrittenWithout(l, video) ==
  [l EXCEPT !.zoom = 0, !.scene = "auto", !.flash = "off", !.hint = video]

(* exynos_params_string_set() sets every key of the string and removes none. *)
Merged(l, string) == [string EXCEPT !.gps = IF @ = NoValue THEN l.gps ELSE @]

Controls == {"scene", "flash", "whitebalance", "effect", "exposure", "zoom", "quality"}
Value(l) == [scene |-> SceneControl[l.scene], flash |-> FlashControl[l.flash],
             whitebalance |-> BalanceControl(l.whitebalance),
             effect |-> EffectControl[l.effect], exposure |-> l.exposure, zoom |-> l.zoom,
             quality |-> l.quality]
InRange(value) == {c \in Controls : c # "exposure" \/ value.exposure \in -4..4}

(* The focus part of params_apply(): a touched area may block the focus mode *)
(* for three rounds, recording refuses it, and leaving or repeating the      *)
(* continuous mode stops the motor.                                         *)
Blocked(f, string) ==
  CASE f.sensor = "camera" -> [f EXCEPT !.blocked = 0]
    [] f.sensor # "camera" /\ FocusMode(string) = "auto" /\ f.mode = "continuous" ->
         [f EXCEPT !.blocked = 3]
    [] OTHER -> f
FocusSet(f, string, force, refused) ==
  LET mode == FocusMode(string)
      skipped == recordingOn \/ (~force /\ f.mode = mode)
      stopped == IF f.mode = "auto" THEN [f EXCEPT !.motor = "OFF"] ELSE f
  IN CASE skipped -> f
       [] ~skipped /\ refused -> stopped
       [] OTHER -> [stopped EXCEPT !.mode = mode,
                      !.motor = CASE f.mode = "continuous" -> "OFF"
                                  [] f.mode # "continuous" /\ mode = "continuous" -> "ON"
                                  [] OTHER -> @]

Updated(control, value, written) ==
  [c \in Controls |-> IF c \in written THEN value[c] ELSE control[c]]

(* exynos_v4l2_s_ctrl() returns the control's value: a handler takes what is *)
(* below zero for a failure.  Only an exposure can be.                      *)
TakenFor(value) == {c \in Controls : c # "exposure" \/ value.exposure >= 0}

PresetList == [scene |-> "auto", flash |-> "off", focus |-> "auto", whitebalance |-> "auto",
  effect |-> "none", exposure |-> 0, zoom |-> 0, quality |-> 100, rotation |-> 0,
  gps |-> NoValue, hint |-> FALSE]
NoPhoto == [step |-> "none", string |-> PresetList, rotation |-> 0, gps |-> NoValue]

-----------------------------------------------------------------------------
(* params_apply(), one step after the other.  Who is inside while another is *)
(* has met it, and crosses the controls that either may write (ghosts).     *)
NotApplying == [step |-> "none", string |-> PresetList, force |-> FALSE, met |-> FALSE,
                value |-> Value(PresetList), writes |-> {}, refused |-> {}]

Unshown == [shown EXCEPT !.valid = FALSE, !.value = Value(PresetList), !.refused = {}]

Inside(a) == applying[a].step \notin {"none", "list"}
Others(a) == {b \in Appliers \ {a} : Inside(b)}
Claims(p) == IF p.force THEN Controls ELSE p.writes
CrossedBy(p) == IF p.met THEN Claims(p) ELSE {}

Entered(a) ==
  [b \in Appliers |->
     IF b = a THEN [NotApplying EXCEPT !.step = "test", !.met = Others(a) # {}]
     ELSE IF Inside(b) THEN [applying[b] EXCEPT !.met = TRUE] ELSE applying[b]]
CrossedAll(a) ==
  {c \in Controls : c \in shown.crossed \/ \E b \in Others(a) : c \in Claims(applying[b])}
StepsTo(a, p) ==
  /\ applying' = [applying EXCEPT ![a] = p]
  /\ shown' = [shown EXCEPT !.crossed = @ \cup CrossedBy(p)]

(* set_parameters(): the string is made from the list, or was kept by the    *)
(* still, and then written into the list.  What another thread reads of the  *)
(* list meanwhile may be a string that is freed: it matches no name.        *)
SetParameters(string) ==
  applying' = [applying EXCEPT ![Locked] = [NotApplying EXCEPT !.step = "list",
                                                               !.string = string]]
NoName == [scene |-> "NONE", flash |-> "AUTO", whitebalance |-> "AUTO", effect |-> "NONE"]
Torn(p, names) ==
  [p EXCEPT !.value = [c \in Controls |-> IF c \in names THEN NoName[c] ELSE @[c]]]
ListWritten ==
  /\ applying[Locked].step = "list"
  /\ list' = Merged(list, applying[Locked].string)
  /\ \E names \in SUBSET (Freed \cap DOMAIN NoName) :
       applying' = [a \in Appliers |->
         IF applying[a].step = "compare" THEN Torn(Entered(Locked)[a], names)
                                         ELSE Entered(Locked)[a]]
  /\ shown' = [Unshown EXCEPT !.crossed = CrossedAll(Locked)]
  /\ UNCHANGED <<cachedControl, sensorControl, focus, paramsSet, previewing, recordingOn,
                 pending, photo, scanVars, settingsBudget>>

ApplyTests(a) ==
  /\ applying[a].step = "test"
  /\ StepsTo(a, [applying[a] EXCEPT !.step = "read", !.force = ~paramsSet])
  /\ UNCHANGED <<list, cachedControl, sensorControl, focus, paramsSet, previewing, recordingOn,
                 pending, photo, scanVars, settingsBudget>>
ApplyReads(a) ==
  /\ applying[a].step = "read"
  /\ applying' = [applying EXCEPT ![a] = [@ EXCEPT !.step = "compare", !.value = Value(list)]]
  /\ paramsSet' = (paramsSet \/ applying[a].force)
  /\ UNCHANGED <<list, cachedControl, sensorControl, focus, shown, previewing, recordingOn,
                 pending, photo, scanVars, settingsBudget>>
ApplyCompares(a) ==
  LET p == applying[a] IN
  /\ p.step = "compare"
  /\ StepsTo(a, [p EXCEPT !.step = "control",
       !.writes = {c \in InRange(p.value) : p.force \/ p.value[c] # cachedControl[c]}])
  /\ UNCHANGED <<list, cachedControl, sensorControl, focus, paramsSet, previewing, recordingOn,
                 pending, photo, scanVars, settingsBudget>>
ApplyControls(a) ==
  LET p == applying[a]
      f == [focus EXCEPT !.sensor = IF list.hint THEN "movie" ELSE "camera"]
      touched == IF p.force /\ f.blocked = 0 THEN Blocked(f, list.focus) ELSE f
      blocks == f.blocked = 0 /\ touched.blocked > 0
  IN /\ p.step = "control"
     /\ \E refused \in SUBSET ((p.writes \cup {"focus"}) \cap Refusable) :
          /\ Cardinality(refused) <= settingsBudget.mishaps
          /\ settingsBudget' = [settingsBudget EXCEPT !.mishaps = @ - Cardinality(refused)]
          /\ sensorControl' = Updated(sensorControl, p.value, p.writes \ refused)
          /\ applying' = [applying EXCEPT ![a] = [@ EXCEPT !.step = "cache", !.refused = refused]]
          /\ focus' = CASE f.blocked > 0 -> [f EXCEPT !.blocked = @ - 1]
                        [] blocks -> touched
                        [] OTHER -> FocusSet(touched, list.focus, p.force, "focus" \in refused)
     /\ list' = IF blocks THEN [list EXCEPT !.focus = "continuous-picture"] ELSE list
     /\ UNCHANGED <<cachedControl, paramsSet, shown, previewing, recordingOn, pending, photo,
                    scanVars>>

(* The handlers cache what they took for done.  An apply that met no other   *)
(* leaves what it wrote no longer crossed.                                   *)
ApplyEnds(a) ==
  LET p == applying[a]
      known == [shown EXCEPT !.lost = IF p.force THEN p.refused ELSE @,
                             !.crossed = IF p.met THEN @ ELSE @ \ (p.writes \ p.refused)]
  IN /\ applying' = [applying EXCEPT ![a] = NotApplying]
     /\ shown' = IF a = Locked
                 THEN [known EXCEPT !.valid = TRUE, !.value = p.value, !.refused = p.refused]
                 ELSE known
     /\ scans' = [s \in Scans |-> IF s = a THEN "on" ELSE scans[s]]
     /\ UNCHANGED <<list, sensorControl, focus, paramsSet, previewing, recordingOn, pending,
                    photo, afFlags, afState, cancel, overlapped, settingsBudget>>
(* Mutant of ApplyCaches: a value is cached although the driver refused it.  *)
ApplyCachesEagerly(a) ==
  LET p == applying[a] IN
  /\ p.step = "cache"
  /\ cachedControl' = Updated(cachedControl, p.value, p.writes \cap TakenFor(p.value))
  /\ ApplyEnds(a)
ApplyCaches(a) ==
  LET p == applying[a] IN
  /\ p.step = "cache"
  /\ cachedControl' = Updated(cachedControl, p.value,
                              (p.writes \ p.refused) \cap TakenFor(p.value))
  /\ ApplyEnds(a)

-----------------------------------------------------------------------------
SettingsInit ==
  /\ list = PresetList
  /\ cachedControl = Value(PresetList) /\ sensorControl = Value(PresetList)
  /\ focus = [mode |-> "auto", motor |-> "OFF", blocked |-> 0, sensor |-> "camera"]
  /\ paramsSet = TRUE /\ previewing = FALSE /\ recordingOn = FALSE
  /\ pending = "none" /\ photo = NoPhoto
  /\ applying = [a \in Appliers |-> NotApplying]
  /\ shown = [valid |-> TRUE, value |-> Value(PresetList), refused |-> {}, lost |-> {},
              crossed |-> {}]
  /\ scans = [s \in Scans |-> "unused"]
  /\ afFlags = [running |-> FALSE, enabled |-> FALSE, started |-> FALSE]
  /\ afState = "INACTIVE"
  /\ cancel = [waits |-> FALSE, stood |-> FALSE] /\ overlapped = FALSE
  /\ settingsBudget = [requests |-> MaxSettings, mishaps |-> MaxSettingsMishaps]

(* backendOpsMutex_ is free: a cancel holds it while it waits, a request     *)
(* while it applies, the worker from a still's settings to picture_start(). *)
BackendFree == ~cancel.waits /\ photo.step # "start" /\ applying[Locked].step = "none"

(* configureStreams(): the preview stops, the nodes may be opened again (the *)
(* sensor forgets its controls), and the list is written without settings.   *)
(* Mutant of SessionStops: the list is not forced after it.                 *)
SessionStopsUnforced(reset) ==
  /\ BackendFree /\ pending = "none" /\ photo.step \in {"none", "encoded"}
  /\ Use("mishaps")
  /\ pending' = "configure"
  /\ previewing' = FALSE /\ recordingOn' = FALSE /\ photo' = NoPhoto
  /\ sensorControl' = IF reset THEN [c \in Controls |-> NoValue] ELSE sensorControl
  /\ focus' = [focus EXCEPT !.motor = IF reset THEN "OFF" ELSE @]
  /\ shown' = Unshown
  /\ UNCHANGED <<list, paramsSet, cachedControl, applying, scanVars>>
SessionStops(reset) ==
  /\ BackendFree /\ pending = "none" /\ photo.step \in {"none", "encoded"}
  /\ Use("mishaps")
  /\ pending' = "configure"
  /\ previewing' = FALSE /\ recordingOn' = FALSE /\ photo' = NoPhoto
  /\ paramsSet' = (paramsSet /\ ~previewing /\ ~reset)
  /\ sensorControl' = IF reset THEN [c \in Controls |-> NoValue] ELSE sensorControl
  /\ focus' = [focus EXCEPT !.motor = IF reset THEN "OFF" ELSE @]
  /\ shown' = Unshown
  /\ UNCHANGED <<list, cachedControl, applying, scanVars>>
SessionConfigured(video) ==
  /\ BackendFree /\ pending = "configure"
  /\ SetParameters(WrittenWithout(list, video))
  /\ pending' = "none"
  /\ UNCHANGED <<list, cachedControl, sensorControl, focus, paramsSet, shown, previewing,
                 recordingOn, photo, scanVars, settingsBudget>>

PreviewRuns ==
  /\ BackendFree /\ pending # "configure" /\ ~previewing /\ photo.step # "taken"
  /\ previewing' = TRUE
  /\ recordingOn' = list.hint
  /\ UNCHANGED <<list, sensorVars, pending, photo, scanVars, settingsBudget>>

(* processCaptureRequest(): its settings, then its trigger in a section of   *)
(* its own; a still keeps the string it wrote.                              *)
RequestSettings(r) ==
  LET string == [Written(list, r) EXCEPT !.hint = list.hint] IN
  /\ BackendFree /\ pending = "none"
  /\ r.still => photo.step \in {"none", "encoded"}
  /\ Use("requests")
  /\ SetParameters(string)
  /\ pending' = IF r.trigger = "IDLE" THEN "none" ELSE r.trigger
  /\ photo' = IF r.still THEN [NoPhoto EXCEPT !.step = "queued", !.string = string] ELSE photo
  /\ UNCHANGED <<list, cachedControl, sensorControl, focus, paramsSet, shown, previewing,
                 recordingOn, scanVars>>

(* takePictureWorker(): the still's own string again, then picture_start(),  *)
(* which keeps the rotation and stops the preview.                          *)
StillStarts ==
  /\ BackendFree /\ photo.step = "queued"
  /\ SetParameters(photo.string)
  /\ photo' = [photo EXCEPT !.step = "start"]
  /\ UNCHANGED <<list, cachedControl, sensorControl, focus, paramsSet, shown, previewing,
                 recordingOn, pending, scanVars, settingsBudget>>
StillTaken ==
  /\ photo.step = "start" /\ applying[Locked].step = "none"
  /\ photo' = [photo EXCEPT !.step = "taken", !.rotation = list.rotation]
  /\ previewing' = FALSE /\ recordingOn' = FALSE
  /\ paramsSet' = (paramsSet /\ ~previewing)
  /\ UNCHANGED <<list, cachedControl, sensorControl, focus, applying, shown, pending, scanVars,
                 settingsBudget>>

(* The picture thread fills the EXIF: the kept rotation, the list's GPS.    *)
(* Mutant of StillEncoded: the list's rotation too.                         *)
StillEncodedFromList ==
  /\ photo.step = "taken"
  /\ photo' = [photo EXCEPT !.step = "encoded", !.rotation = list.rotation, !.gps = list.gps]
  /\ UNCHANGED <<list, sensorVars, previewing, recordingOn, pending, scanVars, settingsBudget>>
StillEncoded ==
  /\ photo.step = "taken"
  /\ photo' = [photo EXCEPT !.step = "encoded", !.gps = list.gps]
  /\ UNCHANGED <<list, sensorVars, previewing, recordingOn, pending, scanVars, settingsBudget>>

-----------------------------------------------------------------------------
(* The auto focus.  A thread has set no flag before its first step; the      *)
(* flags are common to all threads.                                         *)
Alive(s) == scans[s] \notin {"unused", "gone"}
Idle == \A s \in Scans : ~Alive(s)
NewScan == CHOOSE s \in Scans : scans[s] = "unused"

(* handleAfTrigger() with START: the state is set whatever auto_focus_start()*)
(* does, which counts down a blocked touch, wants the mode "auto" and no     *)
(* running thread.                                                          *)
TriggerStart ==
  LET starts == focus.blocked = 0 /\ focus.mode = "auto" /\ ~afFlags.running IN
  /\ BackendFree /\ pending = "START"
  /\ starts => \E s \in Scans : scans[s] = "unused"
  /\ pending' = "none" /\ afState' = "ACTIVE_SCAN"
  /\ cancel' = [cancel EXCEPT !.stood = FALSE]
  /\ focus' = [focus EXCEPT !.blocked = IF @ > 0 THEN @ - 1 ELSE 0]
  /\ IF starts
     THEN /\ afFlags' = [afFlags EXCEPT !.enabled = TRUE, !.started = TRUE]
          /\ scans' = [scans EXCEPT ![NewScan] = "created"]
          /\ overlapped' = (overlapped \/ ~Idle)
     ELSE UNCHANGED <<afFlags, scans, overlapped>>
  /\ UNCHANGED <<list, cachedControl, sensorControl, paramsSet, applying, shown, previewing,
                 recordingOn, photo, settingsBudget>>

(* CANCEL: auto_focus_stop() waits for the thread unless no flag is set; the *)
(* state is reset after it.                                                 *)
TriggerCancel ==
  /\ BackendFree /\ pending = "CANCEL"
  /\ pending' = "none"
  /\ IF afFlags.enabled \/ afFlags.started
     THEN /\ afFlags' = [afFlags EXCEPT !.enabled = FALSE]
          /\ cancel' = [waits |-> TRUE, stood |-> FALSE] /\ UNCHANGED afState
     ELSE /\ afState' = "INACTIVE" /\ cancel' = [waits |-> FALSE, stood |-> TRUE]
          /\ UNCHANGED afFlags
  /\ UNCHANGED <<list, sensorVars, previewing, recordingOn, photo, scans, overlapped,
                 settingsBudget>>
(* Mutant of CancelEnds: started is not waited for.                         *)
CancelEndsEarly ==
  /\ cancel.waits /\ ~afFlags.running
  /\ cancel' = [waits |-> FALSE, stood |-> TRUE] /\ afState' = "INACTIVE"
  /\ UNCHANGED <<list, sensorVars, previewing, recordingOn, pending, photo, scans, afFlags,
                 overlapped, settingsBudget>>
CancelEnds ==
  /\ cancel.waits /\ ~afFlags.running /\ ~afFlags.started
  /\ cancel' = [waits |-> FALSE, stood |-> TRUE] /\ afState' = "INACTIVE"
  /\ UNCHANGED <<list, sensorVars, previewing, recordingOn, pending, photo, scans, afFlags,
                 overlapped, settingsBudget>>
(* The wait is for a second at most: then the call returns although the      *)
(* thread is there, and what the thread notifies comes after the reset.     *)
CancelGivesUp ==
  /\ cancel.waits /\ (afFlags.running \/ afFlags.started)
  /\ cancel' = [waits |-> FALSE, stood |-> FALSE] /\ afState' = "INACTIVE"
  /\ UNCHANGED <<list, sensorVars, previewing, recordingOn, pending, photo, scans, afFlags,
                 overlapped, settingsBudget>>

ScanBegins(s) ==
  /\ scans[s] = "created"
  /\ scans' = [scans EXCEPT ![s] = "prepare"]
  /\ afFlags' = [afFlags EXCEPT !.running = TRUE]
  /\ UNCHANGED <<list, sensorVars, previewing, recordingOn, pending, photo, afState, cancel,
                 overlapped, settingsBudget>>

(* It needs a preview, gives up when none starts in time, and puts the list  *)
(* back to "auto" itself, without backendOpsMutex_.                         *)
ScanPrepares(s) ==
  /\ scans[s] = "prepare"
  /\ \/ /\ previewing /\ focus.mode # "auto"
        /\ scans' = [scans EXCEPT ![s] = "apply"]
        /\ list' = [list EXCEPT !.focus = "auto"]
        /\ applying' = Entered(s)
        /\ shown' = [shown EXCEPT !.crossed = CrossedAll(s)]
     \/ /\ ~(previewing /\ focus.mode # "auto")
        /\ scans' = [scans EXCEPT ![s] = IF previewing THEN "on" ELSE "off"]
        /\ UNCHANGED <<list, applying, shown>>
  /\ UNCHANGED <<cachedControl, sensorControl, focus, paramsSet, previewing, recordingOn,
                 pending, photo, afFlags, afState, cancel, overlapped, settingsBudget>>
ScanRuns(s) ==
  /\ scans[s] = "on"
  /\ scans' = [scans EXCEPT ![s] = "scan"]
  /\ focus' = [focus EXCEPT !.motor = "ON"]
  /\ UNCHANGED <<list, cachedControl, sensorControl, paramsSet, applying, shown, previewing,
                 recordingOn, pending, photo, afFlags, afState, cancel, overlapped,
                 settingsBudget>>

(* A result, or the flag taken away, ends the scan: the motor stops, the     *)
(* wrapper is told, and the flags are cleared after that.                   *)
ScanStops(s) ==
  /\ scans[s] \in {"scan", "off"}
  /\ \E focused \in IF scans[s] = "scan" /\ afFlags.enabled THEN BOOLEAN ELSE {FALSE} :
       scans' = [scans EXCEPT ![s] = IF focused THEN "focused" ELSE "unfocused"]
  /\ focus' = [focus EXCEPT !.motor = "OFF"]
  /\ UNCHANGED <<list, cachedControl, sensorControl, paramsSet, applying, shown, previewing,
                 recordingOn, pending, photo, afFlags, afState, cancel, overlapped,
                 settingsBudget>>
ScanNotifies(s) ==
  /\ scans[s] \in {"focused", "unfocused"}
  /\ afState' = IF scans[s] = "focused" THEN "FOCUSED_LOCKED" ELSE "NOT_FOCUSED_LOCKED"
  /\ scans' = [scans EXCEPT ![s] = "notified"]
  /\ UNCHANGED <<list, sensorVars, previewing, recordingOn, pending, photo, afFlags, cancel,
                 overlapped, settingsBudget>>
ScanEnds(s) ==
  /\ \/ /\ scans[s] = "notified"
        /\ scans' = [scans EXCEPT ![s] = "clears"]
        /\ afFlags' = [afFlags EXCEPT !.running = FALSE]
     \/ /\ scans[s] = "clears"
        /\ scans' = [scans EXCEPT ![s] = "gone"]
        /\ afFlags' = [afFlags EXCEPT !.enabled = FALSE, !.started = FALSE]
  /\ UNCHANGED <<list, sensorVars, previewing, recordingOn, pending, photo, afState, cancel,
                 overlapped, settingsBudget>>

SettingsNext ==
  \/ \E reset \in BOOLEAN : SessionStops(reset)
  \/ \E video \in BOOLEAN : SessionConfigured(video)
  \/ PreviewRuns
  \/ \E r \in SettingsRequests : RequestSettings(r)
  \/ StillStarts \/ StillTaken \/ StillEncoded
  \/ ListWritten
  \/ \E a \in Appliers : ApplyTests(a) \/ ApplyReads(a) \/ ApplyCompares(a)
                        \/ ApplyControls(a) \/ ApplyCaches(a)
  \/ TriggerStart \/ TriggerCancel \/ CancelEnds \/ CancelGivesUp
  \/ \E s \in Scans : ScanBegins(s) \/ ScanPrepares(s) \/ ScanRuns(s) \/ ScanStops(s)
                     \/ ScanNotifies(s) \/ ScanEnds(s)

SettingsSpec == SettingsInit /\ [][SettingsNext]_settingsVars

-----------------------------------------------------------------------------
(* After its settings were applied a request has every control at the       *)
(* driver, however often nodes were reopened, the preview restarted, a       *)
(* control refused before or a scan applied the list again: a value that the *)
(* driver refused is tried again with the next list.  Excused: what this     *)
(* list or the last forced one had refused, the exposure, which              *)
(* ExposureReachesSensor is about, and a control that was crossed: two       *)
(* threads were in params_apply() (1276-1381) at a time, one of them to      *)
(* write it, and no apply of one thread alone has written it since.          *)
SettingsReachSensor ==
  shown.valid =>
    \A c \in Controls \ (shown.refused \cup shown.lost \cup shown.crossed \cup {"exposure"}) :
      sensorControl[c] = shown.value[c]

(* Metadata.cpp:191 "const std::array<int32_t, 2> aeCompensationRange =      *)
(* {-4, 4};": what the camera offers between -4 and 4 is what it sets, 0     *)
(* after -4 too (exynos_camera_params_handler_exposure 780-804).            *)
ExposureReachesSensor ==
  shown.valid /\ "exposure" \notin shown.refused \cup shown.lost \cup shown.crossed =>
    sensorControl.exposure = shown.value.exposure

(* A CANCEL that saw its thread end stands: no late thread brings the state  *)
(* of a scan back, as long as no START met a thread that was still there     *)
(* (auto_focus_stop 2154-2182, handleAfTrigger 1271-1276).  One that gave up *)
(* after its second promises nothing: the thread's result follows it.       *)
CancelStands == cancel.stood /\ ~overlapped => afState = "INACTIVE"

(* The EXIF of a still has its own request's rotation, whatever requests     *)
(* follow it into the list ("picture_rotation is snapshotted before          *)
(* asynchronous capture starts", exynos_exif.c:227).                        *)
RotationOfStill == photo.step \in {"taken", "encoded"} => photo.rotation = photo.string.rotation

(* Camera3.cpp:2542-2545: "Reapply its exact Camera3 parameter snapshot now  *)
(* so newer repeating requests cannot replace JPEG orientation/quality       *)
(* before the backend creates EXIF and starts capture."                     *)
StillHasItsSettings == photo.step = "encoded" => photo.gps = photo.string.gps
=============================================================================
