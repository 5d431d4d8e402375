----------------------------- MODULE TorchMode -----------------------------
(***************************************************************************)
(* The camera module's torch (camera3/Camera3.cpp): set_torch_mode() keeps *)
(* a native backend of its own, opening the rear camera takes it away, and *)
(* the framework learns the state from a callback.  gTorchMutex is held    *)
(* over a whole set_torch_mode() but not while a camera is opened or       *)
(* closed, which report to the same callback.                              *)
(***************************************************************************)
EXTENDS Naturals

CONSTANTS
  MaxTorchCalls, MaxOpens, MaxTorchFaults   \* bounds

Cameras == {0, 1}   \* the rear camera has the flash
NoCamera == 2

VARIABLES
  torchBackend,    \* gTorchBackend # nullptr
  torchCall,       \* what set_torch_mode() still has to report, or "none"
  opening,         \* the camera being opened or closed and the next step
  openCamera,      \* the camera that is open, or NoCamera
  reported,        \* the last status of torch "0" the framework got
  raced,           \* a torch call acted after an open had begun (ghost)
  torchBudget

torchVars == <<torchBackend, torchCall, opening, openCamera, reported, raced,
               torchBudget>>

(* set_callbacks() comes first and reports the torch as off.                *)
TorchInit ==
  /\ torchBackend = FALSE /\ torchCall = "none"
  /\ opening = [step |-> "none", camera |-> NoCamera]
  /\ openCamera = NoCamera
  /\ reported = "OFF" /\ raced = FALSE
  /\ torchBudget = [calls |-> MaxTorchCalls, opens |-> MaxOpens, faults |-> MaxTorchFaults]

Take(what) ==
  /\ torchBudget[what] > 0
  /\ torchBudget' = [torchBudget EXCEPT ![what] = @ - 1]

(* notifyTorchStatus()                                                      *)
Notify(status) == reported' = status

-----------------------------------------------------------------------------
(* set_torch_mode("0", ...), with gTorchMutex from here to TorchReports.     *)
(* params_apply() returns 0 whatever the driver says, so that an LED that    *)
(* was refused is reported as lit; only the open can fail.                  *)
Meets == raced' = (raced \/ opening.camera = 0 \/ openCamera = 0)
TorchOn ==
  /\ torchCall = "none"
  /\ \/ torchBackend /\ torchCall' = "ON" /\ Take("calls") /\ UNCHANGED torchBackend
     \/ ~torchBackend /\ torchBackend' = TRUE /\ torchCall' = "ON" /\ Take("calls")
     \/ /\ ~torchBackend /\ torchCall' = "OFF" /\ UNCHANGED torchBackend
        /\ torchBudget.calls > 0 /\ Take("faults")
  /\ Meets
  /\ UNCHANGED <<opening, openCamera, reported>>
(* Mutant of TorchOff: the closed backend stays gTorchBackend.              *)
TorchOffKeepsBackend ==
  /\ torchCall = "none" /\ Take("calls")
  /\ torchCall' = "OFF"
  /\ Meets
  /\ UNCHANGED <<torchBackend, opening, openCamera, reported>>
TorchOff ==
  /\ torchCall = "none" /\ Take("calls")
  /\ torchBackend' = FALSE /\ torchCall' = "OFF"
  /\ Meets
  /\ UNCHANGED <<opening, openCamera, reported>>
TorchReports ==
  /\ torchCall # "none"
  /\ Notify(torchCall) /\ torchCall' = "none"
  /\ UNCHANGED <<torchBackend, opening, openCamera, raced, torchBudget>>

-----------------------------------------------------------------------------
(* openCamera() and close(); the service has one camera open at a time       *)
(* (resource_cost 100).                                                     *)
OpenBegins(camera) ==
  /\ opening.step = "none" /\ openCamera = NoCamera /\ Take("opens")
  /\ opening' = [step |-> IF camera = 0 THEN "release" ELSE "backend", camera |-> camera]
  /\ UNCHANGED <<torchBackend, torchCall, openCamera, reported, raced>>
OpenReleasesTorch ==
  /\ opening.step = "release" /\ torchCall = "none"
  /\ torchBackend' = FALSE
  /\ opening' = [opening EXCEPT !.step = "announce"]
  /\ UNCHANGED <<torchCall, openCamera, reported, raced, torchBudget>>
OpenAnnounces ==
  /\ opening.step = "announce"
  /\ Notify("NOT_AVAILABLE")
  /\ opening' = [opening EXCEPT !.step = "backend"]
  /\ UNCHANGED <<torchBackend, torchCall, openCamera, raced, torchBudget>>
OpenSucceeds ==
  /\ opening.step = "backend"
  /\ openCamera' = opening.camera
  /\ opening' = [step |-> "none", camera |-> NoCamera]
  /\ UNCHANGED <<torchBackend, torchCall, reported, raced, torchBudget>>
OpenFails ==
  /\ opening.step = "backend" /\ Take("faults")
  /\ opening' = [step |-> "none", camera |-> NoCamera]
  /\ IF opening.camera = 0 THEN Notify("OFF") ELSE UNCHANGED reported
  /\ UNCHANGED <<torchBackend, torchCall, openCamera, raced>>
CloseBegins ==
  /\ opening.step = "none" /\ openCamera # NoCamera
  /\ opening' = [step |-> "closed", camera |-> openCamera] /\ openCamera' = NoCamera
  /\ UNCHANGED <<torchBackend, torchCall, reported, raced, torchBudget>>
CloseAnnounces ==
  /\ opening.step = "closed"
  /\ opening' = [step |-> "none", camera |-> NoCamera]
  /\ IF opening.camera = 0 THEN Notify("OFF") ELSE UNCHANGED reported
  /\ UNCHANGED <<torchBackend, torchCall, openCamera, raced, torchBudget>>

TorchNext ==
  \/ TorchOn \/ TorchOff \/ TorchReports
  \/ \E camera \in Cameras : OpenBegins(camera)
  \/ OpenReleasesTorch \/ OpenAnnounces \/ OpenSucceeds \/ OpenFails
  \/ CloseBegins \/ CloseAnnounces

TorchSpec == TorchInit /\ [][TorchNext]_torchVars

-----------------------------------------------------------------------------
(* What the framework was told last is true whenever nothing is on its way:  *)
(* a torch reported as lit has its backend even when the call met an         *)
(* openCamera(); and as long as none did, an unlit one has none, the rear    *)
(* camera never shares the sensor with it, and while that camera is open     *)
(* the torch is not available (setTorchMode 3879-3929, openCamera 3935-3957).*)
TorchStatusIsTrue ==
  opening.step = "none" /\ torchCall = "none" =>
    /\ reported = "ON" => torchBackend
    /\ ~raced => /\ torchBackend <=> reported = "ON"
                 /\ openCamera = 0 <=> reported = "NOT_AVAILABLE"
=============================================================================
