------------------------- MODULE MCCaptureSession -------------------------
(* Scenarios for CaptureSession.                                            *)
EXTENDS CaptureSession

Scenario(script, withSettings, calls, mayClose, failures) ==
  [outputs |-> script, settings |-> withSettings, flushes |-> calls, close |-> mayClose,
   faults |-> failures, source |-> \E r \in DOMAIN script : script[r] # {"jpeg"}]

(* A still with its preview, and the preview again.                         *)
StillFirst == <<{"preview", "jpeg"}, {"preview"}>>
(* A still among repeating previews, with its preview or alone; recording    *)
(* with preview, video alone and preview alone.                             *)
Still == <<{"preview"}, {"preview", "jpeg"}, {"preview"}>>
StillAlone == <<{"preview"}, {"jpeg"}, {"preview"}>>
Video == <<{"preview", "video"}, {"video"}, {"preview"}>>

(* The still with flushes and a close at any moment and nothing failing; a   *)
(* still alone with every failure and no flush; a device with nothing but a  *)
(* JPEG stream; recording with every failure, a flush and a close.          *)
SafetyScenarios ==
  { Scenario(Still, {1}, 2, TRUE, {}),
    Scenario(StillAlone, {1}, 0, TRUE, FaultKinds),
    Scenario(<<{"jpeg"}>>, {1}, 2, TRUE, {"picture"}),
    Scenario(Video, {1}, 1, TRUE, FaultKinds) }

(* Undisturbed: recording, a still alone through the scratch buffer and the  *)
(* preview; and a still with failures, a flush and a close.                 *)
LiveScenarios ==
  { Scenario(<<{"preview", "video"}, {"jpeg"}, {"preview"}>>, {1}, 0, FALSE, {}),
    Scenario(StillFirst, {1}, 1, TRUE, {"start", "copy", "picture"}) }

(* For the violations: a flush among failures; the still first and a flush;  *)
(* two overlapping stills.                                                  *)
FlushAndFail  == { Scenario(Still, {1}, 1, FALSE, {"fence", "take"}) }
FlushAtStill  == { Scenario(StillFirst, {1}, 1, FALSE, {}) }
TwoStills     == { Scenario(<<{"preview", "jpeg"}, {"jpeg"}>>, {1}, 0, FALSE, {}) }
=============================================================================
