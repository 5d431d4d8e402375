-------------------------- MODULE MCAudioRouting --------------------------
(* Scenarios for AudioRouting.                                              *)
EXTENDS AudioRouting

CONSTANT Speaker

Session(dirs, devices, withCalls, withFaults) ==
  [streams |-> dirs, outputs |-> devices, calls |-> withCalls, faults |-> withFaults]

(* Both streams with one device each, on drivers that fail; playing to       *)
(* either device, and recording, around phone calls.                        *)
Sessions ==
  { Session({"out", "in"}, {Speaker}, FALSE, TRUE),
    Session({"out"}, {Earpiece, Speaker}, TRUE, FALSE),
    Session({"in"}, {Earpiece}, TRUE, FALSE) }
=============================================================================
