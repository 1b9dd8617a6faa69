---------------------------- MODULE FirmwareOutcome ----------------------------
(***************************************************************************)
(* What Transition_Firmware may make of the firmware, as its callers have  *)
(* to reckon with it: MegaRAIDPower takes the whole loop for one step of   *)
(* this kind, FirmwareTransition is the loop.                              *)
(***************************************************************************)

(***************************************************************************)
(* The firmware is "ready", at "fault" or in any other condition, before   *)
(* the call and after it.  It may also get ready when it was given up.     *)
(***************************************************************************)
Outcome(before, after, isReady) ==
    IF isReady THEN before # "fault" /\ after = "ready"
    ELSE before # "ready" /\ (before = "fault" => after = "fault")
=============================================================================
