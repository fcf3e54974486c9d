-------------------------- MODULE MCCameraRollSync --------------------------
(* Instances of CameraRollSync for TLC. *)
EXTENDS CameraRollSync, TLC

CONSTANTS a1, a2, a3
=============================================================================
