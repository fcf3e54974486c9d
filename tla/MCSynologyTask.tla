---------------------------- MODULE MCSynologyTask ----------------------------
(* Instances of SynologyTask for TLC. *)
EXTENDS SynologyTask

CONSTANTS a1, a2

MCSelections == {<<a1>>, <<a1, a2>>}
MCSingle == {<<a1>>}
=============================================================================
