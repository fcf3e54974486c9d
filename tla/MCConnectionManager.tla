------------------------- MODULE MCConnectionManager -------------------------
(* Instances of ConnectionManager for TLC. *)
EXTENDS ConnectionManager

CONSTANTS f1, f2, f3

MCServers == DOMAIN Supports
MCSelections == {<<f1>>, <<f1, f2>>}
MCBatches == {<<f1, f2>>}
=============================================================================
