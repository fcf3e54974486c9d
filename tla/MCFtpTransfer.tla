--------------------------- MODULE MCFtpTransfer ---------------------------
(* Instances of FtpTransfer for TLC. *)
EXTENDS FtpTransfer, TLC
=============================================================================
