---------------------------- MODULE MCFtpDelete ----------------------------
(* Instances of FtpDelete for TLC. *)
EXTENDS FtpDelete, TLC

CONSTANTS f1, f2, f3

MCSelections == UNION {SetToSeqs(S) : S \in SUBSET File \ {{}}}
MCUnencodable == {f3}
=============================================================================
