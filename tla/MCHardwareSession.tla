--------------------------- MODULE MCHardwareSession ---------------------------
(* Small instances of HardwareSession for TLC. *)
EXTENDS HardwareSession
=============================================================================
