---------------------------- MODULE MCEnrollment ----------------------------
(***************************************************************************)
(* Devices that answer to the same serial.  A run with a liveness property *)
(* names the devices apart, so there is no symmetry set.                   *)
(***************************************************************************)
EXTENDS EnrollmentLive

CONSTANTS d1, d2
=============================================================================
