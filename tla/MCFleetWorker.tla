----------------------------- MODULE MCFleetWorker -----------------------------
(* Small instances of FleetWorker for TLC. *)
EXTENDS FleetWorker
=============================================================================
