--------------------------------- MODULE MCTour ---------------------------------
(***************************************************************************)
(* A small instance of Tour: a short log, few resets and a visitor who      *)
(* leaves the guided path a few times.                                     *)
(***************************************************************************)
EXTENDS Tour
=============================================================================
