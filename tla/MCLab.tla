---------------------------------- MODULE MCLab ----------------------------------
(***************************************************************************)
(* A small instance of Lab: two callers and a relay of two packets.        *)
(***************************************************************************)
EXTENDS Lab

CONSTANTS c1, c2
=============================================================================
