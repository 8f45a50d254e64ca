----------------------------- MODULE MCFlashStore ---------------------------
(***************************************************************************)
(* Three sectors of two pages, two domains and two faults: a store that    *)
(* wraps its ring and is reset once.                                       *)
(***************************************************************************)
EXTENDS FlashStoreLive
=============================================================================
