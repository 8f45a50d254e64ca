--------------------------- MODULE MCRecordStore ----------------------------
(***************************************************************************)
(* Two processes that compete for one store.  They are interchangeable.    *)
(***************************************************************************)
EXTENDS RecordStore, TLC

CONSTANTS p1, p2

MCProcs    == {p1, p2}
MCSymmetry == Permutations(MCProcs)
=============================================================================
