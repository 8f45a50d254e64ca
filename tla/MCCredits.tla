----------------------------- MODULE MCCredits ------------------------------
(***************************************************************************)
(* The credits group on a small instance, with a claim of the enrollment   *)
(* still in the network.                                                   *)
(***************************************************************************)
EXTENDS Credits

ASSUME SchemaAssumption == CreditsSchema

MCClaims == {Claim}
=============================================================================
