---------------------------- MODULE MCSerialLink ----------------------------
(***************************************************************************)
(* Three connections and five calls: enough for two links in a row to take *)
(* a late answer to their inspection, and one lost or damaged frame.  Two  *)
(* commands exhaust a connection.                                          *)
(***************************************************************************)
EXTENDS SerialLink
=============================================================================
