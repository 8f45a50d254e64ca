--------------------------- MODULE CreditsLedger ----------------------------
(***************************************************************************)
(* What the credits module promises, without requests, frames or restarts: *)
(* four cumulative totals, each learned from the one before it and none    *)
(* ever taken back.                                                        *)
(***************************************************************************)
EXTENDS Integers

CONSTANT MaxTotal   \* the largest total (UINT64_MAX)

VARIABLES
    issued,    \* what the server has granted
    granted,   \* the grant the device has accepted
    consumed,  \* what the device has spent
    reported   \* the spending the server has recorded

ledger == <<issued, granted, consumed, reported>>

Init == issued = 0 /\ granted = 0 /\ consumed = 0 /\ reported = 0

Issue ==
    /\ issued' \in issued .. MaxTotal
    /\ UNCHANGED <<granted, consumed, reported>>

Accept ==
    /\ granted' \in granted .. issued
    /\ UNCHANGED <<issued, consumed, reported>>

Consume ==
    /\ consumed' \in consumed .. granted
    /\ UNCHANGED <<issued, granted, reported>>

Report ==
    /\ reported' \in reported .. consumed
    /\ UNCHANGED <<issued, granted, consumed>>

Next == Issue \/ Accept \/ Consume \/ Report

Spec == Init /\ [][Next]_ledger
=============================================================================
