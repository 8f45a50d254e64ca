--------------------------- MODULE FlashStoreLive ---------------------------
(***************************************************************************)
(* The snapshot store when power is always restored, the firmware always   *)
(* goes on with a call it has started, and somebody power-cycles a device  *)
(* that stopped on a fault.  Failures are bounded by MaxFaults.            *)
(***************************************************************************)
EXTENDS FlashStore

Fairness ==
    /\ WF_vars(Open)
    /\ WF_vars(SaveSteps)
    /\ WF_vars(ResetSteps)
    /\ WF_vars(fault /\ Reboot)

FairSpec == Spec /\ Fairness

AllErased == intent = "blank" /\ flash = [i \in Slots |-> Erased]

\* A reset that put one bit into the intent page is finished by some boot, and
\* then every sector is blank: qt_store_reset neither reprograms an intent it
\* finds nor erases it before the snapshots.
ResetCompletes == intent # "blank" ~> AllErased
=============================================================================
