--------------------------- MODULE DurableRegister --------------------------
(***************************************************************************)
(* What a snapshot store promises its caller: one value that is replaced   *)
(* atomically.  A write that was cut off is found done or not done by the  *)
(* next boot and never undone afterwards, a boot that cannot know the      *)
(* value stops instead of serving an older one, and only a reset gives the *)
(* value up.                                                               *)
(***************************************************************************)
EXTENDS Integers

CONSTANTS
    Images,   \* the values, each with its sequence
    None      \* the value of an empty register

VARIABLES
    value,    \* the newest value a caller was told of
    pending,  \* the value being written or left in doubt, or None
    mode      \* "off", "on" or "stopped"

vars == <<value, pending, mode>>

Init == value = None /\ pending = None /\ mode = "off"

Successor(image) == image \in Images /\ image.sequence = value.sequence + 1

Offer(image) ==
    /\ mode = "on" /\ pending = None /\ Successor(image)
    /\ pending' = image
    /\ UNCHANGED <<value, mode>>

Acknowledge ==
    /\ mode = "on" /\ pending # None
    /\ value' = pending
    /\ pending' = None
    /\ UNCHANGED mode

\* A failure, a power loss, a reboot or a reset; the write may leave no trace.
Leave ==
    /\ mode' \in {"off", "stopped"} /\ mode # mode'
    /\ pending' \in {pending, None}
    /\ UNCHANGED value

\* A boot finds the value, or the write that was in doubt.
Recover ==
    /\ mode = "off" /\ mode' = "on"
    /\ value' = IF pending = None THEN value ELSE pending
    /\ pending' = None

\* A reset gives the value up, and later serves the empty register.
Clear ==
    /\ mode = "stopped" /\ mode' \in {"off", "stopped"}
    /\ value' = None
    /\ pending' = None

Restart ==
    /\ mode = "stopped" /\ mode' = "on"
    /\ value = None
    /\ UNCHANGED <<value, pending>>

Next ==
    \/ \E image \in Images : Offer(image)
    \/ Acknowledge \/ Leave \/ Recover \/ Clear \/ Restart

Spec == Init /\ [][Next]_vars
=============================================================================
