--------------------------- MODULE EnrollmentLive ---------------------------
(***************************************************************************)
(* Enrollment over a network that loses frames, and its completion.  Both  *)
(* sides call sc_outbound again and again, a failed store is reopened, and *)
(* a claim or confirmation that is sent again and again is at some time    *)
(* delivered.  net stays the history of what was sent.  Nothing forces a   *)
(* delivery before the server has registered a device, so until then a     *)
(* frame is lost by never being delivered.                                 *)
(***************************************************************************)
EXTENDS Enrollment

CONSTANT Served    \* the devices whose traffic the network cannot withhold for ever

ASSUME ServedAssumption == Served \subseteq Devices

VARIABLE lost      \* the frames lost since they were last sent

lossyVars == <<vars, lost>>

UnderWay == net \ lost

Lose ==
    /\ ctx[Server].registered
    /\ \E p \in UnderWay :
          /\ \/ p.kind = "claim" /\ p.from \in Served
             \/ p.kind = "confirmation" /\ p.to \in Served
          /\ lost' = lost \cup {p}
    /\ UNCHANGED vars

\* A frame that is sent again is under way again.
SendClaim(d) == OutboundClaim(d) /\ lost' = lost \ {ClaimOf(d)}

SendConfirmation == OutboundConfirmation /\ lost' = lost \ {ConfirmationNow}

DeliverClaim(d) ==
    \E p \in UnderWay : p.kind = "claim" /\ p.from = d /\ Deliver(p) /\ UNCHANGED lost

DeliverConfirmation(d) ==
    \E p \in UnderWay : p.kind = "confirmation" /\ p.to = d /\ Deliver(p) /\ UNCHANGED lost

DeliverInvitation ==
    \E p \in UnderWay : p.kind = "invitation" /\ Deliver(p) /\ UNCHANGED lost

LossyNext ==
    \/ (Local \/ OutboundInvitation) /\ UNCHANGED lost
    \/ SendConfirmation
    \/ DeliverInvitation
    \/ \E d \in Devices : SendClaim(d) \/ DeliverClaim(d) \/ DeliverConfirmation(d)
    \/ Lose

LossyInit == Init /\ lost = {}

LossySpec ==
    /\ LossyInit /\ [][LossyNext]_lossyVars
    /\ \A e \in Served \cup {Server} :
          WF_lossyVars(poisoned[e] /\ Restart(e) /\ UNCHANGED lost)
    /\ WF_lossyVars(SendConfirmation)
    /\ \A d \in Served :
          /\ WF_lossyVars(SendClaim(d))
          /\ SF_lossyVars(DeliverClaim(d)) /\ SF_lossyVars(DeliverConfirmation(d))

\* What docs/protocol.md:53-54 says: "An encrypted confirmation lets the device
\* complete enrollment. A repeated claim can regenerate a lost confirmation."
\* The run enrollment_replaced refutes it: a late invitation replaces the
\* session of a device that the server has registered, and the server refuses
\* every claim that the device sends from then on.
EnrollmentCompletes ==
    \A d \in Served :
        (ctx[Server].registered /\ ctx[Server].peer = d) ~> ctx[d].registered

\* What the code does give.  Once the server has registered a device, its
\* repeated claims regenerate a lost, forgotten or expired confirmation until
\* the device registers too, over losses, failed commits and restarts; the one
\* exception is that the device holds another session than the server's.
Displaced(d) == ctx[d].challenge # ctx[Server].challenge

EnrollmentCompletesUnlessDisplaced ==
    \A d \in Served :
        (ctx[Server].registered /\ ctx[Server].peer = d) ~> (ctx[d].registered \/ Displaced(d))
=============================================================================
