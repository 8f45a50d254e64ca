-------------------------- MODULE ResourceSyncLive --------------------------
(***************************************************************************)
(* Progress of the resource engine over a network that also loses frames.  *)
(* An embedding calls sc_outbound again and again and reopens a store that *)
(* failed; a frame of a served group that is sent again and again is at    *)
(* some time delivered; every frame of another group may be withheld.      *)
(***************************************************************************)
EXTENDS ResourceSync

CONSTANT Served   \* the groups whose frames the network delivers

ASSUME ServedAssumption == Served \subseteq Groups

\* A frame of another group need not be lost: it need never be delivered.
Lose(p) ==
    /\ p = Claim \/ p.group \in Served
    /\ net' = net \ {p}
    /\ UNCHANGED <<ctx, disk, cursor, confirm_due, poisoned, faults>>

LossyNext == Next \/ \E p \in net : Lose(p)

Kinds == {"request", "snapshot", "receipt"}

DeliverSome(k, g, i) ==
    \E p \in net : p.kind = k /\ p.group = g /\ p.id = i /\ Deliver(p)

LossySpec ==
    /\ Init /\ [][LossyNext]_vars
    /\ \A r \in Roles : WF_vars(poisoned[r] /\ Restart(r))
    /\ \A r \in Roles : WF_vars(\E g \in Groups : OutboundGroup(r, g))
    /\ \A k \in Kinds, g \in Served, i \in 1 .. MaxId : SF_vars(DeliverSome(k, g, i))

\* A request of a served group is answered or superseded by a newer request,
\* although frames are lost, repeated and reordered, and although every frame
\* of the other groups is withheld.
RequestAnswered ==
    \A g \in Served, i \in 1 .. MaxId :
        (ctx[Server][g].request_id = i)
            ~> (ctx[Server][g].snapshot_id >= i \/ ctx[Server][g].request_id > i)

\* A device that owes an answer in a served group is at some time relieved of
\* it by a receipt, so it does not transmit for ever.
ResponseAcknowledged ==
    \A g \in Served : ctx[Device][g].response_pending ~> ~ctx[Device][g].response_pending
=============================================================================
