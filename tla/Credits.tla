------------------------------ MODULE Credits -------------------------------
(***************************************************************************)
(* The credits module: the one resource group of the default schema, with  *)
(* its validator and its three calls.  Everything else is ResourceSync.    *)
(***************************************************************************)
EXTENDS ResourceSync

CreditFields == {"issued", "consumed"}
CreditOwner  == [f \in CreditFields |-> IF f = "issued" THEN "server" ELSE "device"]

\* sc_credit_validate
CreditValues == {v \in [CreditFields -> 0 .. MaxValue] : v["consumed"] <= v["issued"]}

\* sc_credits_schema: one group, both fields monotonic.
CreditsSchema ==
    /\ NumGroups = 1
    /\ Fields = CreditFields
    /\ Owner = CreditOwner
    /\ Monotonic = CreditFields
    /\ ValidValues = CreditValues

Account == 0

SetCreditsIssued(total) ==
    UpdateGroup(Server, Account,
                [ctx[Server][Account].values EXCEPT !["issued"] = total])

ConsumeCredits_NoFunds(amount) ==
    LET v == ctx[Device][Account].values
        w == [v EXCEPT !["consumed"] = @ + amount]
    IN  /\ ~poisoned[Device]
        /\ amount <= MaxValue - v["consumed"]
        /\ ctx[Device][Account].local_revision < MaxId
        /\ Save(Device, With(Device, Account, Updated(Device, ctx[Device][Account], w)))

\* Fails before the addition when the sum would pass UINT64_MAX.
ConsumeCredits(amount) ==
    LET v == ctx[Device][Account].values
    IN  /\ amount <= MaxValue - v["consumed"]
        /\ UpdateGroup(Device, Account, [v EXCEPT !["consumed"] = @ + amount])

RequestCreditStatus == DataRequest(Account)

CreditsNext ==
    \/ \E total \in 0 .. MaxValue : SetCreditsIssued(total)
    \/ \E amount \in 1 .. MaxValue : ConsumeCredits(amount)
    \/ RequestCreditStatus
    \/ \E r \in Roles, g \in Groups : OutboundGroup(r, g)
    \/ OutboundConfirmation
    \/ \E p \in net : Deliver(p)
    \/ \E r \in Roles : Restart(r)

CreditsSpec == Init /\ [][CreditsNext]_vars

\* The totals a restart of both sides would find.
Ledger == INSTANCE CreditsLedger WITH
    MaxTotal <- MaxValue,
    issued   <- disk[Server][Account].values["issued"],
    granted  <- disk[Device][Account].values["issued"],
    consumed <- disk[Device][Account].values["consumed"],
    reported <- disk[Server][Account].values["consumed"]

\* The stored totals of the two sides move as the abstract ledger allows:
\* spending is backed by an accepted grant, recorded spending was spent, and
\* no crash, replay or failed commit takes any of the four back.
LedgerSpec == Ledger!Spec

\* In whatever record each side runs or restarts from, the server counts no
\* more than the device spent, which is no more than the device was granted,
\* which is no more than the server issued.
CreditChain ==
    \A s \in Copies(Server, Account), d \in Copies(Device, Account) :
        /\ s.values["consumed"] <= d.values["consumed"]
        /\ d.values["consumed"] <= d.values["issued"]
        /\ d.values["issued"] <= s.values["issued"]

-----------------------------------------------------------------------------
(***************************************************************************)
(* The account as a page manages it: the two records of ManagedPair, whose *)
(* host has enrolled the device.                                           *)
(***************************************************************************)
HostRecordOf(s) ==
    [id |-> 1, registered |-> TRUE, peer |-> 1, candidate |-> 0, challenge |-> 1,
     request |-> s.request_id, pending |-> s.request_pending, receipt |-> s.receipt_pending]

DeviceRecordOf(s) ==
    [key |-> 1, server |-> 1, challenge |-> 1, claimed |-> TRUE,
     registered |-> TRUE, got |-> s.request_id, reply |-> s.response_pending]

\* A snapshot is a report; a claim carries no number.
ManagedFrame(p) ==
    [kind |-> IF p.kind = "snapshot" THEN "report" ELSE p.kind,
     from |-> 1, to |-> 1, challenge |-> 1, id |-> IF p.kind = "claim" THEN 0 ELSE p.id]

Pair == INSTANCE ManagedGroup WITH
    host   <- HostRecordOf(disk[Server][Account]),
    device <- DeviceRecordOf(disk[Device][Account]),
    due    <- confirm_due,
    net    <- {ManagedFrame(p) : p \in net}

\* The stored records, the confirmation due and the frames move as
\* ManagedPair says of a host and a device that have no RAM, no cursor and no
\* values: what a page's model leaves out of the engine never shows.
PairSpec == Pair!Spec
=============================================================================
