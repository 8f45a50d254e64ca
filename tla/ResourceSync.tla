---------------------------- MODULE ResourceSync ----------------------------
(***************************************************************************)
(* The resource engine of core/sc.c and core/data.inc between one          *)
(* registered server and its registered device.  Each side keeps, per      *)
(* group, its current values, the snapshot it froze or recorded, request   *)
(* counters and three pending flags.  The server opens numbered requests;  *)
(* the device answers each with a snapshot frozen for that number; the     *)
(* server records the snapshot and returns a receipt.                      *)
(*                                                                         *)
(* The record in RAM (ctx) and the record in storage (disk) are separate:  *)
(* a commit may fail after storage changed, and a restart reloads disk.    *)
(* net holds every frame released so far: a frame may be delivered never,  *)
(* once or again at any later time, in any order.                          *)
(*                                                                         *)
(* A definition named X_Y is the definition X with a plausible mistake Y;  *)
(* only the mutation runs use it, to show which property catches it.       *)
(***************************************************************************)
EXTENDS Integers

CONSTANTS
    NumGroups,    \* groups of the schema; a group is named by its index
    Fields,       \* field names; every group has the same fields
    Owner,        \* the role that writes each field
    Monotonic,    \* the fields that may only grow
    MaxValue,     \* UINT64_MAX for field values
    ValidValues,  \* what the schema and the group's validator accept
    MaxId,        \* UINT64_MAX for request ids and revisions
    MaxFaults,    \* bound on crashes and failed commits
    OldFrames     \* frames of the enrollment still in the network

Device == "device"
Server == "server"
Roles  == {Device, Server}
Groups == 0 .. NumGroups - 1
Ids    == 0 .. MaxId
Values == [Fields -> 0 .. MaxValue]
Zero   == [f \in Fields |-> 0]
Owned(r) == {f \in Fields : Owner[f] = r}

Claim == [kind |-> "claim"]

ASSUME GroupsAssumption == NumGroups \in Nat \ {0}
ASSUME BoundsAssumption == MaxValue \in Nat /\ MaxId \in Nat /\ MaxFaults \in Nat
ASSUME FieldsAssumption ==
    /\ Owner \in [Fields -> Roles]
    /\ Monotonic \subseteq Fields
ASSUME ValidAssumption ==
    /\ ValidValues \subseteq Values
    /\ Zero \in ValidValues
ASSUME OldFramesAssumption == OldFrames \subseteq {Claim}

\* sc_group_state: what one side keeps for one group.  Both value vectors
\* satisfy the validator.
GroupState ==
    [values : ValidValues, snapshot : ValidValues, has_snapshot : BOOLEAN,
     local_revision : Ids, request_id : Ids, snapshot_id : Ids,
     acknowledged_id : Ids, last_sent_id : Ids,
     request_pending : BOOLEAN, response_pending : BOOLEAN,
     receipt_pending : BOOLEAN]

FreshGroup ==
    [values |-> Zero, snapshot |-> Zero, has_snapshot |-> FALSE,
     local_revision |-> 0, request_id |-> 0, snapshot_id |-> 0,
     acknowledged_id |-> 0, last_sent_id |-> 0,
     request_pending |-> FALSE, response_pending |-> FALSE,
     receipt_pending |-> FALSE]

\* The sealed packets that carry a group: data_kind 1, 2 and 3.
Request  == [kind : {"request"},  group : Groups, id : Ids, values : Values]
Snapshot == [kind : {"snapshot"}, group : Groups, id : Ids, values : Values]
Receipt  == [kind : {"receipt"},  group : Groups, id : Ids]
Frames   == Request \cup Snapshot \cup Receipt \cup {Claim}

VARIABLES
    ctx,         \* ctx[r][g]: the group state in r's RAM
    disk,        \* disk[r][g]: the group state in r's committed record
    cursor,      \* data_cursor: the group r's next transmission looks at first
    confirm_due, \* the server's volatile ctx->receipt_pending
    poisoned,    \* r's storage handle refuses everything until reopened
    net,         \* the frames released so far
    faults       \* crashes and failed commits so far

vars == <<ctx, disk, cursor, confirm_due, poisoned, net, faults>>

-----------------------------------------------------------------------------
(***************************************************************************)
(* The record transaction.  save() replaces the RAM record only after the  *)
(* provider committed.  A commit that fails after it may have replaced the *)
(* stored record leaves a handle that refuses everything until a restart.  *)
(* A commit that fails cleanly changes nothing and needs no action.        *)
(***************************************************************************)
With(r, g, new) == [ctx[r] EXCEPT ![g] = new]

Commit(r, next) ==
    /\ ctx'  = [ctx  EXCEPT ![r] = next]
    /\ disk' = [disk EXCEPT ![r] = next]
    /\ UNCHANGED <<poisoned, faults>>

CommitFails(r, next) ==
    /\ faults < MaxFaults
    /\ faults' = faults + 1
    /\ \/ disk' = [disk EXCEPT ![r] = next]
       \/ disk' = disk
    /\ poisoned' = [poisoned EXCEPT ![r] = TRUE]
    /\ UNCHANGED <<ctx, cursor, confirm_due, net>>

\* A save whose success has no further effect.
Save(r, next) ==
    \/ Commit(r, next) /\ UNCHANGED <<cursor, confirm_due, net>>
    \/ CommitFails(r, next)

\* Power loss, or closing and reopening: volatile state is lost.
Restart(r) ==
    /\ poisoned[r] \/ faults < MaxFaults
    /\ faults' = IF poisoned[r] THEN faults ELSE faults + 1
    /\ ctx' = [ctx EXCEPT ![r] = disk[r]]
    /\ cursor' = [cursor EXCEPT ![r] = 0]
    /\ confirm_due' = IF r = Server THEN FALSE ELSE confirm_due
    /\ poisoned' = [poisoned EXCEPT ![r] = FALSE]
    /\ UNCHANGED <<disk, net>>

-----------------------------------------------------------------------------
(***************************************************************************)
(* Calls of the application.                                               *)
(***************************************************************************)

\* r may replace values v by w: it writes only its own fields, a monotonic
\* one never shrinks, and the validator accepts the result.
MayUpdate(r, v, w) ==
    /\ \A f \in Fields \ Owned(r) : w[f] = v[f]
    /\ \A f \in Monotonic : w[f] >= v[f]
    /\ w \in ValidValues

Opened_SameId(s) == [s EXCEPT !.request_pending = TRUE]

\* The state a server's group enters when it opens a new request.
Opened(s) == [s EXCEPT !.request_id = @ + 1, !.request_pending = TRUE]

Updated(r, s, w) ==
    LET t == [s EXCEPT !.values = w, !.local_revision = @ + 1]
    IN  IF r = Server THEN Opened(t) ELSE t

UpdateGroup(r, g, w) ==
    /\ ~poisoned[r]
    /\ MayUpdate(r, ctx[r][g].values, w)
    /\ w # ctx[r][g].values
    /\ ctx[r][g].local_revision < MaxId
    /\ r = Server => ctx[r][g].request_id < MaxId
    /\ Save(r, With(r, g, Updated(r, ctx[r][g], w)))

DataRequest(g) ==
    /\ ~poisoned[Server]
    /\ ctx[Server][g].request_id < MaxId
    /\ Save(Server, With(Server, g, Opened(ctx[Server][g])))

-----------------------------------------------------------------------------
(***************************************************************************)
(* Transmission: sc_outbound and make_packet.  The frame is released, and  *)
(* the cursor moves, only after the record that mentions it is committed.  *)
(***************************************************************************)
Due(r, g) == \/ ctx[r][g].request_pending
             \/ ctx[r][g].response_pending
             \/ ctx[r][g].receipt_pending

\* The distance of g from r's cursor, around the ring of groups.
Ahead(r, g) == IF g >= cursor[r] THEN g - cursor[r] ELSE g - cursor[r] + NumGroups

Selected(r, g) ==
    /\ Due(r, g)
    /\ \A h \in Groups : Due(r, h) => Ahead(r, g) <= Ahead(r, h)

Packet(r, g) ==
    LET s == ctx[r][g]
    IN  IF r = Device
        THEN [kind |-> "snapshot", group |-> g, id |-> s.request_id, values |-> s.snapshot]
        ELSE IF s.request_pending
        THEN [kind |-> "request", group |-> g, id |-> s.request_id, values |-> s.values]
        ELSE [kind |-> "receipt", group |-> g, id |-> s.snapshot_id]

Sent_UnrecordedId(s, p) ==
    IF p.kind = "receipt" THEN [s EXCEPT !.receipt_pending = FALSE] ELSE s

\* What the sender records before the packet p leaves.
Sent(s, p) == IF p.kind = "receipt" THEN [s EXCEPT !.receipt_pending = FALSE]
                                    ELSE [s EXCEPT !.last_sent_id = p.id]

NextGroup_Stuck(g) == g

NextGroup(g) == IF g = NumGroups - 1 THEN 0 ELSE g + 1

Release(r, g, p) ==
    /\ net' = net \cup {p}
    /\ cursor' = [cursor EXCEPT ![r] = NextGroup(g)]
    /\ UNCHANGED confirm_due

OutboundGroup(r, g) ==
    LET p == Packet(r, g)
        s == Sent(ctx[r][g], p)
    IN  /\ ~poisoned[r]
        /\ r = Server => ~confirm_due
        /\ Selected(r, g)
        /\ IF s = ctx[r][g]
           THEN Release(r, g, p) /\ UNCHANGED <<ctx, disk, poisoned, faults>>
           ELSE \/ Commit(r, With(r, g, s)) /\ Release(r, g, p)
                \/ CommitFails(r, With(r, g, s))

\* The server repeats an enrollment confirmation alone before any group.
\* The registered device accepts it and changes nothing, so it is not kept.
OutboundConfirmation ==
    /\ ~poisoned[Server]
    /\ confirm_due
    /\ confirm_due' = FALSE
    /\ UNCHANGED <<ctx, disk, cursor, poisoned, net, faults>>

-----------------------------------------------------------------------------
(***************************************************************************)
(* Reception: receive_data, and receive_report for a repeated claim.       *)
(* The Rejects predicates hold of a frame that returns an error.           *)
(***************************************************************************)

\* The device's values with the server's fields taken from the request.
Merged(s, p) == [f \in Fields |-> IF Owner[f] = Server THEN p.values[f] ELSE s.values[f]]

DeviceRejectsRequest(s, p) ==
    \/ p.id = 0
    \/ p.values \notin ValidValues
    \/ /\ p.id = s.request_id
       /\ \E f \in Owned(Server) : p.values[f] # s.snapshot[f]
    \/ /\ p.id > s.request_id
       /\ \/ \E f \in Owned(Server) \cap Monotonic : p.values[f] < s.values[f]
          \/ Merged(s, p) \notin ValidValues

DeviceOnRequest_Recaptures(s, p) ==
    IF p.id < s.request_id THEN s
    ELSE IF p.id = s.request_id
         THEN [s EXCEPT !.snapshot = s.values, !.response_pending = TRUE]
    ELSE [s EXCEPT !.values = Merged(s, p), !.snapshot = Merged(s, p),
                   !.request_id = p.id, !.snapshot_id = p.id,
                   !.has_snapshot = TRUE, !.response_pending = TRUE]

DeviceOnRequest_NoStaleCheck(s, p) ==
    IF p.id = s.request_id THEN [s EXCEPT !.response_pending = TRUE]
    ELSE [s EXCEPT !.values = Merged(s, p), !.snapshot = Merged(s, p),
                   !.request_id = p.id, !.snapshot_id = p.id,
                   !.has_snapshot = TRUE, !.response_pending = TRUE]

DeviceOnRequest(s, p) ==
    IF p.id < s.request_id THEN s
    ELSE IF p.id = s.request_id THEN [s EXCEPT !.response_pending = TRUE]
    ELSE [s EXCEPT !.values = Merged(s, p), !.snapshot = Merged(s, p),
                   !.request_id = p.id, !.snapshot_id = p.id,
                   !.has_snapshot = TRUE, !.response_pending = TRUE]

ServerRejectsSnapshot(s, p) ==
    \/ p.id = 0
    \/ p.values \notin ValidValues
    \/ p.id > s.last_sent_id
    \/ /\ p.id >= s.request_id
       /\ \/ s.has_snapshot /\ p.id = s.snapshot_id /\ p.values # s.snapshot
          \/ \E f \in Owned(Server) : p.values[f] # s.values[f]
          \/ \E f \in Monotonic : p.values[f] < s.values[f]

ServerOnSnapshot_NoStaleCheck(s, p) ==
    [s EXCEPT !.values = p.values, !.snapshot = p.values,
              !.snapshot_id = p.id, !.has_snapshot = TRUE,
              !.request_pending = FALSE, !.receipt_pending = TRUE]

ServerOnSnapshot_SilentDuplicate(s, p) ==
    IF p.id < s.request_id \/ p.id = s.snapshot_id THEN s
    ELSE [s EXCEPT !.values = p.values, !.snapshot = p.values,
                   !.snapshot_id = p.id, !.has_snapshot = TRUE,
                   !.request_pending = FALSE, !.receipt_pending = TRUE]

ServerOnSnapshot(s, p) ==
    IF p.id < s.request_id THEN s
    ELSE [s EXCEPT !.values = p.values, !.snapshot = p.values,
                   !.snapshot_id = p.id, !.has_snapshot = TRUE,
                   !.request_pending = FALSE, !.receipt_pending = TRUE]

DeviceRejectsReceipt(s, p) == p.id = 0 \/ p.id > s.last_sent_id

DeviceOnReceipt_AcksCurrent(s, p) ==
    [s EXCEPT !.acknowledged_id = s.request_id, !.response_pending = FALSE]

DeviceOnReceipt(s, p) ==
    IF p.id < s.request_id \/ ~(p.id > s.acknowledged_id \/ s.response_pending) THEN s
    ELSE [s EXCEPT !.acknowledged_id = p.id, !.response_pending = FALSE]

\* The endpoint r hands p's group to receive_data, which saves a change.
Receive(r, p, rejected, new) ==
    /\ ~poisoned[r]
    /\ ~rejected
    /\ new # ctx[r][p.group]
    /\ Save(r, With(r, p.group, new))

ReceiveRequest(p) ==
    /\ p.kind = "request"
    /\ LET s == ctx[Device][p.group]
       IN  Receive(Device, p, DeviceRejectsRequest(s, p), DeviceOnRequest(s, p))

ReceiveSnapshot(p) ==
    /\ p.kind = "snapshot"
    /\ LET s == ctx[Server][p.group]
       IN  Receive(Server, p, ServerRejectsSnapshot(s, p), ServerOnSnapshot(s, p))

ReceiveReceipt(p) ==
    /\ p.kind = "receipt"
    /\ LET s == ctx[Device][p.group]
       IN  Receive(Device, p, DeviceRejectsReceipt(s, p), DeviceOnReceipt(s, p))

\* A repeated claim of the registered device asks for the confirmation again.
ReceiveClaim(p) ==
    /\ p.kind = "claim"
    /\ ~poisoned[Server]
    /\ confirm_due' = TRUE
    /\ UNCHANGED <<ctx, disk, cursor, poisoned, net, faults>>

Deliver(p) ==
    \/ ReceiveRequest(p)
    \/ ReceiveSnapshot(p)
    \/ ReceiveReceipt(p)
    \/ ReceiveClaim(p)

-----------------------------------------------------------------------------
Init ==
    /\ ctx  = [r \in Roles |-> [g \in Groups |-> FreshGroup]]
    /\ disk = ctx
    /\ cursor = [r \in Roles |-> 0]
    /\ confirm_due = FALSE
    /\ poisoned = [r \in Roles |-> FALSE]
    /\ net = OldFrames
    /\ faults = 0

Next ==
    \/ \E r \in Roles, g \in Groups, w \in ValidValues : UpdateGroup(r, g, w)
    \/ \E g \in Groups : DataRequest(g)
    \/ \E r \in Roles, g \in Groups : OutboundGroup(r, g)
    \/ OutboundConfirmation
    \/ \E p \in net : Deliver(p)
    \/ \E r \in Roles : Restart(r)

Spec == Init /\ [][Next]_vars

-----------------------------------------------------------------------------
(***************************************************************************)
(* Properties.                                                             *)
(***************************************************************************)

\* Every variable keeps its shape: ids and values stay within their width
\* and every value vector in RAM or storage satisfies the validator.
TypeOK ==
    /\ ctx  \in [Roles -> [Groups -> GroupState]]
    /\ disk \in [Roles -> [Groups -> GroupState]]
    /\ cursor \in [Roles -> Groups]
    /\ confirm_due \in BOOLEAN
    /\ poisoned \in [Roles -> BOOLEAN]
    /\ net \subseteq Frames
    /\ faults \in 0 .. MaxFaults

Peer(r) == IF r = Server THEN Device ELSE Server

\* The record in RAM and the record a restart would find.
Copies(r, g) == {ctx[r][g], disk[r][g]}

\* A side never holds more of a monotonic total than the side that owns it,
\* whichever of the two restarts: the device never spends from issuance the
\* server could forget, the server never counts consumption the device lost.
OwnerAhead ==
    \A g \in Groups, f \in Monotonic :
        \A s \in Copies(Owner[f], g), t \in Copies(Peer(Owner[f]), g) :
            t.values[f] <= s.values[f]

\* Between two peers that only ever run this code, no delay, replay, loss or
\* restart makes receive_data answer CONFLICT, PROTOCOL or a validator error.
HonestFramesAccepted ==
    \A p \in net :
        /\ p.kind = "request" /\ ~poisoned[Device] =>
              ~DeviceRejectsRequest(ctx[Device][p.group], p)
        /\ p.kind = "snapshot" /\ ~poisoned[Server] =>
              ~ServerRejectsSnapshot(ctx[Server][p.group], p)
        /\ p.kind = "receipt" /\ ~poisoned[Device] =>
              ~DeviceRejectsReceipt(ctx[Device][p.group], p)

\* A frame is released only over a record that survives a restart: the
\* sender's stored counters already cover every id in the network.
ReleasedIsDurable ==
    \A p \in net :
        /\ p.kind = "request"  => p.id <= disk[Server][p.group].last_sent_id
        /\ p.kind = "snapshot" => p.id <= disk[Device][p.group].last_sent_id
        /\ p.kind = "receipt"  => p.id <= disk[Server][p.group].snapshot_id

\* All answers to one request carry the same values, however often they are
\* sent and whatever the device consumes or restarts in between; all copies
\* of one request carry the same server-owned values.
FrozenAnswers ==
    \A p \in net : \A q \in net :
        p.kind = q.kind /\ p.kind \in {"request", "snapshot"}
            /\ p.group = q.group /\ p.id = q.id =>
        IF p.kind = "snapshot"
        THEN p.values = q.values
        ELSE \A f \in Owned(Server) : p.values[f] = q.values[f]

\* What the device holds as acknowledged, the server has recorded durably,
\* and for one id the two sides hold the same snapshot.
AcknowledgedIsRecorded ==
    \A g \in Groups : \A s \in Copies(Device, g), t \in Copies(Server, g) :
        /\ s.acknowledged_id <= t.snapshot_id
        /\ s.has_snapshot /\ t.has_snapshot /\ s.snapshot_id = t.snapshot_id =>
              s.snapshot = t.snapshot

\* The checks restore() makes on a stored group record.
RestoreAccepts(s) ==
    /\ s.values \in ValidValues
    /\ s.snapshot \in ValidValues
    /\ s.snapshot_id <= s.request_id
    /\ s.last_sent_id <= s.request_id
    /\ s.acknowledged_id <= s.last_sent_id

\* restore() accepts every record the running code ever commits: no sequence
\* of calls and frames leaves a record the next start refuses to load.
Restorable == \A r \in Roles, g \in Groups : RestoreAccepts(disk[r][g])

\* The durable counters and monotonic values of a group only grow.
Grows(s, t) ==
    /\ s.local_revision <= t.local_revision
    /\ s.request_id <= t.request_id
    /\ s.snapshot_id <= t.snapshot_id
    /\ s.acknowledged_id <= t.acknowledged_id
    /\ s.last_sent_id <= t.last_sent_id
    /\ \A f \in Monotonic : s.values[f] <= t.values[f]

\* No step rolls a group back, neither in storage nor as the application
\* sees it: not a replayed frame, not a failed commit, not a restart.
NoRollback ==
    [][\A r \in Roles, g \in Groups :
          Grows(disk[r][g], disk'[r][g]) /\ Grows(ctx[r][g], ctx'[r][g])]_vars
=============================================================================
