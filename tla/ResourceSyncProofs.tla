------------------------- MODULE ResourceSyncProofs -------------------------
(***************************************************************************)
(* Proofs about ResourceSync for every schema layout, id width, number of  *)
(* groups and number of faults: what one side keeps through its own calls, *)
(* commits and crashes, then what the two sides and the frames between     *)
(* them agree on, and last what this gives under the schema of the credits *)
(* module, for every width of its totals.                                  *)
(***************************************************************************)
EXTENDS Credits, TLAPS

\* The frame p, accepted by r, makes new of r's group g.
Accepted(r, g, p, new) ==
    LET s == ctx[r][g]
    IN  /\ p.group = g
        /\ \/ /\ p.kind = "request" /\ r = Device
              /\ ~DeviceRejectsRequest(s, p) /\ new = DeviceOnRequest(s, p)
           \/ /\ p.kind = "snapshot" /\ r = Server
              /\ ~ServerRejectsSnapshot(s, p) /\ new = ServerOnSnapshot(s, p)
           \/ /\ p.kind = "receipt" /\ r = Device
              /\ ~DeviceRejectsReceipt(s, p) /\ new = DeviceOnReceipt(s, p)

\* What a call or an accepted frame makes of r's group g.
Change(r, g, new) ==
    LET s == ctx[r][g]
    IN  \/ \E w \in ValidValues :
              /\ MayUpdate(r, s.values, w)
              /\ s.local_revision < MaxId
              /\ r = Server => s.request_id < MaxId
              /\ new = Updated(r, s, w)
        \/ r = Server /\ s.request_id < MaxId /\ new = Opened(s)
        \/ Due(r, g) /\ new = Sent(s, Packet(r, g))
        \/ \E p \in net : Accepted(r, g, p, new)

LEMMA PacketType ==
    ASSUME TypeOK, NEW r \in Roles, NEW g \in Groups
    PROVE  Packet(r, g) \in Request \cup Snapshot \cup Receipt
<1>1. ctx[r][g] \in GroupState
  BY DEF TypeOK
<1>2. ctx[r][g].values \in Values /\ ctx[r][g].snapshot \in Values
  BY <1>1, ValidAssumption DEF GroupState
<1> QED
  BY <1>1, <1>2 DEF Packet, GroupState, Request, Snapshot, Receipt

-----------------------------------------------------------------------------
(***************************************************************************)
(* Each operation on a group keeps the group's type.                       *)
(***************************************************************************)
LEMMA OpenedType ==
    ASSUME NEW s \in GroupState, s.request_id < MaxId
    PROVE  Opened(s) \in GroupState
<1>1. s.request_id + 1 \in Ids
  BY BoundsAssumption DEF GroupState, Ids
<1> QED
  BY <1>1 DEF Opened, GroupState

LEMMA UpdatedType ==
    ASSUME NEW r, NEW s \in GroupState, NEW w \in ValidValues,
           s.local_revision < MaxId,
           r = Server => s.request_id < MaxId
    PROVE  Updated(r, s, w) \in GroupState
<1> DEFINE t == [s EXCEPT !.values = w, !.local_revision = @ + 1]
<1>1. s.local_revision + 1 \in Ids
  BY BoundsAssumption DEF GroupState, Ids
<1>2. t \in GroupState
  BY <1>1 DEF GroupState
<1>3. t.request_id = s.request_id
  BY DEF GroupState
<1>4. CASE r = Server
  BY <1>2, <1>3, <1>4, OpenedType DEF Updated
<1>5. CASE r # Server
  BY <1>2, <1>5 DEF Updated
<1> QED
  BY <1>4, <1>5

LEMMA SentType ==
    ASSUME NEW s \in GroupState, NEW p \in Request \cup Snapshot \cup Receipt
    PROVE  Sent(s, p) \in GroupState
<1>1. p.id \in Ids
  BY DEF Request, Snapshot, Receipt
<1> QED
  BY <1>1 DEF Sent, GroupState

LEMMA DeviceOnRequestType ==
    ASSUME NEW s \in GroupState, NEW p \in Request, ~DeviceRejectsRequest(s, p)
    PROVE  DeviceOnRequest(s, p) \in GroupState
<1> DEFINE m == Merged(s, p)
           t == [s EXCEPT !.values = m, !.snapshot = m, !.request_id = p.id]
<1>1. p.id \in Ids /\ s.request_id \in Ids
  BY DEF Request, GroupState
<1>2. CASE p.id < s.request_id
  BY <1>2 DEF DeviceOnRequest
<1>3. CASE p.id = s.request_id
  <2>1. DeviceOnRequest(s, p) = [s EXCEPT !.response_pending = TRUE]
    BY <1>1, <1>3 DEF DeviceOnRequest, Ids
  <2> QED
    BY <2>1 DEF GroupState
<1>4. CASE p.id > s.request_id
  <2>1. m \in ValidValues
    BY <1>4 DEF DeviceRejectsRequest
  <2>2. t \in GroupState
    BY <1>1, <2>1 DEF GroupState
  <2>3. [t EXCEPT !.snapshot_id = p.id, !.has_snapshot = TRUE, !.response_pending = TRUE]
           \in GroupState
    BY <1>1, <2>2 DEF GroupState
  <2>4. DeviceOnRequest(s, p) =
          [t EXCEPT !.snapshot_id = p.id, !.has_snapshot = TRUE, !.response_pending = TRUE]
    BY <1>1, <1>4 DEF DeviceOnRequest, Ids
  <2> QED
    BY <2>3, <2>4
<1> QED
  BY <1>1, <1>2, <1>3, <1>4 DEF Ids

LEMMA ServerOnSnapshotType ==
    ASSUME NEW s \in GroupState, NEW p \in Snapshot, ~ServerRejectsSnapshot(s, p)
    PROVE  ServerOnSnapshot(s, p) \in GroupState
<1> DEFINE t == [s EXCEPT !.values = p.values, !.snapshot = p.values, !.snapshot_id = p.id]
<1>1. p.id \in Ids /\ p.values \in ValidValues
  BY DEF Snapshot, ServerRejectsSnapshot
<1>2. t \in GroupState
  BY <1>1 DEF GroupState
<1>3. [t EXCEPT !.has_snapshot = TRUE, !.request_pending = FALSE, !.receipt_pending = TRUE]
         \in GroupState
  BY <1>2 DEF GroupState
<1>4. CASE p.id < s.request_id
  BY <1>4 DEF ServerOnSnapshot
<1>5. CASE ~(p.id < s.request_id)
  <2>1. ServerOnSnapshot(s, p) =
          [t EXCEPT !.has_snapshot = TRUE, !.request_pending = FALSE, !.receipt_pending = TRUE]
    BY <1>5 DEF ServerOnSnapshot
  <2> QED
    BY <1>3, <2>1
<1> QED
  BY <1>4, <1>5

LEMMA DeviceOnReceiptType ==
    ASSUME NEW s \in GroupState, NEW p \in Receipt
    PROVE  DeviceOnReceipt(s, p) \in GroupState
<1>1. p.id \in Ids
  BY DEF Receipt
<1> QED
  BY <1>1 DEF DeviceOnReceipt, GroupState

LEMMA FrameKinds ==
    ASSUME NEW p \in Frames
    PROVE  /\ p.kind = "request"  => p \in Request
           /\ p.kind = "snapshot" => p \in Snapshot
           /\ p.kind = "receipt"  => p \in Receipt
BY DEF Frames, Request, Snapshot, Receipt, Claim

LEMMA ChangeType ==
    ASSUME TypeOK, NEW r \in Roles, NEW g \in Groups, NEW new, Change(r, g, new)
    PROVE  new \in GroupState
<1> DEFINE s == ctx[r][g]
<1>1. s \in GroupState
  BY DEF TypeOK
<1>2. \A p \in net : p \in Frames
  BY DEF TypeOK
<1>3. CASE \E w \in ValidValues :
              /\ MayUpdate(r, s.values, w)
              /\ s.local_revision < MaxId
              /\ r = Server => s.request_id < MaxId
              /\ new = Updated(r, s, w)
  BY <1>1, <1>3, UpdatedType
<1>4. CASE r = Server /\ s.request_id < MaxId /\ new = Opened(s)
  BY <1>1, <1>4, OpenedType
<1>5. CASE Due(r, g) /\ new = Sent(s, Packet(r, g))
  BY <1>1, <1>5, PacketType, SentType
<1>6. CASE \E p \in net : Accepted(r, g, p, new)
  BY <1>1, <1>2, <1>6, FrameKinds, DeviceOnRequestType, ServerOnSnapshotType,
     DeviceOnReceiptType DEF Accepted
<1> QED
  BY <1>3, <1>4, <1>5, <1>6 DEF Change

-----------------------------------------------------------------------------
(***************************************************************************)
(* Every step either writes one group of one side, restarts a side, or     *)
(* only moves the flag of the pending confirmation.                        *)
(***************************************************************************)

\* While the handle is open, the record in RAM is the stored one.
Shadow == \A r \in Roles : ~poisoned[r] => ctx[r] = disk[r]

\* r's group g becomes new, in both records or in none or, when the commit
\* fails, at most in storage; a frame leaves only over a commit.
Wrote(r, g, new) ==
    /\ ~poisoned[r]
    /\ Change(r, g, new)
    /\ \/ /\ Commit(r, With(r, g, new))
          /\ UNCHANGED <<cursor, confirm_due, net>>
       \/ /\ Commit(r, With(r, g, new))
          /\ Due(r, g) /\ new = Sent(ctx[r][g], Packet(r, g))
          /\ Release(r, g, Packet(r, g))
       \/ CommitFails(r, With(r, g, new))

LEMMA SaveWrote ==
    ASSUME NEW r \in Roles, NEW g \in Groups, NEW new,
           ~poisoned[r], Change(r, g, new), Save(r, With(r, g, new))
    PROVE  Wrote(r, g, new)
BY DEF Save, Wrote

LEMMA OutboundWrote ==
    ASSUME TypeOK, Shadow, NEW r \in Roles, NEW g \in Groups, OutboundGroup(r, g)
    PROVE  Wrote(r, g, Sent(ctx[r][g], Packet(r, g)))
<1> DEFINE p == Packet(r, g)
           new == Sent(ctx[r][g], p)
<1>1. ~poisoned[r] /\ Due(r, g)
  BY DEF OutboundGroup, Selected
<1>2. Change(r, g, new)
  BY <1>1 DEF Change
<1>3. CASE new = ctx[r][g]
  <2>1. Release(r, g, p) /\ UNCHANGED <<ctx, disk, poisoned, faults>>
    BY <1>3 DEF OutboundGroup
  <2>2. With(r, g, new) = ctx[r] /\ ctx[r] = disk[r]
    BY <1>1, <1>3 DEF With, TypeOK, Shadow
  <2>3. Commit(r, With(r, g, new))
    BY <2>1, <2>2 DEF Commit, TypeOK
  <2> QED
    BY <1>1, <1>2, <2>1, <2>3 DEF Wrote
<1>4. CASE new # ctx[r][g]
  <2>1. \/ Commit(r, With(r, g, new)) /\ Release(r, g, p)
        \/ CommitFails(r, With(r, g, new))
    BY <1>4 DEF OutboundGroup
  <2> QED
    BY <1>1, <1>2, <2>1 DEF Wrote
<1> QED
  BY <1>3, <1>4

LEMMA NextCases ==
    ASSUME TypeOK, Shadow, Next
    PROVE  \/ \E r \in Roles, g \in Groups : \E new \in GroupState : Wrote(r, g, new)
           \/ \E r \in Roles : Restart(r)
           \/ confirm_due' \in BOOLEAN /\ UNCHANGED <<ctx, disk, cursor, poisoned, net, faults>>
<1> SUFFICES ASSUME \A r \in Roles, g \in Groups : \A new :
                       Wrote(r, g, new) => new \in GroupState
             PROVE  \/ \E r \in Roles, g \in Groups : \E new : Wrote(r, g, new)
                    \/ \E r \in Roles : Restart(r)
                    \/ /\ confirm_due' \in BOOLEAN
                       /\ UNCHANGED <<ctx, disk, cursor, poisoned, net, faults>>
  BY ChangeType DEF Wrote
<1>1. ASSUME NEW r \in Roles, NEW g \in Groups, NEW w \in ValidValues, UpdateGroup(r, g, w)
      PROVE  \E new : Wrote(r, g, new)
  <2>1. Change(r, g, Updated(r, ctx[r][g], w))
    BY <1>1 DEF UpdateGroup, Change
  <2> QED
    BY <1>1, <2>1, SaveWrote DEF UpdateGroup
<1>2. ASSUME NEW g \in Groups, DataRequest(g)
      PROVE  \E new : Wrote(Server, g, new)
  <2>1. Change(Server, g, Opened(ctx[Server][g]))
    BY <1>2 DEF DataRequest, Change
  <2> QED
    BY <1>2, <2>1, SaveWrote DEF DataRequest, Roles
<1>3. ASSUME NEW r \in Roles, NEW g \in Groups, OutboundGroup(r, g)
      PROVE  \E new : Wrote(r, g, new)
  BY <1>3, OutboundWrote
<1>4. ASSUME NEW p \in net, NEW r \in Roles, NEW new, NEW rejected,
             p.group \in Groups, Receive(r, p, rejected, new),
             ~rejected => Accepted(r, p.group, p, new)
      PROVE  Wrote(r, p.group, new)
  <2>1. Change(r, p.group, new)
    BY <1>4 DEF Receive, Change
  <2> QED
    BY <1>4, <2>1, SaveWrote DEF Receive
<1>5. ASSUME NEW p \in net, ReceiveRequest(p) \/ ReceiveSnapshot(p) \/ ReceiveReceipt(p)
      PROVE  \E r \in Roles, g \in Groups : \E new : Wrote(r, g, new)
  <2>1. p.group \in Groups
    BY <1>5, FrameKinds DEF TypeOK, ReceiveRequest, ReceiveSnapshot, ReceiveReceipt,
       Request, Snapshot, Receipt
  <2>2. CASE ReceiveRequest(p)
    BY <1>4, <2>1, <2>2 DEF ReceiveRequest, Accepted, Receive, Roles
  <2>3. CASE ReceiveSnapshot(p)
    BY <1>4, <2>1, <2>3 DEF ReceiveSnapshot, Accepted, Receive, Roles
  <2>4. CASE ReceiveReceipt(p)
    BY <1>4, <2>1, <2>4 DEF ReceiveReceipt, Accepted, Receive, Roles
  <2> QED
    BY <1>5, <2>2, <2>3, <2>4
<1> QED
  BY <1>1, <1>2, <1>3, <1>5 DEF Next, Deliver, OutboundConfirmation, ReceiveClaim, Roles

-----------------------------------------------------------------------------
(***************************************************************************)
(* Type correctness.  Shadow is part of the induction: a retransmission    *)
(* that writes nothing must still leave both records alike.                *)
(***************************************************************************)
BaseInv == TypeOK /\ Shadow

LEMMA BaseInit == Init => BaseInv
<1> SUFFICES ASSUME Init PROVE BaseInv
  OBVIOUS
<1>1. FreshGroup \in GroupState
  BY ValidAssumption, BoundsAssumption DEF FreshGroup, GroupState, Ids
<1>2. 0 \in Groups /\ 0 \in 0 .. MaxFaults
  BY GroupsAssumption, BoundsAssumption DEF Groups
<1>3. OldFrames \subseteq Frames
  BY OldFramesAssumption DEF Frames
<1> QED
  BY <1>1, <1>2, <1>3 DEF Init, BaseInv, TypeOK, Shadow

LEMMA WithType ==
    ASSUME TypeOK, NEW r \in Roles, NEW g \in Groups, NEW new \in GroupState
    PROVE  With(r, g, new) \in [Groups -> GroupState]
BY DEF With, TypeOK

LEMMA BaseStep == BaseInv /\ [Next]_vars => BaseInv'
<1> SUFFICES ASSUME BaseInv, [Next]_vars PROVE BaseInv'
  OBVIOUS
<1> USE DEF BaseInv
<1>1. ASSUME NEW r \in Roles, NEW g \in Groups, NEW new \in GroupState, Wrote(r, g, new)
      PROVE  BaseInv'
  <2> DEFINE next == With(r, g, new)
  <2>1. next \in [Groups -> GroupState]
    BY WithType
  <2>2. CASE Commit(r, next) /\ UNCHANGED <<cursor, confirm_due, net>>
    BY <2>1, <2>2 DEF Commit, TypeOK, Shadow
  <2>3. CASE Commit(r, next) /\ Release(r, g, Packet(r, g))
    <3>1. Packet(r, g) \in Frames
      BY PacketType DEF Frames
    <3>2. NextGroup(g) \in Groups
      BY GroupsAssumption DEF NextGroup, Groups
    <3> QED
      BY <2>1, <2>3, <3>1, <3>2 DEF Commit, Release, TypeOK, Shadow
  <2>4. CASE CommitFails(r, next)
    <3>1. faults' \in 0 .. MaxFaults
      BY <2>4, BoundsAssumption DEF CommitFails, TypeOK
    <3> QED
      BY <2>1, <2>4, <3>1 DEF CommitFails, TypeOK, Shadow
  <2> QED
    BY <1>1, <2>2, <2>3, <2>4 DEF Wrote
<1>2. ASSUME NEW r \in Roles, Restart(r)
      PROVE  BaseInv'
  <2>1. faults' \in 0 .. MaxFaults
    BY <1>2, BoundsAssumption DEF Restart, TypeOK
  <2>2. 0 \in Groups
    BY GroupsAssumption DEF Groups
  <2> QED
    BY <1>2, <2>1, <2>2 DEF Restart, TypeOK, Shadow
<1>3. CASE /\ confirm_due' \in BOOLEAN
           /\ UNCHANGED <<ctx, disk, cursor, poisoned, net, faults>>
  BY <1>3 DEF TypeOK, Shadow
<1>4. CASE UNCHANGED vars
  BY <1>4 DEF vars, TypeOK, Shadow
<1> QED
  BY <1>1, <1>2, <1>3, <1>4, NextCases

LEMMA BaseInvariant == Spec => []BaseInv
BY BaseInit, BaseStep, PTL DEF Spec

\* Every id and value stays within its width, every stored or loaded value
\* vector satisfies the validator, and only packets enter the network.
THEOREM TypeCorrect == Spec => []TypeOK
<1>1. BaseInv => TypeOK
  BY DEF BaseInv
<1> QED
  BY <1>1, BaseInvariant, PTL

-----------------------------------------------------------------------------
(***************************************************************************)
(* A step in terms of the records a group may be read from.                *)
(***************************************************************************)

\* A step that writes nothing: a restart may only lose the copy in RAM.
Quiet ==
    /\ net' = net
    /\ \A r \in Roles, g \in Groups :
          /\ disk'[r][g] = disk[r][g]
          /\ ctx'[r][g] \in Copies(r, g)

\* A step that writes new to r's group g, and what it can release.
Writes(r, g, new) ==
    /\ Change(r, g, new)
    /\ Copies(r, g) = {ctx[r][g]}
    /\ disk'[r][g] \in {ctx[r][g], new}
    /\ ctx'[r][g] \in {ctx[r][g], new}
    /\ ctx'[r][g] # ctx[r][g] => disk'[r][g] = new
    /\ \A q \in Roles, h \in Groups :
          q # r \/ h # g => disk'[q][h] = disk[q][h] /\ ctx'[q][h] = ctx[q][h]
    /\ \/ net' = net
       \/ /\ net' = net \cup {Packet(r, g)}
          /\ Due(r, g)
          /\ new = Sent(ctx[r][g], Packet(r, g))
          /\ disk'[r][g] = new /\ ctx'[r][g] = new

LEMMA StepCases ==
    ASSUME BaseInv, [Next]_vars
    PROVE  \/ Quiet
           \/ \E r \in Roles, g \in Groups : \E new \in GroupState : Writes(r, g, new)
<1> USE DEF BaseInv
<1>1. ASSUME NEW r \in Roles, NEW g \in Groups, NEW new \in GroupState, Wrote(r, g, new)
      PROVE  Writes(r, g, new)
  <2>1. ctx[r] = disk[r]
    BY <1>1 DEF Wrote, Shadow
  <2>2. Change(r, g, new) /\ Copies(r, g) = {ctx[r][g]}
    BY <1>1, <2>1 DEF Wrote, Copies
  <2>3. With(r, g, new)[g] = new /\ \A h \in Groups : h # g => With(r, g, new)[h] = ctx[r][h]
    BY DEF With, TypeOK
  <2>4. CASE Commit(r, With(r, g, new)) /\ UNCHANGED <<cursor, confirm_due, net>>
    BY <2>1, <2>2, <2>3, <2>4 DEF Commit, Writes, TypeOK
  <2>5. CASE /\ Commit(r, With(r, g, new))
             /\ Due(r, g) /\ new = Sent(ctx[r][g], Packet(r, g))
             /\ Release(r, g, Packet(r, g))
    BY <2>1, <2>2, <2>3, <2>5 DEF Commit, Release, Writes, TypeOK
  <2>6. CASE CommitFails(r, With(r, g, new))
    BY <2>1, <2>2, <2>3, <2>6 DEF CommitFails, Writes, TypeOK
  <2> QED
    BY <1>1, <2>4, <2>5, <2>6 DEF Wrote
<1>2. ASSUME NEW r \in Roles, Restart(r)
      PROVE  Quiet
  BY <1>2 DEF Restart, Quiet, Copies, TypeOK
<1>3. CASE UNCHANGED <<ctx, disk, cursor, poisoned, net, faults>>
  BY <1>3 DEF Quiet, Copies
<1>4. CASE UNCHANGED vars
  BY <1>4 DEF vars, Quiet, Copies
<1> QED
  BY <1>1, <1>2, <1>3, <1>4, NextCases

-----------------------------------------------------------------------------
(***************************************************************************)
(* What restore() accepts, what never rolls back, what a released frame    *)
(* guarantees, and which side may hold more of a monotonic total.          *)
(***************************************************************************)
LEMMA ValueType ==
    ASSUME NEW v \in ValidValues, NEW f \in Fields
    PROVE  v[f] \in Int
BY ValidAssumption, BoundsAssumption DEF Values

LEMMA FrameType ==
    ASSUME BaseInv, NEW p \in net, p # Claim
    PROVE  /\ p.id \in Int
           /\ p.group \in Groups
           /\ p \in Request \cup Snapshot \cup Receipt
BY BoundsAssumption DEF BaseInv, TypeOK, Frames, Request, Snapshot, Receipt, Ids

\* The ids of a group record are numbers.
LEMMA IdType ==
    ASSUME NEW s \in GroupState
    PROVE  /\ s.local_revision \in Int /\ s.request_id \in Int /\ s.snapshot_id \in Int
           /\ s.acknowledged_id \in Int /\ s.last_sent_id \in Int
           /\ s.values \in ValidValues /\ s.snapshot \in ValidValues
BY BoundsAssumption DEF GroupState, Ids

LEMMA GrowsReflexive ==
    ASSUME NEW s \in GroupState
    PROVE  Grows(s, s)
<1>1. \A f \in Monotonic : s.values[f] \in Int
  BY IdType, ValueType, FieldsAssumption
<1> QED
  BY <1>1, IdType DEF Grows

(***************************************************************************)
(* One write keeps a record loadable and never takes a counter back.       *)
(***************************************************************************)
LEMMA ChangeKeeps ==
    ASSUME BaseInv, NEW r \in Roles, NEW g \in Groups, NEW new, Change(r, g, new),
           RestoreAccepts(ctx[r][g])
    PROVE  RestoreAccepts(new) /\ Grows(ctx[r][g], new)
<1> DEFINE s == ctx[r][g]
<1>1. s \in GroupState /\ new \in GroupState
  BY ChangeType DEF BaseInv, TypeOK
<1> HIDE DEF s
<1>2. /\ s.local_revision \in Int /\ s.request_id \in Int /\ s.snapshot_id \in Int
      /\ s.acknowledged_id \in Int /\ s.last_sent_id \in Int
      /\ s.values \in ValidValues /\ s.snapshot \in ValidValues
      /\ new.values \in ValidValues /\ new.snapshot \in ValidValues
  BY <1>1, IdType
<1>3. \A f \in Fields : s.values[f] \in Int /\ new.values[f] \in Int
  BY <1>2, ValueType
<1>4. Monotonic \subseteq Fields
  BY FieldsAssumption
<1>5. s.snapshot_id <= s.request_id /\ s.last_sent_id <= s.request_id
         /\ s.acknowledged_id <= s.last_sent_id
  BY DEF RestoreAccepts, s
<1>6. ASSUME NEW w \in ValidValues, MayUpdate(r, s.values, w), new = Updated(r, s, w)
      PROVE  RestoreAccepts(new) /\ Grows(s, new)
  <2>1. /\ new.values = w /\ new.local_revision = s.local_revision + 1
        /\ new.request_id \in {s.request_id, s.request_id + 1}
        /\ new.snapshot_id = s.snapshot_id /\ new.acknowledged_id = s.acknowledged_id
        /\ new.last_sent_id = s.last_sent_id
    BY <1>1, <1>6 DEF Updated, Opened, GroupState
  <2> QED
    BY <1>2, <1>3, <1>4, <1>5, <1>6, <2>1 DEF MayUpdate, RestoreAccepts, Grows
<1>7. ASSUME new = Opened(s)
      PROVE  RestoreAccepts(new) /\ Grows(s, new)
  <2>1. /\ new.values = s.values /\ new.local_revision = s.local_revision
        /\ new.request_id = s.request_id + 1
        /\ new.snapshot_id = s.snapshot_id /\ new.acknowledged_id = s.acknowledged_id
        /\ new.last_sent_id = s.last_sent_id
    BY <1>1, <1>7 DEF Opened, GroupState
  <2> QED
    BY <1>2, <1>3, <1>4, <1>5, <2>1 DEF RestoreAccepts, Grows
<1>8. ASSUME new = Sent(s, Packet(r, g))
      PROVE  RestoreAccepts(new) /\ Grows(s, new)
  <2>1. /\ new.values = s.values /\ new.local_revision = s.local_revision
        /\ new.request_id = s.request_id /\ new.snapshot_id = s.snapshot_id
        /\ new.acknowledged_id = s.acknowledged_id
        /\ new.last_sent_id \in {s.last_sent_id, s.request_id}
    BY <1>1, <1>8 DEF Sent, Packet, GroupState, s
  <2> QED
    BY <1>2, <1>3, <1>4, <1>5, <2>1 DEF RestoreAccepts, Grows
<1>9. ASSUME NEW p \in net, Accepted(r, g, p, new)
      PROVE  RestoreAccepts(new) /\ Grows(s, new)
  <2>0. p.id \in Int
    BY <1>9, FrameType DEF Accepted, Claim
  <2>1. CASE /\ p.kind = "request" /\ ~DeviceRejectsRequest(s, p)
             /\ new = DeviceOnRequest(s, p)
    <3>1. CASE p.id > s.request_id
      <4>1. /\ new.values = Merged(s, p) /\ new.local_revision = s.local_revision
            /\ new.request_id = p.id /\ new.snapshot_id = p.id
            /\ new.acknowledged_id = s.acknowledged_id
            /\ new.last_sent_id = s.last_sent_id
        BY <1>1, <1>2, <2>0, <2>1, <3>1 DEF DeviceOnRequest, GroupState
      <4>2. \A f \in Monotonic : s.values[f] <= new.values[f]
        <5> TAKE f \in Monotonic
        <5>1. f \in Owned(Server) => p.values[f] >= s.values[f]
          <6> SUFFICES ASSUME f \in Owned(Server) PROVE ~(p.values[f] < s.values[f])
            <7>1. p.values \in ValidValues
              BY <2>1 DEF DeviceRejectsRequest
            <7> QED
              BY <1>3, <1>4, <7>1, ValueType
          <6> QED
            BY <2>1, <3>1 DEF DeviceRejectsRequest
        <5>2. new.values[f] = IF f \in Owned(Server) THEN p.values[f] ELSE s.values[f]
          BY <1>4, <4>1 DEF Merged, Owned
        <5> QED
          BY <1>3, <1>4, <5>1, <5>2
      <4> QED
        BY <1>2, <1>5, <2>0, <3>1, <4>1, <4>2 DEF RestoreAccepts, Grows
    <3>2. CASE ~(p.id > s.request_id)
      <4>1. /\ new.values = s.values /\ new.local_revision = s.local_revision
            /\ new.request_id = s.request_id /\ new.snapshot_id = s.snapshot_id
            /\ new.acknowledged_id = s.acknowledged_id
            /\ new.last_sent_id = s.last_sent_id
        BY <1>1, <1>2, <2>0, <2>1, <3>2 DEF DeviceOnRequest, GroupState
      <4> QED
        BY <1>2, <1>3, <1>4, <1>5, <4>1 DEF RestoreAccepts, Grows
    <3> QED
      BY <3>1, <3>2
  <2>2. CASE /\ p.kind = "snapshot" /\ ~ServerRejectsSnapshot(s, p)
             /\ new = ServerOnSnapshot(s, p)
    <3>1. CASE p.id >= s.request_id
      <4>1. /\ new.values = p.values /\ new.local_revision = s.local_revision
            /\ new.request_id = s.request_id /\ new.snapshot_id = p.id
            /\ new.acknowledged_id = s.acknowledged_id
            /\ new.last_sent_id = s.last_sent_id
        BY <1>1, <1>2, <2>0, <2>2, <3>1 DEF ServerOnSnapshot, GroupState
      <4>2. p.id <= s.last_sent_id
        BY <1>2, <2>0, <2>2 DEF ServerRejectsSnapshot
      <4>3. \A f \in Monotonic : ~(p.values[f] < s.values[f])
        BY <2>2, <3>1 DEF ServerRejectsSnapshot
      <4>4. \A f \in Monotonic : s.values[f] <= new.values[f]
        BY <1>3, <1>4, <4>1, <4>3
      <4> QED
        BY <1>2, <1>5, <2>0, <3>1, <4>1, <4>2, <4>4 DEF RestoreAccepts, Grows
    <3>2. CASE ~(p.id >= s.request_id)
      <4>1. new = s
        BY <1>2, <2>0, <2>2, <3>2 DEF ServerOnSnapshot
      <4> QED
        BY <1>1, <4>1, GrowsReflexive DEF s
    <3> QED
      BY <3>1, <3>2
  <2>3. CASE /\ p.kind = "receipt" /\ ~DeviceRejectsReceipt(s, p)
             /\ new = DeviceOnReceipt(s, p)
    <3>1. /\ new.values = s.values /\ new.local_revision = s.local_revision
          /\ new.request_id = s.request_id /\ new.snapshot_id = s.snapshot_id
          /\ \/ new.acknowledged_id = s.acknowledged_id
             \/ new.acknowledged_id = p.id /\ p.id >= s.request_id
          /\ new.last_sent_id = s.last_sent_id
      BY <1>1, <1>2, <2>0, <2>3 DEF DeviceOnReceipt, GroupState
    <3>2. p.id <= s.last_sent_id
      BY <1>2, <2>0, <2>3 DEF DeviceRejectsReceipt
    <3> QED
      BY <1>2, <1>3, <1>4, <1>5, <2>0, <3>1, <3>2 DEF RestoreAccepts, Grows
  <2> QED
    BY <1>9, <2>1, <2>2, <2>3 DEF Accepted, s
<1> QED
  BY <1>6, <1>7, <1>8, <1>9 DEF Change, s

-----------------------------------------------------------------------------
(***************************************************************************)
(* Records: both copies load, and storage is never behind RAM.             *)
(***************************************************************************)
RecordInv ==
    /\ BaseInv
    /\ \A r \in Roles, g \in Groups :
          /\ RestoreAccepts(ctx[r][g])
          /\ RestoreAccepts(disk[r][g])
          /\ Grows(ctx[r][g], disk[r][g])

\* A step, restart and failed commit included, rolls no copy back.
StepGrows ==
    \A r \in Roles, g \in Groups :
        Grows(disk[r][g], disk'[r][g]) /\ Grows(ctx[r][g], ctx'[r][g])

LEMMA RecordInit == Init => RecordInv
<1> SUFFICES ASSUME Init PROVE RecordInv
  OBVIOUS
<1>1. BaseInv
  BY BaseInit
<1>2. ASSUME NEW r \in Roles, NEW g \in Groups
      PROVE  ctx[r][g] = FreshGroup /\ disk[r][g] = FreshGroup /\ FreshGroup \in GroupState
  BY <1>1 DEF Init, BaseInv, TypeOK
<1>3. RestoreAccepts(FreshGroup)
  BY ValidAssumption DEF RestoreAccepts, FreshGroup
<1> QED
  BY <1>1, <1>2, <1>3, GrowsReflexive DEF RecordInv

LEMMA RecordStep ==
    ASSUME RecordInv, [Next]_vars
    PROVE  RecordInv' /\ StepGrows
<1>1. BaseInv /\ BaseInv'
  BY BaseStep DEF RecordInv
<1>2. ASSUME NEW q \in Roles, NEW h \in Groups
      PROVE  ctx[q][h] \in GroupState /\ disk[q][h] \in GroupState
  BY <1>1 DEF BaseInv, TypeOK
<1>3. CASE Quiet
  <2> SUFFICES ASSUME NEW q \in Roles, NEW h \in Groups
               PROVE  /\ RestoreAccepts(ctx'[q][h]) /\ RestoreAccepts(disk'[q][h])
                      /\ Grows(ctx'[q][h], disk'[q][h])
                      /\ Grows(disk[q][h], disk'[q][h]) /\ Grows(ctx[q][h], ctx'[q][h])
    BY <1>1 DEF RecordInv, StepGrows
  <2>1. disk'[q][h] = disk[q][h] /\ ctx'[q][h] \in {ctx[q][h], disk[q][h]}
    BY <1>3 DEF Quiet, Copies
  <2>2. Grows(ctx[q][h], ctx[q][h]) /\ Grows(disk[q][h], disk[q][h])
    BY <1>2, GrowsReflexive
  <2> QED
    BY <2>1, <2>2 DEF RecordInv
<1>4. ASSUME NEW r \in Roles, NEW g \in Groups, NEW new \in GroupState, Writes(r, g, new)
      PROVE  RecordInv' /\ StepGrows
  <2> SUFFICES ASSUME NEW q \in Roles, NEW h \in Groups
               PROVE  /\ RestoreAccepts(ctx'[q][h]) /\ RestoreAccepts(disk'[q][h])
                      /\ Grows(ctx'[q][h], disk'[q][h])
                      /\ Grows(disk[q][h], disk'[q][h]) /\ Grows(ctx[q][h], ctx'[q][h])
    BY <1>1 DEF RecordInv, StepGrows
  <2>1. RestoreAccepts(new) /\ Grows(ctx[r][g], new)
    BY <1>1, <1>4, ChangeKeeps DEF RecordInv, Writes
  <2>2. /\ Grows(ctx[q][h], ctx[q][h]) /\ Grows(disk[q][h], disk[q][h])
        /\ Grows(new, new)
    BY <1>2, GrowsReflexive
  <2>3. CASE q = r /\ h = g
    <3>1. disk[r][g] = ctx[r][g]
      BY <1>4 DEF Writes, Copies
    <3>2. /\ disk'[r][g] \in {ctx[r][g], new} /\ ctx'[r][g] \in {ctx[r][g], new}
          /\ ctx'[r][g] # ctx[r][g] => disk'[r][g] = new
      BY <1>4 DEF Writes
    <3> QED
      BY <2>1, <2>2, <2>3, <3>1, <3>2 DEF RecordInv
  <2>4. CASE q # r \/ h # g
    <3>1. disk'[q][h] = disk[q][h] /\ ctx'[q][h] = ctx[q][h]
      BY <1>4, <2>4 DEF Writes
    <3> QED
      BY <2>2, <3>1 DEF RecordInv
  <2> QED
    BY <2>3, <2>4
<1> QED
  BY <1>1, <1>3, <1>4, StepCases

LEMMA RecordInvariant == Spec => []RecordInv
BY RecordInit, RecordStep, PTL DEF Spec

\* No sequence of calls, frames, restarts and failed commits leaves a group
\* record that restore() refuses.
THEOREM RecordsRestorable == Spec => []Restorable
<1>1. RecordInv => Restorable
  BY DEF RecordInv, Restorable
<1> QED
  BY <1>1, RecordInvariant, PTL

\* No step rolls a counter or a monotonic value back, in storage or in RAM:
\* not a replayed frame, not a failed commit, not a restart.
THEOREM NothingRollsBack == Spec => NoRollback
<1>1. RecordInv /\ [Next]_vars =>
        [\A r \in Roles, g \in Groups :
            Grows(disk[r][g], disk'[r][g]) /\ Grows(ctx[r][g], ctx'[r][g])]_vars
  BY RecordStep DEF StepGrows
<1> QED
  BY <1>1, RecordInvariant, PTL DEF Spec, NoRollback

-----------------------------------------------------------------------------
(***************************************************************************)
(* What a released frame guarantees about its sender.                      *)
(***************************************************************************)
LEMMA ReleasedStep ==
    ASSUME RecordInv, ReleasedIsDurable, [Next]_vars
    PROVE  ReleasedIsDurable'
<1>1. BaseInv /\ BaseInv' /\ StepGrows
  BY RecordStep DEF RecordInv
<1>2. ASSUME NEW q \in Roles, NEW h \in Groups
      PROVE  /\ disk[q][h].last_sent_id \in Int /\ disk'[q][h].last_sent_id \in Int
             /\ disk[q][h].snapshot_id \in Int /\ disk'[q][h].snapshot_id \in Int
             /\ disk[q][h].last_sent_id <= disk'[q][h].last_sent_id
             /\ disk[q][h].snapshot_id <= disk'[q][h].snapshot_id
  BY <1>1, IdType DEF BaseInv, TypeOK, StepGrows, Grows
<1>3. ASSUME NEW p \in net
      PROVE  /\ p.kind = "request"  => p.id <= disk'[Server][p.group].last_sent_id
             /\ p.kind = "snapshot" => p.id <= disk'[Device][p.group].last_sent_id
             /\ p.kind = "receipt"  => p.id <= disk'[Server][p.group].snapshot_id
  <2>1. CASE p = Claim
    BY <2>1 DEF Claim
  <2>2. CASE p # Claim
    <3>1. p.id \in Int /\ p.group \in Groups
      BY <1>1, <2>2, FrameType
    <3> QED
      BY <1>2, <3>1 DEF ReleasedIsDurable, Roles
  <2> QED
    BY <2>1, <2>2
<1>4. CASE net' = net
  BY <1>3, <1>4 DEF ReleasedIsDurable
<1>5. ASSUME NEW r \in Roles, NEW g \in Groups, NEW new \in GroupState, Writes(r, g, new),
             net' = net \cup {Packet(r, g)},
             new = Sent(ctx[r][g], Packet(r, g)), disk'[r][g] = new
      PROVE  ReleasedIsDurable'
  <2> DEFINE p == Packet(r, g)
             s == ctx[r][g]
  <2>1. s \in GroupState /\ p \in Request \cup Snapshot \cup Receipt
    BY <1>1, PacketType DEF BaseInv, TypeOK
  <2>2. /\ p.group = g
        /\ p.kind = "snapshot" => r = Device /\ p.id = s.request_id
        /\ p.kind = "request" => r = Server /\ p.id = s.request_id
        /\ p.kind = "receipt" => r = Server /\ p.id = s.snapshot_id
    BY DEF Packet, Roles, Server, Device
  <2>3. /\ p.kind # "receipt" => new.last_sent_id = p.id
        /\ p.kind = "receipt" => new.snapshot_id = s.snapshot_id
    BY <1>5, <2>1 DEF Sent, GroupState
  <2>4. p.id \in Int
    BY <2>1, BoundsAssumption DEF Request, Snapshot, Receipt, Ids
  <2> HIDE DEF p, s
  <2>5. /\ p.kind = "request"  => p.id <= disk'[Server][p.group].last_sent_id
        /\ p.kind = "snapshot" => p.id <= disk'[Device][p.group].last_sent_id
        /\ p.kind = "receipt"  => p.id <= disk'[Server][p.group].snapshot_id
    BY <1>5, <2>2, <2>3, <2>4
  <2>6. net' = net \cup {p}
    BY <1>5 DEF p
  <2> QED
    BY <1>3, <2>5, <2>6 DEF ReleasedIsDurable
<1> QED
  BY <1>1, <1>4, <1>5, StepCases DEF Quiet, Writes

\* Whatever frame may still arrive, the record its sender would restart from
\* already covers its id: nothing is released over an uncommitted record.
THEOREM NothingReleasedEarly == Spec => []ReleasedIsDurable
<1>1. Init => ReleasedIsDurable
  BY OldFramesAssumption DEF Init, ReleasedIsDurable, Claim
<1> QED
  BY <1>1, RecordInvariant, ReleasedStep, PTL DEF Spec

-----------------------------------------------------------------------------
(***************************************************************************)
(* Which side may hold more of a monotonic total.  The induction needs     *)
(* what the frames in the network still carry: a total written by the      *)
(* frame's sender is covered by every record the sender may restart from,  *)
(* and a frozen answer never exceeds what the device holds by now.         *)
(***************************************************************************)
Covered ==
    \A p \in net, f \in Monotonic :
        /\ p.kind = "request" /\ Owner[f] = Server =>
              \A t \in Copies(Server, p.group) : p.values[f] <= t.values[f]
        /\ p.kind = "snapshot" /\ Owner[f] = Device =>
              \A t \in Copies(Device, p.group) : p.values[f] <= t.values[f]

FrozenBelow ==
    \A g \in Groups, f \in Monotonic :
        Owner[f] = Device =>
            \A s \in Copies(Device, g) : s.snapshot[f] <= s.values[f]

TotalsInv == RecordInv /\ OwnerAhead /\ Covered /\ FrozenBelow

LEMMA RoleFacts ==
    /\ Device \in Roles /\ Server \in Roles /\ Device # Server
    /\ \A r \in Roles : Peer(r) \in Roles /\ Peer(r) # r
    /\ \A r \in Roles, q \in Roles : q # r => Peer(q) = r
    /\ \A f \in Fields : Owner[f] \in Roles
    /\ \A f \in Monotonic : f \in Fields
BY FieldsAssumption DEF Roles, Device, Server, Peer

LEMMA TotalsInit == Init => TotalsInv
<1> SUFFICES ASSUME Init PROVE TotalsInv
  OBVIOUS
<1>1. RecordInv
  BY RecordInit
<1>2. ASSUME NEW r \in Roles, NEW g \in Groups, NEW s \in Copies(r, g), NEW f \in Fields
      PROVE  s.values[f] = 0 /\ s.snapshot[f] = 0
  BY <1>2 DEF Init, Copies, FreshGroup, Zero
<1>3. OwnerAhead /\ FrozenBelow
  BY <1>2, RoleFacts DEF OwnerAhead, FrozenBelow
<1>4. Covered
  BY OldFramesAssumption DEF Init, Covered, Claim
<1> QED
  BY <1>1, <1>3, <1>4 DEF TotalsInv

\* One write: r's own totals grow, the peer's totals come from r's record or
\* from a covered frame, and a new snapshot is taken of the current values.
LEMMA ChangeTotals ==
    ASSUME TotalsInv, NEW r \in Roles, NEW g \in Groups, NEW new, Change(r, g, new),
           NEW f \in Monotonic
    PROVE  /\ Owner[f] = r => ctx[r][g].values[f] <= new.values[f]
           /\ Owner[f] # r => \A t \in Copies(Owner[f], g) : new.values[f] <= t.values[f]
           /\ r = Device /\ Owner[f] = Device => new.snapshot[f] <= new.values[f]
<1> DEFINE s == ctx[r][g]
<1>1. BaseInv /\ RestoreAccepts(s) /\ f \in Fields
  BY RoleFacts DEF TotalsInv, RecordInv
<1>2. s \in GroupState /\ new \in GroupState
  BY <1>1, ChangeType DEF BaseInv, TypeOK
<1>3. /\ s.values[f] \in Int /\ new.values[f] \in Int
      /\ s.snapshot[f] \in Int /\ new.snapshot[f] \in Int
  BY <1>1, <1>2, IdType, ValueType
<1>4. s.values[f] <= new.values[f]
  BY <1>1, ChangeKeeps DEF Grows
<1>5. Owner[f] # r => \A t \in Copies(Owner[f], g) : s.values[f] <= t.values[f]
  <2> SUFFICES ASSUME Owner[f] # r
               PROVE  \A t \in Copies(Owner[f], g) : s.values[f] <= t.values[f]
    OBVIOUS
  <2>1. Peer(Owner[f]) = r /\ s \in Copies(r, g)
    BY <1>1, RoleFacts DEF Copies
  <2> QED
    BY <2>1 DEF TotalsInv, OwnerAhead
<1>6. r = Device /\ Owner[f] = Device => s.snapshot[f] <= s.values[f]
  BY DEF TotalsInv, FrozenBelow, Copies
<1>7. ASSUME new.snapshot = s.snapshot,
             new.values[f] = s.values[f] \/ Owner[f] = r
      PROVE  /\ Owner[f] # r => \A t \in Copies(Owner[f], g) : new.values[f] <= t.values[f]
             /\ r = Device /\ Owner[f] = Device => new.snapshot[f] <= new.values[f]
  BY <1>3, <1>4, <1>5, <1>6, <1>7
<1>8. ASSUME NEW w \in ValidValues, MayUpdate(r, s.values, w), new = Updated(r, s, w)
      PROVE  new.snapshot = s.snapshot /\ (new.values[f] = s.values[f] \/ Owner[f] = r)
  <2>1. new.snapshot = s.snapshot /\ new.values = w
    BY <1>2, <1>8 DEF Updated, Opened, GroupState
  <2> QED
    BY <1>1, <1>8, <2>1 DEF MayUpdate, Owned
<1>9. ASSUME new = Opened(s) \/ new = Sent(s, Packet(r, g))
      PROVE  new.snapshot = s.snapshot /\ new.values[f] = s.values[f]
  BY <1>2, <1>9 DEF Opened, Sent, GroupState
<1>10. ASSUME NEW p \in net, Accepted(r, g, p, new)
       PROVE  \/ new.snapshot = s.snapshot /\ new.values = s.values
              \/ /\ p.kind = "request" /\ r = Device
                 /\ new.values = Merged(s, p) /\ new.snapshot = new.values
              \/ /\ p.kind = "snapshot" /\ r = Server /\ new.values = p.values
  <2>1. CASE p.kind = "request" /\ r = Device /\ new = DeviceOnRequest(s, p)
    BY <1>2, <2>1 DEF DeviceOnRequest, GroupState
  <2>2. CASE p.kind = "snapshot" /\ r = Server /\ new = ServerOnSnapshot(s, p)
    BY <1>2, <2>2 DEF ServerOnSnapshot, GroupState
  <2>3. CASE p.kind = "receipt" /\ new = DeviceOnReceipt(s, p)
    BY <1>2, <2>3 DEF DeviceOnReceipt, GroupState
  <2> QED
    BY <1>10, <2>1, <2>2, <2>3 DEF Accepted
<1>11. ASSUME NEW p \in net, p.group = g, p.kind = "request", r = Device,
              new.values = Merged(s, p), new.snapshot = new.values
       PROVE  /\ Owner[f] # r => \A t \in Copies(Owner[f], g) : new.values[f] <= t.values[f]
              /\ Owner[f] = Device => new.snapshot[f] <= new.values[f]
  <2>1. Owner[f] # r => Owner[f] = Server
    BY <1>1, <1>11, RoleFacts DEF Roles
  <2>2. Owner[f] = Server => new.values[f] = p.values[f]
    BY <1>1, <1>11 DEF Merged
  <2>3. Owner[f] = Server => \A t \in Copies(Server, g) : p.values[f] <= t.values[f]
    BY <1>11 DEF TotalsInv, Covered
  <2> QED
    BY <1>3, <1>11, <2>1, <2>2, <2>3
<1>12. ASSUME NEW p \in net, p.group = g, p.kind = "snapshot", r = Server,
              new.values = p.values
       PROVE  Owner[f] # r => \A t \in Copies(Owner[f], g) : new.values[f] <= t.values[f]
  <2>1. Owner[f] # r => Owner[f] = Device
    BY <1>1, <1>12, RoleFacts DEF Roles
  <2> QED
    BY <1>12, <2>1 DEF TotalsInv, Covered
<1> HIDE DEF s
<1>13. ASSUME NEW p \in net, Accepted(r, g, p, new)
       PROVE  /\ Owner[f] # r => \A t \in Copies(Owner[f], g) : new.values[f] <= t.values[f]
              /\ r = Device /\ Owner[f] = Device => new.snapshot[f] <= new.values[f]
  <2>1. p.group = g
    BY <1>13 DEF Accepted
  <2> QED
    BY <1>7, <1>10, <1>11, <1>12, <1>13, <2>1, RoleFacts
<1> QED
  BY <1>4, <1>7, <1>8, <1>9, <1>13 DEF Change, s

LEMMA TotalsStep ==
    ASSUME TotalsInv, [Next]_vars
    PROVE  TotalsInv'
<1>1. RecordInv /\ RecordInv' /\ BaseInv /\ BaseInv'
  BY RecordStep DEF TotalsInv, RecordInv
<1>2. CASE Quiet
  <2>1. \A q \in Roles, h \in Groups : Copies(q, h)' \subseteq Copies(q, h)
    BY <1>2 DEF Quiet, Copies
  <2>2. \A p \in net : p.kind \in {"request", "snapshot"} => p.group \in Groups
    BY <1>1, FrameType DEF Claim
  <2>3. net' = net
    BY <1>2 DEF Quiet
  <2>4. OwnerAhead'
    BY <2>1, RoleFacts DEF TotalsInv, OwnerAhead
  <2>5. Covered'
    BY <2>1, <2>2, <2>3, RoleFacts DEF TotalsInv, Covered
  <2>6. FrozenBelow'
    BY <2>1, RoleFacts DEF TotalsInv, FrozenBelow
  <2> QED
    BY <1>1, <2>4, <2>5, <2>6 DEF TotalsInv
<1>3. ASSUME NEW r \in Roles, NEW g \in Groups, NEW new \in GroupState, Writes(r, g, new)
      PROVE  TotalsInv'
  <2> DEFINE s == ctx[r][g]
  <2>1. Change(r, g, new) /\ Copies(r, g) = {s}
    BY <1>3 DEF Writes
  <2>2. ASSUME NEW q \in Roles, NEW h \in Groups, NEW t \in Copies(q, h)'
        PROVE  t \in Copies(q, h) \/ (q = r /\ h = g /\ t = new)
    <3>1. CASE q = r /\ h = g
      BY <1>3, <2>1, <2>2, <3>1 DEF Writes, Copies
    <3>2. CASE q # r \/ h # g
      BY <1>3, <2>2, <3>2 DEF Writes, Copies
    <3> QED
      BY <3>1, <3>2
  <2>3. ASSUME NEW f \in Monotonic
        PROVE  /\ Owner[f] = r => s.values[f] <= new.values[f]
               /\ Owner[f] # r => \A t \in Copies(Owner[f], g) : new.values[f] <= t.values[f]
               /\ r = Device /\ Owner[f] = Device => new.snapshot[f] <= new.values[f]
    BY <2>1, <2>3, ChangeTotals
  <2>4. ASSUME NEW q \in Roles, NEW h \in Groups, NEW t \in Copies(q, h), NEW f \in Fields
        PROVE  t.values[f] \in Int /\ t.snapshot[f] \in Int
    <3>1. t \in GroupState
      BY <1>1, <2>4 DEF Copies, BaseInv, TypeOK
    <3> QED
      BY <3>1, IdType, ValueType
  <2>5. \A f \in Fields : new.values[f] \in Int /\ new.snapshot[f] \in Int
    BY <1>3, IdType, ValueType
  <2>6. OwnerAhead'
    <3> SUFFICES ASSUME NEW h \in Groups, NEW f \in Monotonic,
                        NEW a \in Copies(Owner[f], h)', NEW b \in Copies(Peer(Owner[f]), h)'
                 PROVE  b.values[f] <= a.values[f]
      BY DEF OwnerAhead
    <3>1. Owner[f] \in Roles /\ Peer(Owner[f]) \in Roles /\ Peer(Owner[f]) # Owner[f] /\ f \in Fields
      BY RoleFacts
    <3>2. CASE a \in Copies(Owner[f], h) /\ b \in Copies(Peer(Owner[f]), h)
      BY <3>2 DEF TotalsInv, OwnerAhead
    <3>3. CASE Owner[f] = r /\ h = g /\ a = new /\ b \in Copies(Peer(Owner[f]), h)
      <4>1. b.values[f] <= s.values[f]
        BY <2>1, <3>1, <3>3 DEF TotalsInv, OwnerAhead
      <4>2. s \in Copies(r, g)
        BY <2>1
      <4>3. s.values[f] \in Int /\ b.values[f] \in Int /\ new.values[f] \in Int
        BY <2>4, <2>5, <3>1, <3>3, <4>2
      <4> HIDE DEF s
      <4> QED
        BY <2>3, <3>3, <4>1, <4>3
    <3>4. CASE Peer(Owner[f]) = r /\ h = g /\ b = new /\ a \in Copies(Owner[f], h)
      BY <2>3, <3>1, <3>4
    <3> QED
      BY <2>2, <3>1, <3>2, <3>3, <3>4
  <2>7. FrozenBelow'
    <3> SUFFICES ASSUME NEW h \in Groups, NEW f \in Monotonic, Owner[f] = Device,
                        NEW t \in Copies(Device, h)'
                 PROVE  t.snapshot[f] <= t.values[f]
      BY DEF FrozenBelow
    <3>1. CASE t \in Copies(Device, h)
      BY <3>1 DEF TotalsInv, FrozenBelow
    <3>2. CASE Device = r /\ h = g /\ t = new
      BY <2>3, <3>2
    <3> QED
      BY <2>2, <3>1, <3>2, RoleFacts
  <2>8. ASSUME NEW p \in net, NEW f \in Monotonic, NEW q \in Roles, Owner[f] = q,
               p.kind = (IF q = Server THEN "request" ELSE "snapshot"),
               NEW t \in Copies(q, p.group)'
        PROVE  p.values[f] <= t.values[f]
    <3>1. p.group \in Groups /\ p.values[f] \in Int
      <4>1. p \in Request \cup Snapshot \cup Receipt /\ p.group \in Groups
        BY <1>1, <2>8, FrameType DEF Claim
      <4>2. p \in Request \cup Snapshot
        BY <2>8, <4>1 DEF Receipt
      <4> QED
        BY <4>1, <4>2, RoleFacts, BoundsAssumption DEF Request, Snapshot, Values
    <3>2. \A a \in Copies(q, p.group) : p.values[f] <= a.values[f]
      BY <2>8 DEF TotalsInv, Covered, Roles
    <3>3. CASE t \in Copies(q, p.group)
      BY <3>2, <3>3
    <3>4. CASE q = r /\ p.group = g /\ t = new
      <4>1. s \in Copies(r, g)
        BY <2>1
      <4>2. s.values[f] \in Int /\ new.values[f] \in Int
        BY <2>4, <2>5, <4>1, RoleFacts
      <4>3. p.values[f] <= s.values[f] /\ s.values[f] <= new.values[f]
        BY <2>3, <2>8, <3>2, <3>4, <4>1
      <4> HIDE DEF s
      <4> QED
        BY <3>1, <3>4, <4>2, <4>3
    <3> QED
      BY <2>2, <2>8, <3>1, <3>3, <3>4
  <2>9. CASE net' = net
    BY <1>1, <2>6, <2>7, <2>8, <2>9, RoleFacts DEF TotalsInv, Covered, Server, Device
  <2>10. CASE /\ net' = net \cup {Packet(r, g)}
              /\ new = Sent(s, Packet(r, g))
              /\ disk'[r][g] = new /\ ctx'[r][g] = new
    <3> DEFINE p == Packet(r, g)
    <3>1. /\ p.group = g
          /\ p.kind = "request" => r = Server /\ p.values = s.values
          /\ p.kind = "snapshot" => r = Device /\ p.values = s.snapshot
      BY DEF Packet, Roles, Server, Device
    <3>2. s \in GroupState
      BY <1>1 DEF BaseInv, TypeOK
    <3>3. new.values = s.values
      BY <2>10, <3>2 DEF Sent, GroupState
    <3>4. disk'[r][g] = new /\ ctx'[r][g] = new
      BY <2>10
    <3>5. s \in Copies(r, g)
      BY <2>1
    <3>6. \A f \in Monotonic : r = Device /\ Owner[f] = Device => s.snapshot[f] <= s.values[f]
      BY <3>5 DEF TotalsInv, FrozenBelow
    <3>7. \A f \in Monotonic : s.values[f] \in Int
      BY <2>4, <3>5, RoleFacts
    <3> HIDE DEF s, p
    <3>8. ASSUME NEW f \in Monotonic
          PROVE  /\ p.kind = "request" /\ Owner[f] = Server =>
                      \A t \in Copies(Server, g)' : p.values[f] <= t.values[f]
                 /\ p.kind = "snapshot" /\ Owner[f] = Device =>
                      \A t \in Copies(Device, g)' : p.values[f] <= t.values[f]
      BY <3>1, <3>3, <3>4, <3>6, <3>7 DEF Copies
    <3>9. net' = net \cup {p}
      BY <2>10 DEF p, s
    <3>10. ASSUME NEW o \in net, NEW f \in Monotonic
           PROVE  /\ o.kind = "request" /\ Owner[f] = Server =>
                       \A t \in Copies(Server, o.group)' : o.values[f] <= t.values[f]
                  /\ o.kind = "snapshot" /\ Owner[f] = Device =>
                       \A t \in Copies(Device, o.group)' : o.values[f] <= t.values[f]
      BY <2>8, RoleFacts DEF Server, Device
    <3>11. Covered'
      BY <3>1, <3>8, <3>9, <3>10 DEF Covered
    <3> QED
      BY <1>1, <2>6, <2>7, <3>11 DEF TotalsInv
  <2> QED
    BY <1>3, <2>9, <2>10 DEF Writes
<1> QED
  BY <1>2, <1>3, StepCases DEF TotalsInv, RecordInv

\* Neither side ever holds, in RAM or in storage, more of a monotonic total
\* than every record its owner may continue from.
THEOREM OwnerHoldsMost == Spec => []OwnerAhead
<1>1. TotalsInv => OwnerAhead
  BY DEF TotalsInv
<1>2. TotalsInv /\ [Next]_vars => TotalsInv'
  BY TotalsStep
<1> QED
  BY <1>1, <1>2, TotalsInit, PTL DEF Spec

-----------------------------------------------------------------------------
(***************************************************************************)
(* What the two sides agree on.                                            *)
(*                                                                         *)
(* The induction relates three things of each group: any copy the device   *)
(* may continue from, any copy the server may continue from, and every     *)
(* frame about the group that was ever released (Agree); and those frames  *)
(* with one another (FramesAgree).  Request numbers tie them together: the *)
(* server's fields belong to the last number it opened, the device's       *)
(* snapshot to the last number it took, and totals grow with the numbers.  *)
(***************************************************************************)

Same(F, v, w)  == \A f \in F : v[f] = w[f]
Below(F, v, w) == \A f \in F : v[f] <= w[f]

\* The monotonic totals that r owns.
Totals(r) == {f \in Monotonic : Owner[f] = r}

\* The frames of n that carry group g as kind k.
Of(k, g, n) == {p \in n : p.kind = k /\ p.group = g}

\* s is a device's record: its snapshot answers its last request, and the
\* server's fields are the ones that request brought.
DeviceHolds(s) ==
    /\ s.snapshot_id = s.request_id
    /\ ~s.request_pending /\ ~s.receipt_pending
    /\ s.response_pending => 0 < s.request_id
    /\ Same(Owned(Server), s.values, s.snapshot)

\* u is a server's record of g: the snapshot in it came in a frame.
ServerHolds(g, u, n) ==
    /\ ~u.response_pending
    /\ u.request_pending => 0 < u.request_id
    /\ u.receipt_pending => 0 < u.snapshot_id
    /\ u.has_snapshot \/ 0 < u.snapshot_id =>
          \E q \in Of("snapshot", g, n) : q.id = u.snapshot_id /\ q.values = u.snapshot

SidesAgree(s, u) ==
    /\ s.acknowledged_id <= u.snapshot_id
    /\ s.request_id <= u.last_sent_id
    /\ s.request_id = u.request_id => Same(Owned(Server), s.snapshot, u.values)
    /\ Below(Totals(Device), u.values, s.snapshot)

RequestAgrees(p, s, u) ==
    /\ 0 < p.id /\ p.id <= u.last_sent_id /\ p.values \in ValidValues
    /\ p.id = u.request_id => Same(Owned(Server), p.values, u.values)
    /\ p.id = s.request_id => Same(Owned(Server), p.values, s.snapshot)
    /\ s.request_id <= p.id => Below(Totals(Server), s.values, p.values)

SnapshotAgrees(q, s, u) ==
    /\ 0 < q.id /\ q.id <= s.request_id /\ q.values \in ValidValues
    /\ q.id = s.request_id => q.values = s.snapshot
    /\ Below(Totals(Device), q.values, s.snapshot)
    /\ q.id = u.request_id => Same(Owned(Server), q.values, u.values)
    /\ u.snapshot_id <= q.id => Below(Totals(Device), u.values, q.values)

ReceiptAgrees(p, u) == 0 < p.id /\ p.id <= u.snapshot_id

\* The frames n about g, by themselves.
FramesAgree(g, n) ==
    /\ \A p, q \in Of("request", g, n) :
          /\ p.id = q.id => Same(Owned(Server), p.values, q.values)
          /\ p.id <= q.id => Below(Totals(Server), p.values, q.values)
    /\ \A p, q \in Of("snapshot", g, n) :
          /\ p.id = q.id => p.values = q.values
          /\ p.id <= q.id => Below(Totals(Device), p.values, q.values)

\* The device's record s, the server's record u and the frames n about g.
Agree(g, s, u, n) ==
    /\ DeviceHolds(s)
    /\ ServerHolds(g, u, n)
    /\ SidesAgree(s, u)
    /\ \A p \in Of("request", g, n)  : RequestAgrees(p, s, u)
    /\ \A q \in Of("snapshot", g, n) : SnapshotAgrees(q, s, u)
    /\ \A p \in Of("receipt", g, n)  : ReceiptAgrees(p, u)

AllAgree ==
    \A g \in Groups :
        /\ FramesAgree(g, net)
        /\ \A s \in Copies(Device, g), u \in Copies(Server, g) : Agree(g, s, u, net)
-----------------------------------------------------------------------------
(***************************************************************************)
(* Types, and the frames about a group when one is added.                  *)
(***************************************************************************)
LEMMA TotalsFacts ==
    /\ \A r \in Roles : \A f \in Totals(r) : f \in Monotonic /\ f \in Fields /\ Owner[f] = r
    /\ \A r \in Roles : \A f \in Totals(r) : f \in Owned(r)
    /\ \A f \in Totals(Device) : f \in Fields \ Owned(Server)
    /\ \A f \in Owned(Server) : f \in Fields \ Owned(Device)
  BY RoleFacts DEF Totals, Owned

LEMMA CopyType ==
    ASSUME TotalsInv, NEW r \in Roles, NEW g \in Groups, NEW s \in Copies(r, g)
    PROVE  /\ s \in GroupState /\ RestoreAccepts(s)
           /\ s.request_id \in Int /\ s.snapshot_id \in Int /\ s.last_sent_id \in Int
           /\ s.acknowledged_id \in Int
           /\ 0 <= s.request_id /\ 0 <= s.snapshot_id
           /\ \A f \in Fields : s.values[f] \in Int /\ s.snapshot[f] \in Int
<1>1. s \in GroupState /\ RestoreAccepts(s)
  BY DEF TotalsInv, RecordInv, BaseInv, TypeOK, Copies
<1>2. s.request_id \in Ids /\ s.snapshot_id \in Ids
  BY <1>1 DEF GroupState
<1> QED
  BY <1>1, <1>2, IdType, ValueType, BoundsAssumption DEF Ids

LEMMA OfType ==
    ASSUME BaseInv, NEW g \in Groups
    PROVE  /\ \A p \in Of("request", g, net) : /\ p \in Request /\ p.id \in Int
                                               /\ \A f \in Fields : p.values[f] \in Int
           /\ \A p \in Of("snapshot", g, net) : /\ p \in Snapshot /\ p.id \in Int
                                                /\ \A f \in Fields : p.values[f] \in Int
           /\ \A p \in Of("receipt", g, net) : p \in Receipt /\ p.id \in Int
<1>1. \A p \in net : p \in Frames
  BY DEF BaseInv, TypeOK
<1>2. \A p \in Request \cup Snapshot : p.id \in Int /\ \A f \in Fields : p.values[f] \in Int
  BY BoundsAssumption DEF Request, Snapshot, Ids, Values
<1>3. \A p \in Receipt : p.id \in Int
  BY BoundsAssumption DEF Receipt, Ids
<1> QED
  BY <1>1, <1>2, <1>3, FrameKinds DEF Of

LEMMA OfGrows ==
    ASSUME NEW n, NEW p, NEW k, NEW h
    PROVE  /\ Of(k, h, n) \subseteq Of(k, h, n \cup {p})
           /\ \A o \in Of(k, h, n \cup {p}) : o \in Of(k, h, n) \/ (o = p /\ p.kind = k /\ p.group = h)
  BY DEF Of

-----------------------------------------------------------------------------
(***************************************************************************)
(* What one write makes of a side's record, field by field.                *)
(***************************************************************************)
DeviceKeeps(g, s, new) ==
    /\ new.request_id = s.request_id /\ new.snapshot_id = s.snapshot_id
    /\ new.snapshot = s.snapshot
    /\ Same(Owned(Server), new.values, s.values)
    /\ new.request_pending = s.request_pending /\ new.receipt_pending = s.receipt_pending
    /\ new.response_pending => s.response_pending \/ 0 < s.request_id
    /\ \/ new.acknowledged_id = s.acknowledged_id
       \/ \E p \in Of("receipt", g, net) : new.acknowledged_id = p.id

DeviceTakes(g, s, new) ==
    /\ \E p \in Of("request", g, net) :
          /\ s.request_id < p.id
          /\ new.request_id = p.id /\ new.snapshot_id = p.id
          /\ new.values = Merged(s, p) /\ new.snapshot = Merged(s, p)
    /\ new.request_pending = s.request_pending /\ new.receipt_pending = s.receipt_pending
    /\ new.acknowledged_id = s.acknowledged_id

ServerKeeps(u, new) ==
    /\ new.request_id = u.request_id /\ new.snapshot_id = u.snapshot_id
    /\ new.snapshot = u.snapshot /\ new.has_snapshot = u.has_snapshot
    /\ new.values = u.values
    /\ new.request_pending = u.request_pending /\ new.response_pending = u.response_pending
    /\ new.receipt_pending => u.receipt_pending
    /\ new.last_sent_id \in {u.last_sent_id, u.request_id}

ServerOpens(u, new) ==
    /\ new.request_id = u.request_id + 1 /\ new.snapshot_id = u.snapshot_id
    /\ new.snapshot = u.snapshot /\ new.has_snapshot = u.has_snapshot
    /\ \A f \in Fields \ Owned(Server) : new.values[f] = u.values[f]
    /\ new.response_pending = u.response_pending /\ new.receipt_pending = u.receipt_pending
    /\ new.last_sent_id = u.last_sent_id

ServerRecords(g, u, new) ==
    /\ \E q \in Of("snapshot", g, net) :
          /\ q.id = u.request_id /\ 0 < q.id
          /\ Same(Owned(Server), q.values, u.values)
          /\ new.values = q.values /\ new.snapshot = q.values /\ new.snapshot_id = q.id
    /\ new.request_id = u.request_id /\ new.last_sent_id = u.last_sent_id
    /\ new.response_pending = u.response_pending /\ ~new.request_pending

LEMMA DeviceChange ==
    ASSUME BaseInv, NEW g \in Groups, NEW new, Change(Device, g, new)
    PROVE  DeviceKeeps(g, ctx[Device][g], new) \/ DeviceTakes(g, ctx[Device][g], new)
<1> DEFINE s == ctx[Device][g]
<1>1. s \in GroupState /\ s.request_id \in Int /\ s.acknowledged_id \in Int
  BY IdType, RoleFacts DEF BaseInv, TypeOK
<1> HIDE DEF s
<1>2. ASSUME NEW w \in ValidValues, MayUpdate(Device, s.values, w), new = Updated(Device, s, w)
      PROVE  DeviceKeeps(g, s, new)
  <2>1. new = [s EXCEPT !.values = w, !.local_revision = @ + 1]
    BY <1>2, RoleFacts DEF Updated
  <2>2. Same(Owned(Server), w, s.values)
    BY <1>2, TotalsFacts DEF MayUpdate, Same
  <2> QED
    BY <1>1, <2>1, <2>2 DEF GroupState, DeviceKeeps
<1>3. ASSUME new = Sent(s, Packet(Device, g))
      PROVE  DeviceKeeps(g, s, new)
  <2>1. Packet(Device, g).kind = "snapshot"
    BY DEF Packet
  <2>2. new = [s EXCEPT !.last_sent_id = Packet(Device, g).id]
    BY <1>3, <2>1 DEF Sent
  <2> QED
    BY <1>1, <2>2 DEF GroupState, DeviceKeeps, Same
<1>4. ASSUME NEW p \in net, p.group = g, p.kind = "request",
             ~DeviceRejectsRequest(s, p), new = DeviceOnRequest(s, p)
      PROVE  DeviceKeeps(g, s, new) \/ DeviceTakes(g, s, new)
  <2>1. p \in Of("request", g, net) /\ p.id \in Ids /\ p.id # 0
    <3>1. p \in Request
      BY <1>4, FrameKinds DEF BaseInv, TypeOK
    <3> QED
      BY <1>4, <3>1 DEF Of, Request, DeviceRejectsRequest
  <2>2. p.id \in Int /\ 0 < p.id
    BY <2>1, BoundsAssumption DEF Ids
  <2>3. CASE p.id < s.request_id
    BY <1>1, <1>4, <2>3 DEF DeviceOnRequest, DeviceKeeps, Same
  <2>4. CASE p.id = s.request_id
    <3>1. new = [s EXCEPT !.response_pending = TRUE]
      BY <1>1, <1>4, <2>2, <2>4 DEF DeviceOnRequest
    <3> QED
      BY <1>1, <2>2, <2>4, <3>1 DEF GroupState, DeviceKeeps, Same
  <2>5. CASE s.request_id < p.id
    <3>1. new = [s EXCEPT !.values = Merged(s, p), !.snapshot = Merged(s, p),
                          !.request_id = p.id, !.snapshot_id = p.id,
                          !.has_snapshot = TRUE, !.response_pending = TRUE]
      BY <1>1, <1>4, <2>2, <2>5 DEF DeviceOnRequest
    <3>2. /\ new.request_id = p.id /\ new.snapshot_id = p.id
          /\ new.values = Merged(s, p) /\ new.snapshot = Merged(s, p)
          /\ new.request_pending = s.request_pending /\ new.receipt_pending = s.receipt_pending
          /\ new.acknowledged_id = s.acknowledged_id
      BY <1>1, <3>1 DEF GroupState
    <3> QED
      BY <2>1, <2>5, <3>2 DEF DeviceTakes
  <2> QED
    BY <1>1, <2>2, <2>3, <2>4, <2>5
<1>5. ASSUME NEW p \in net, p.group = g, p.kind = "receipt", new = DeviceOnReceipt(s, p)
      PROVE  DeviceKeeps(g, s, new)
  <2>1. p \in Of("receipt", g, net)
    BY <1>5 DEF Of
  <2>2. \/ new = s
        \/ new = [s EXCEPT !.acknowledged_id = p.id, !.response_pending = FALSE]
    BY <1>5 DEF DeviceOnReceipt
  <2> QED
    BY <1>1, <2>1, <2>2 DEF GroupState, DeviceKeeps, Same
<1> QED
  BY <1>2, <1>3, <1>4, <1>5, RoleFacts DEF Change, Accepted, s

LEMMA ServerChange ==
    ASSUME BaseInv, NEW g \in Groups, NEW new, Change(Server, g, new),
           RestoreAccepts(ctx[Server][g])
    PROVE  \/ ServerKeeps(ctx[Server][g], new)
           \/ ServerOpens(ctx[Server][g], new)
           \/ ServerRecords(g, ctx[Server][g], new)
<1> DEFINE u == ctx[Server][g]
<1>1. u \in GroupState /\ u.request_id \in Int /\ u.last_sent_id \in Int
  BY IdType, RoleFacts DEF BaseInv, TypeOK
<1>2. u.last_sent_id <= u.request_id
  BY DEF RestoreAccepts
<1>3. /\ Packet(Server, g).kind = "request" => Packet(Server, g).id = u.request_id
      /\ Packet(Server, g).kind \in {"request", "receipt"}
  BY RoleFacts DEF Packet
<1> HIDE DEF u
<1>4. ASSUME NEW w \in ValidValues, MayUpdate(Server, u.values, w), new = Updated(Server, u, w)
      PROVE  ServerOpens(u, new)
  <2>1. new = Opened([u EXCEPT !.values = w, !.local_revision = @ + 1])
    BY <1>4 DEF Updated
  <2>2. /\ new.request_id = u.request_id + 1 /\ new.snapshot_id = u.snapshot_id
        /\ new.snapshot = u.snapshot /\ new.has_snapshot = u.has_snapshot
        /\ new.values = w
        /\ new.response_pending = u.response_pending /\ new.receipt_pending = u.receipt_pending
        /\ new.last_sent_id = u.last_sent_id
    BY <1>1, <2>1 DEF Opened, GroupState
  <2> QED
    BY <1>4, <2>2 DEF MayUpdate, ServerOpens
<1>5. ASSUME new = Opened(u)
      PROVE  ServerOpens(u, new)
  BY <1>1, <1>5 DEF Opened, GroupState, ServerOpens
<1>6. ASSUME new = Sent(u, Packet(Server, g))
      PROVE  ServerKeeps(u, new)
  BY <1>1, <1>3, <1>6 DEF Sent, GroupState, ServerKeeps
<1>7. ASSUME NEW q \in net, q.group = g, q.kind = "snapshot",
             ~ServerRejectsSnapshot(u, q), new = ServerOnSnapshot(u, q)
      PROVE  ServerKeeps(u, new) \/ ServerRecords(g, u, new)
  <2>1. q \in Of("snapshot", g, net) /\ q.id \in Ids /\ q.id # 0
    <3>1. q \in Snapshot
      BY <1>7, FrameKinds DEF BaseInv, TypeOK
    <3> QED
      BY <1>7, <3>1 DEF Of, Snapshot, ServerRejectsSnapshot
  <2>2. q.id \in Int /\ 0 < q.id
    BY <2>1, BoundsAssumption DEF Ids
  <2>3. CASE q.id < u.request_id
    BY <1>1, <1>7, <2>3 DEF ServerOnSnapshot, ServerKeeps
  <2>4. CASE q.id >= u.request_id
    <3>1. new = [u EXCEPT !.values = q.values, !.snapshot = q.values,
                          !.snapshot_id = q.id, !.has_snapshot = TRUE,
                          !.request_pending = FALSE, !.receipt_pending = TRUE]
      BY <1>1, <1>7, <2>2, <2>4 DEF ServerOnSnapshot
    <3>2. /\ new.values = q.values /\ new.snapshot = q.values /\ new.snapshot_id = q.id
          /\ new.request_id = u.request_id /\ new.last_sent_id = u.last_sent_id
          /\ new.response_pending = u.response_pending /\ ~new.request_pending
      BY <1>1, <3>1 DEF GroupState
    <3>3. q.id = u.request_id
      BY <1>1, <1>2, <1>7, <2>2, <2>4 DEF ServerRejectsSnapshot
    <3>4. Same(Owned(Server), q.values, u.values)
      BY <1>7, <2>4 DEF ServerRejectsSnapshot, Same
    <3> QED
      BY <2>1, <2>2, <3>2, <3>3, <3>4 DEF ServerRecords
  <2> QED
    BY <1>1, <2>2, <2>3, <2>4
<1> QED
  BY <1>4, <1>5, <1>6, <1>7, RoleFacts DEF Change, Accepted, u

-----------------------------------------------------------------------------
(***************************************************************************)
(* A write keeps the agreement, over the frames that were there before.    *)
(***************************************************************************)
AgreeInv == TotalsInv /\ AllAgree

\* A device that keeps its snapshot agrees as before; a receipt that it takes
\* names what the server has recorded.
LEMMA DeviceKeepsAgrees ==
    ASSUME AgreeInv, NEW g \in Groups, NEW s \in Copies(Device, g), NEW u \in Copies(Server, g),
           NEW new \in GroupState, DeviceKeeps(g, s, new)
    PROVE  Agree(g, new, u, net)
<1>1. Agree(g, s, u, net)
  BY DEF AgreeInv, AllAgree
<1>2. DeviceHolds(new)
  BY <1>1 DEF Agree, DeviceHolds, DeviceKeeps, Same
<1>3. SidesAgree(new, u)
  <2>1. new.acknowledged_id <= u.snapshot_id
    BY <1>1 DEF Agree, SidesAgree, ReceiptAgrees, DeviceKeeps
  <2> QED
    BY <1>1, <2>1 DEF Agree, SidesAgree, DeviceKeeps
<1>4. \A p \in Of("request", g, net) : RequestAgrees(p, new, u)
  <2> SUFFICES ASSUME NEW p \in Of("request", g, net) PROVE RequestAgrees(p, new, u)
    OBVIOUS
  <2>1. RequestAgrees(p, s, u)
    BY <1>1 DEF Agree
  <2>2. s.request_id <= p.id => Below(Totals(Server), new.values, p.values)
    BY <2>1, TotalsFacts, RoleFacts DEF RequestAgrees, Below, Same, DeviceKeeps
  <2> QED
    BY <2>1, <2>2 DEF RequestAgrees, DeviceKeeps
<1>5. \A q \in Of("snapshot", g, net) : SnapshotAgrees(q, new, u)
  BY <1>1 DEF Agree, SnapshotAgrees, DeviceKeeps
<1> QED
  BY <1>1, <1>2, <1>3, <1>4, <1>5 DEF Agree

\* A device that takes a newer request: its snapshot now holds the values of
\* that request and its own totals, which cover every earlier answer.
LEMMA DeviceTakesAgrees ==
    ASSUME AgreeInv, NEW g \in Groups, NEW s \in Copies(Device, g), NEW u \in Copies(Server, g),
           NEW new \in GroupState, DeviceTakes(g, s, new)
    PROVE  Agree(g, new, u, net)
<1>1. Agree(g, s, u, net) /\ FramesAgree(g, net)
  BY DEF AgreeInv, AllAgree
<1>2. PICK p \in Of("request", g, net) :
          /\ s.request_id < p.id
          /\ new.request_id = p.id /\ new.snapshot_id = p.id
          /\ new.values = Merged(s, p) /\ new.snapshot = Merged(s, p)
  BY DEF DeviceTakes
<1>3. /\ new.acknowledged_id = s.acknowledged_id
      /\ new.request_pending = s.request_pending /\ new.receipt_pending = s.receipt_pending
  BY DEF DeviceTakes
<1>4. /\ \A f \in Owned(Server) : new.snapshot[f] = p.values[f]
      /\ \A f \in Totals(Server) : new.values[f] = p.values[f]
      /\ \A f \in Totals(Device) : new.snapshot[f] = s.values[f]
  BY <1>2, TotalsFacts, RoleFacts DEF Merged, Owned
<1>5. /\ p.id \in Int /\ s.request_id \in Int /\ 0 <= s.request_id
      /\ u.request_id \in Int /\ u.last_sent_id \in Int
      /\ \A f \in Fields : s.values[f] \in Int /\ s.snapshot[f] \in Int /\ u.values[f] \in Int
  BY CopyType, OfType, RoleFacts DEF AgreeInv, TotalsInv, RecordInv
<1>6. RequestAgrees(p, s, u)
  BY <1>1 DEF Agree
<1>7. DeviceHolds(new)
  BY <1>1, <1>2, <1>3, <1>5 DEF Agree, DeviceHolds, Same
<1>8. SidesAgree(new, u)
  <2>1. new.request_id = u.request_id => Same(Owned(Server), new.snapshot, u.values)
    BY <1>2, <1>4, <1>6 DEF RequestAgrees, Same
  <2>2. Below(Totals(Device), u.values, new.snapshot)
    <3>1. \A f \in Totals(Device) : u.values[f] <= s.values[f]
      BY TotalsFacts, RoleFacts DEF AgreeInv, TotalsInv, OwnerAhead, Peer
    <3> QED
      BY <1>4, <3>1 DEF Below
  <2> QED
    BY <1>1, <1>2, <1>3, <1>6, <2>1, <2>2 DEF Agree, SidesAgree, RequestAgrees
<1>9. \A o \in Of("request", g, net) : RequestAgrees(o, new, u)
  <2> SUFFICES ASSUME NEW o \in Of("request", g, net) PROVE RequestAgrees(o, new, u)
    OBVIOUS
  <2>1. RequestAgrees(o, s, u)
    BY <1>1 DEF Agree
  <2>2. o.id = p.id => Same(Owned(Server), o.values, new.snapshot)
    BY <1>1, <1>4 DEF FramesAgree, Same
  <2>3. p.id <= o.id => Below(Totals(Server), new.values, o.values)
    BY <1>1, <1>4 DEF FramesAgree, Below
  <2> QED
    BY <1>2, <2>1, <2>2, <2>3 DEF RequestAgrees
<1>10. \A q \in Of("snapshot", g, net) : SnapshotAgrees(q, new, u)
  <2> SUFFICES ASSUME NEW q \in Of("snapshot", g, net) PROVE SnapshotAgrees(q, new, u)
    OBVIOUS
  <2>1. SnapshotAgrees(q, s, u)
    BY <1>1 DEF Agree
  <2>2. q.id < p.id /\ q.id \in Int
    BY <1>2, <1>5, <2>1, OfType DEF SnapshotAgrees, AgreeInv, TotalsInv, RecordInv
  <2>3. Below(Totals(Device), q.values, new.snapshot)
    <3>1. \A f \in Totals(Device) : s.snapshot[f] <= s.values[f]
      BY TotalsFacts, RoleFacts DEF AgreeInv, TotalsInv, FrozenBelow
    <3>2. \A f \in Totals(Device) : q.values[f] <= s.snapshot[f] /\ q.values[f] \in Int
      BY <2>1, OfType, TotalsFacts, RoleFacts
         DEF SnapshotAgrees, Below, AgreeInv, TotalsInv, RecordInv
    <3> QED
      BY <1>4, <1>5, <3>1, <3>2, TotalsFacts, RoleFacts DEF Below
  <2> QED
    BY <1>2, <1>5, <2>1, <2>2, <2>3 DEF SnapshotAgrees
<1> QED
  BY <1>1, <1>7, <1>8, <1>9, <1>10 DEF Agree

LEMMA ServerKeepsAgrees ==
    ASSUME AgreeInv, NEW g \in Groups, NEW s \in Copies(Device, g), NEW u \in Copies(Server, g),
           NEW new \in GroupState, ServerKeeps(u, new)
    PROVE  Agree(g, s, new, net)
<1>1. Agree(g, s, u, net)
  BY DEF AgreeInv, AllAgree
<1>2. /\ u.last_sent_id \in Int /\ u.request_id \in Int /\ s.request_id \in Int
      /\ u.last_sent_id <= u.request_id
  BY CopyType, RoleFacts DEF AgreeInv, RestoreAccepts
<1>3. u.last_sent_id <= new.last_sent_id /\ new.last_sent_id \in Int
  BY <1>2 DEF ServerKeeps
<1>4. ServerHolds(g, new, net)
  BY <1>1 DEF Agree, ServerHolds, ServerKeeps
<1>5. SidesAgree(s, new)
  BY <1>1, <1>2, <1>3 DEF Agree, SidesAgree, ServerKeeps
<1>6. \A p \in Of("request", g, net) : RequestAgrees(p, s, new)
  <2> SUFFICES ASSUME NEW p \in Of("request", g, net) PROVE RequestAgrees(p, s, new)
    OBVIOUS
  <2>1. RequestAgrees(p, s, u) /\ p.id \in Int
    BY <1>1, OfType DEF Agree, AgreeInv, TotalsInv, RecordInv
  <2> QED
    BY <1>2, <1>3, <2>1 DEF RequestAgrees, ServerKeeps
<1> QED
  BY <1>1, <1>4, <1>5, <1>6 DEF Agree, SnapshotAgrees, ReceiptAgrees, ServerKeeps

\* A request number that was never sent: nothing in the network carries it.
LEMMA ServerOpensAgrees ==
    ASSUME AgreeInv, NEW g \in Groups, NEW s \in Copies(Device, g), NEW u \in Copies(Server, g),
           NEW new \in GroupState, ServerOpens(u, new)
    PROVE  Agree(g, s, new, net)
<1>1. Agree(g, s, u, net)
  BY DEF AgreeInv, AllAgree
<1>2. /\ u.last_sent_id \in Int /\ u.request_id \in Int /\ s.request_id \in Int
      /\ 0 <= u.request_id /\ u.last_sent_id <= u.request_id
  BY CopyType, RoleFacts DEF AgreeInv, RestoreAccepts
<1>3. new.last_sent_id < new.request_id /\ new.last_sent_id = u.last_sent_id
      /\ 0 < new.request_id
  BY <1>2 DEF ServerOpens
<1>4. ServerHolds(g, new, net)
  BY <1>1, <1>3 DEF Agree, ServerHolds, ServerOpens
<1>5. \A f \in Totals(Device) : new.values[f] = u.values[f]
  BY TotalsFacts DEF ServerOpens
<1>6. SidesAgree(s, new)
  <2>1. s.request_id # new.request_id
    BY <1>1, <1>2, <1>3 DEF Agree, SidesAgree, ServerOpens
  <2> QED
    BY <1>1, <1>5, <2>1 DEF Agree, SidesAgree, ServerOpens, Below
<1>7. \A p \in Of("request", g, net) : RequestAgrees(p, s, new)
  <2> SUFFICES ASSUME NEW p \in Of("request", g, net) PROVE RequestAgrees(p, s, new)
    OBVIOUS
  <2>1. RequestAgrees(p, s, u) /\ p.id \in Int
    BY <1>1, OfType DEF Agree, AgreeInv, TotalsInv, RecordInv
  <2>2. p.id # new.request_id
    BY <1>2, <1>3, <2>1 DEF RequestAgrees, ServerOpens
  <2> QED
    BY <1>3, <2>1, <2>2 DEF RequestAgrees
<1>8. \A q \in Of("snapshot", g, net) : SnapshotAgrees(q, s, new)
  <2> SUFFICES ASSUME NEW q \in Of("snapshot", g, net) PROVE SnapshotAgrees(q, s, new)
    OBVIOUS
  <2>1. SnapshotAgrees(q, s, u) /\ q.id \in Int
    BY <1>1, OfType DEF Agree, AgreeInv, TotalsInv, RecordInv
  <2>2. q.id # new.request_id
    BY <1>1, <1>2, <1>3, <2>1 DEF Agree, SidesAgree, SnapshotAgrees, ServerOpens
  <2> QED
    BY <1>5, <2>1, <2>2 DEF SnapshotAgrees, ServerOpens, Below
<1> QED
  BY <1>1, <1>4, <1>6, <1>7, <1>8 DEF Agree, ReceiptAgrees, ServerOpens

\* A server that records an answer to its last request: the totals it takes
\* over are the ones that every later answer covers.
LEMMA ServerRecordsAgrees ==
    ASSUME AgreeInv, NEW g \in Groups, NEW s \in Copies(Device, g), NEW u \in Copies(Server, g),
           NEW new \in GroupState, ServerRecords(g, u, new)
    PROVE  Agree(g, s, new, net)
<1>1. Agree(g, s, u, net) /\ FramesAgree(g, net)
  BY DEF AgreeInv, AllAgree
<1>2. /\ u.snapshot_id \in Int /\ u.request_id \in Int /\ s.acknowledged_id \in Int
      /\ u.snapshot_id <= u.request_id
  BY CopyType, RoleFacts DEF AgreeInv, RestoreAccepts
<1>3. PICK q \in Of("snapshot", g, net) :
          /\ q.id = u.request_id /\ 0 < q.id
          /\ Same(Owned(Server), q.values, u.values)
          /\ new.values = q.values /\ new.snapshot = q.values /\ new.snapshot_id = q.id
  BY DEF ServerRecords
<1>4. /\ new.request_id = u.request_id /\ new.last_sent_id = u.last_sent_id
      /\ new.response_pending = u.response_pending /\ ~new.request_pending
  BY DEF ServerRecords
<1>5. SnapshotAgrees(q, s, u)
  BY <1>1 DEF Agree
<1>6. ServerHolds(g, new, net)
  BY <1>1, <1>3, <1>4 DEF Agree, ServerHolds
<1>7. SidesAgree(s, new)
  <2>1. s.acknowledged_id <= new.snapshot_id
    BY <1>1, <1>2, <1>3 DEF Agree, SidesAgree
  <2>2. s.request_id = new.request_id => Same(Owned(Server), s.snapshot, new.values)
    BY <1>1, <1>3, <1>4 DEF Agree, SidesAgree, Same
  <2>3. Below(Totals(Device), new.values, s.snapshot)
    BY <1>3, <1>5 DEF SnapshotAgrees
  <2> QED
    BY <1>1, <1>4, <2>1, <2>2, <2>3 DEF Agree, SidesAgree
<1>8. \A p \in Of("request", g, net) : RequestAgrees(p, s, new)
  BY <1>1, <1>3, <1>4 DEF Agree, RequestAgrees, Same
<1>9. \A o \in Of("snapshot", g, net) : SnapshotAgrees(o, s, new)
  <2> SUFFICES ASSUME NEW o \in Of("snapshot", g, net) PROVE SnapshotAgrees(o, s, new)
    OBVIOUS
  <2>1. SnapshotAgrees(o, s, u)
    BY <1>1 DEF Agree
  <2>2. q.id <= o.id => Below(Totals(Device), q.values, o.values)
    BY <1>1 DEF FramesAgree
  <2>3. o.id = u.request_id => Same(Owned(Server), o.values, q.values)
    BY <1>3, <2>1 DEF SnapshotAgrees, Same
  <2> QED
    BY <1>3, <1>4, <2>1, <2>2, <2>3 DEF SnapshotAgrees
<1>10. \A p \in Of("receipt", g, net) : ReceiptAgrees(p, new)
  <2> SUFFICES ASSUME NEW p \in Of("receipt", g, net) PROVE ReceiptAgrees(p, new)
    OBVIOUS
  <2>1. ReceiptAgrees(p, u) /\ p.id \in Int
    BY <1>1, OfType DEF Agree, AgreeInv, TotalsInv, RecordInv
  <2> QED
    BY <1>2, <1>3, <2>1 DEF ReceiptAgrees
<1> QED
  BY <1>1, <1>6, <1>7, <1>8, <1>9, <1>10 DEF Agree

-----------------------------------------------------------------------------
(***************************************************************************)
(* A released frame agrees with the records and with the earlier frames.   *)
(***************************************************************************)
SnapshotFrame(g, s) == [kind |-> "snapshot", group |-> g, id |-> s.request_id, values |-> s.snapshot]
RequestFrame(g, u)  == [kind |-> "request", group |-> g, id |-> u.request_id, values |-> u.values]
ReceiptFrame(g, u)  == [kind |-> "receipt", group |-> g, id |-> u.snapshot_id]

LEMMA SnapshotReleased ==
    ASSUME NEW g \in Groups, NEW s \in GroupState, NEW u, 0 < s.request_id,
           Agree(g, s, u, net)
    PROVE  Agree(g, s, u, net \cup {SnapshotFrame(g, s)})
<1> DEFINE q == SnapshotFrame(g, s)
<1>1. /\ q.kind = "snapshot" /\ q.group = g /\ q.id = s.request_id /\ q.values = s.snapshot
  BY DEF SnapshotFrame
<1>2. s.request_id \in Int /\ s.snapshot \in ValidValues
      /\ \A f \in Fields : s.snapshot[f] \in Int
  BY IdType, ValueType
<1>3. SnapshotAgrees(q, s, u)
  BY <1>1, <1>2, TotalsFacts, RoleFacts DEF Agree, SidesAgree, SnapshotAgrees, Below, Same
<1> HIDE DEF q
<1>4. /\ Of("snapshot", g, net) \subseteq Of("snapshot", g, net \cup {q})
      /\ Of("request", g, net \cup {q}) = Of("request", g, net)
      /\ Of("receipt", g, net \cup {q}) = Of("receipt", g, net)
      /\ \A o \in Of("snapshot", g, net \cup {q}) : o \in Of("snapshot", g, net) \/ o = q
  BY <1>1 DEF Of
<1>5. ServerHolds(g, u, net \cup {q})
  BY <1>4 DEF Agree, ServerHolds
<1> QED
  BY <1>3, <1>4, <1>5 DEF Agree, q

LEMMA SnapshotJoins ==
    ASSUME BaseInv, NEW g \in Groups, NEW s \in GroupState, NEW u,
           Agree(g, s, u, net), FramesAgree(g, net)
    PROVE  FramesAgree(g, net \cup {SnapshotFrame(g, s)})
<1> DEFINE q == SnapshotFrame(g, s)
<1>1. /\ q.kind = "snapshot" /\ q.group = g /\ q.id = s.request_id /\ q.values = s.snapshot
  BY DEF SnapshotFrame
<1>2. s.request_id \in Int /\ \A f \in Fields : s.snapshot[f] \in Int
  BY IdType, ValueType
<1> HIDE DEF q
<1>3. /\ Of("request", g, net \cup {q}) = Of("request", g, net)
      /\ \A o \in Of("snapshot", g, net \cup {q}) : o \in Of("snapshot", g, net) \/ o = q
  BY <1>1 DEF Of
<1>4. ASSUME NEW o \in Of("snapshot", g, net)
      PROVE  /\ o.id = q.id => o.values = q.values
             /\ o.id <= q.id /\ (q.id <= o.id => o.id = q.id)
             /\ Below(Totals(Device), o.values, q.values)
  <2>1. SnapshotAgrees(o, s, u) /\ o.id \in Int
    BY OfType DEF Agree
  <2> QED
    BY <1>1, <1>2, <2>1 DEF SnapshotAgrees
<1>5. Below(Totals(Device), q.values, q.values)
  BY <1>1, <1>2, TotalsFacts, RoleFacts DEF Below
<1>6. ASSUME NEW o \in Of("snapshot", g, net \cup {q}), NEW p \in Of("snapshot", g, net \cup {q})
      PROVE  /\ o.id = p.id => o.values = p.values
             /\ o.id <= p.id => Below(Totals(Device), o.values, p.values)
  <2>1. CASE o \in Of("snapshot", g, net) /\ p \in Of("snapshot", g, net)
    BY <2>1 DEF FramesAgree
  <2>2. CASE o \in Of("snapshot", g, net) /\ p = q
    BY <1>4, <2>2
  <2>3. CASE o = q /\ p \in Of("snapshot", g, net)
    BY <1>4, <1>5, <2>3
  <2>4. CASE o = q /\ p = q
    BY <1>5, <2>4
  <2> QED
    BY <1>3, <2>1, <2>2, <2>3, <2>4
<1> QED
  BY <1>3, <1>6 DEF FramesAgree, q

LEMMA RequestReleased ==
    ASSUME NEW g \in Groups, NEW s, NEW u \in GroupState,
           0 < u.request_id, u.last_sent_id = u.request_id,
           Below(Totals(Server), s.values, u.values),
           Agree(g, s, u, net)
    PROVE  Agree(g, s, u, net \cup {RequestFrame(g, u)})
<1> DEFINE p == RequestFrame(g, u)
<1>1. /\ p.kind = "request" /\ p.group = g /\ p.id = u.request_id /\ p.values = u.values
  BY DEF RequestFrame
<1>2. u.request_id \in Int /\ u.values \in ValidValues
  BY IdType
<1>3. RequestAgrees(p, s, u)
  BY <1>1, <1>2 DEF Agree, SidesAgree, RequestAgrees, Same
<1> HIDE DEF p
<1>4. /\ Of("snapshot", g, net \cup {p}) = Of("snapshot", g, net)
      /\ Of("receipt", g, net \cup {p}) = Of("receipt", g, net)
      /\ \A o \in Of("request", g, net \cup {p}) : o \in Of("request", g, net) \/ o = p
  BY <1>1 DEF Of
<1>5. ServerHolds(g, u, net \cup {p})
  BY <1>4 DEF Agree, ServerHolds
<1> QED
  BY <1>3, <1>4, <1>5 DEF Agree, p

LEMMA RequestJoins ==
    ASSUME BaseInv, NEW g \in Groups, NEW s, NEW u \in GroupState,
           u.last_sent_id = u.request_id,
           \A o \in Of("request", g, net) : Below(Totals(Server), o.values, u.values),
           Agree(g, s, u, net), FramesAgree(g, net)
    PROVE  FramesAgree(g, net \cup {RequestFrame(g, u)})
<1> DEFINE p == RequestFrame(g, u)
<1>1. /\ p.kind = "request" /\ p.group = g /\ p.id = u.request_id /\ p.values = u.values
  BY DEF RequestFrame
<1>2. u.request_id \in Int /\ \A f \in Fields : u.values[f] \in Int
  BY IdType, ValueType
<1> HIDE DEF p
<1>3. /\ Of("snapshot", g, net \cup {p}) = Of("snapshot", g, net)
      /\ \A o \in Of("request", g, net \cup {p}) : o \in Of("request", g, net) \/ o = p
  BY <1>1 DEF Of
<1>4. ASSUME NEW o \in Of("request", g, net)
      PROVE  /\ o.id = p.id => Same(Owned(Server), o.values, p.values)
             /\ Below(Totals(Server), o.values, p.values)
             /\ p.id <= o.id => Below(Totals(Server), p.values, o.values)
  <2>1. RequestAgrees(o, s, u) /\ o.id \in Int
    BY OfType DEF Agree
  <2>2. o.id <= p.id
    BY <1>1, <2>1 DEF RequestAgrees
  <2>3. o.id = p.id => Same(Owned(Server), o.values, p.values)
    BY <1>1, <2>1 DEF RequestAgrees
  <2>4. p.id <= o.id => Below(Totals(Server), p.values, o.values)
    BY <1>1, <1>2, <2>1, <2>2, <2>3, TotalsFacts, RoleFacts DEF Same, Below
  <2> QED
    BY <1>1, <2>3, <2>4
<1>5. Same(Owned(Server), p.values, p.values) /\ Below(Totals(Server), p.values, p.values)
  BY <1>1, <1>2, TotalsFacts, RoleFacts DEF Same, Below
<1>6. ASSUME NEW o \in Of("request", g, net \cup {p}), NEW r \in Of("request", g, net \cup {p})
      PROVE  /\ o.id = r.id => Same(Owned(Server), o.values, r.values)
             /\ o.id <= r.id => Below(Totals(Server), o.values, r.values)
  <2>1. CASE o \in Of("request", g, net) /\ r \in Of("request", g, net)
    BY <2>1 DEF FramesAgree
  <2>2. CASE o \in Of("request", g, net) /\ r = p
    BY <1>4, <2>2
  <2>3. CASE o = p /\ r \in Of("request", g, net)
    BY <1>4, <2>3 DEF Same
  <2>4. CASE o = p /\ r = p
    BY <1>5, <2>4
  <2> QED
    BY <1>3, <2>1, <2>2, <2>3, <2>4
<1> QED
  BY <1>3, <1>6 DEF FramesAgree, p

LEMMA ReceiptReleased ==
    ASSUME NEW g \in Groups, NEW s, NEW u \in GroupState, 0 < u.snapshot_id,
           Agree(g, s, u, net), FramesAgree(g, net)
    PROVE  /\ Agree(g, s, u, net \cup {ReceiptFrame(g, u)})
           /\ FramesAgree(g, net \cup {ReceiptFrame(g, u)})
<1> DEFINE p == ReceiptFrame(g, u)
<1>1. p.kind = "receipt" /\ p.group = g /\ p.id = u.snapshot_id
  BY DEF ReceiptFrame
<1>2. ReceiptAgrees(p, u)
  BY <1>1, IdType DEF ReceiptAgrees
<1> HIDE DEF p
<1>3. /\ Of("snapshot", g, net \cup {p}) = Of("snapshot", g, net)
      /\ Of("request", g, net \cup {p}) = Of("request", g, net)
      /\ \A o \in Of("receipt", g, net \cup {p}) : o \in Of("receipt", g, net) \/ o = p
  BY <1>1 DEF Of
<1>4. ServerHolds(g, u, net \cup {p})
  BY <1>3 DEF Agree, ServerHolds
<1> QED
  BY <1>2, <1>3, <1>4 DEF Agree, FramesAgree, p

-----------------------------------------------------------------------------
(***************************************************************************)
(* The induction.                                                          *)
(***************************************************************************)
LEMMA AgreeInit == Init => AgreeInv
<1> SUFFICES ASSUME Init PROVE AgreeInv
  OBVIOUS
<1>1. ASSUME NEW r \in Roles, NEW g \in Groups, NEW s \in Copies(r, g)
      PROVE  s = FreshGroup
  BY <1>1 DEF Init, Copies
<1>2. \A k, g : k \in {"request", "snapshot", "receipt"} => Of(k, g, net) = {}
  BY OldFramesAssumption DEF Init, Of, Claim
<1>3. ASSUME NEW g \in Groups
      PROVE  FramesAgree(g, net) /\ Agree(g, FreshGroup, FreshGroup, net)
  <2>1. /\ FreshGroup.values = Zero /\ FreshGroup.snapshot = Zero /\ ~FreshGroup.has_snapshot
        /\ FreshGroup.request_id = 0 /\ FreshGroup.snapshot_id = 0
        /\ FreshGroup.acknowledged_id = 0 /\ FreshGroup.last_sent_id = 0
        /\ ~FreshGroup.request_pending /\ ~FreshGroup.response_pending
        /\ ~FreshGroup.receipt_pending
    BY DEF FreshGroup
  <2>2. DeviceHolds(FreshGroup) /\ ServerHolds(g, FreshGroup, net)
    BY <2>1 DEF DeviceHolds, ServerHolds, Same
  <2>3. SidesAgree(FreshGroup, FreshGroup)
    BY <2>1, TotalsFacts, RoleFacts DEF SidesAgree, Same, Below, Zero
  <2> QED
    BY <1>2, <2>2, <2>3 DEF FramesAgree, Agree
<1> QED
  BY <1>1, <1>3, TotalsInit, RoleFacts DEF AgreeInv, AllAgree

\* Every pair of records after the write agrees over the earlier frames.
LEMMA WriteAgrees ==
    ASSUME AgreeInv, NEW r \in Roles, NEW g \in Groups, NEW new \in GroupState,
           Writes(r, g, new)
    PROVE  \A h \in Groups : \A s \in Copies(Device, h)', u \in Copies(Server, h)' :
              Agree(h, s, u, net)
<1>1. ASSUME NEW q \in Roles, NEW h \in Groups, NEW t \in Copies(q, h)'
      PROVE  t \in Copies(q, h) \/ (q = r /\ h = g /\ t = new)
  <2>1. CASE q = r /\ h = g
    BY <1>1, <2>1 DEF Writes, Copies
  <2>2. CASE q # r \/ h # g
    BY <1>1, <2>2 DEF Writes, Copies
  <2> QED
    BY <2>1, <2>2
<1>2. /\ Change(r, g, new) /\ ctx[r][g] \in Copies(r, g) /\ BaseInv /\ RestoreAccepts(ctx[r][g])
  BY DEF Writes, Copies, AgreeInv, TotalsInv, RecordInv
<1>3. ASSUME r = Device, NEW u \in Copies(Server, g)
      PROVE  Agree(g, new, u, net)
  BY <1>2, <1>3, DeviceChange, DeviceKeepsAgrees, DeviceTakesAgrees
<1>4. ASSUME r = Server, NEW s \in Copies(Device, g)
      PROVE  Agree(g, s, new, net)
  BY <1>2, <1>4, ServerChange, ServerKeepsAgrees, ServerOpensAgrees, ServerRecordsAgrees
<1> QED
  BY <1>1, <1>3, <1>4, RoleFacts DEF AgreeInv, AllAgree

LEMMA OtherGroups ==
    ASSUME NEW p, NEW h \in Groups, p.group # h
    PROVE  /\ FramesAgree(h, net) => FramesAgree(h, net \cup {p})
           /\ \A s, u : Agree(h, s, u, net) => Agree(h, s, u, net \cup {p})
<1>1. \A k : Of(k, h, net \cup {p}) = Of(k, h, net)
  BY DEF Of
<1> QED
  BY <1>1 DEF FramesAgree, Agree, ServerHolds

LEMMA ReleaseAgrees ==
    ASSUME AgreeInv, TotalsInv', NEW r \in Roles, NEW g \in Groups, NEW new \in GroupState,
           Writes(r, g, new), Due(r, g), new = Sent(ctx[r][g], Packet(r, g)),
           disk'[r][g] = new, ctx'[r][g] = new, net' = net \cup {Packet(r, g)}
    PROVE  /\ FramesAgree(g, net')
           /\ \A s \in Copies(Device, g)', u \in Copies(Server, g)' : Agree(g, s, u, net')
<1> DEFINE t == ctx[r][g]
<1>1. t \in GroupState /\ BaseInv /\ FramesAgree(g, net)
  BY DEF AgreeInv, AllAgree, TotalsInv, RecordInv, BaseInv, TypeOK
<1>2. Copies(r, g)' = {new}
  BY DEF Copies
<1>3. \A s \in Copies(Device, g)', u \in Copies(Server, g)' : Agree(g, s, u, net)
  BY WriteAgrees
<1>4. \A q \in Roles : Copies(q, g)' # {}
  BY DEF Copies
<1>5. t.request_id \in Int /\ t.snapshot_id \in Int
  BY <1>1, IdType
<1>6. CASE r = Device
  <2>1. Packet(r, g) = SnapshotFrame(g, t)
    BY <1>6 DEF Packet, SnapshotFrame
  <2>2. /\ new.request_id = t.request_id /\ new.snapshot = t.snapshot
        /\ new.response_pending = t.response_pending
        /\ new.request_pending = t.request_pending /\ new.receipt_pending = t.receipt_pending
    BY <1>1, <2>1 DEF Sent, SnapshotFrame, GroupState
  <2>3. Packet(r, g) = SnapshotFrame(g, new)
    BY <2>1, <2>2 DEF SnapshotFrame
  <2>4. PICK u \in Copies(Server, g)' : Agree(g, new, u, net)
    BY <1>2, <1>3, <1>4, <1>6, RoleFacts
  <2>5. 0 < new.request_id
    BY <1>6, <2>2, <2>4 DEF Agree, DeviceHolds, Due
  <2> HIDE DEF t
  <2> QED
    BY <1>1, <1>2, <1>3, <1>6, <2>3, <2>4, <2>5, SnapshotReleased, SnapshotJoins
<1>7. CASE r = Server
  <2>1. PICK s \in Copies(Device, g)' : Agree(g, s, new, net)
    BY <1>2, <1>3, <1>4, <1>7, RoleFacts
  <2>2. PICK s0 \in Copies(Device, g), u0 \in Copies(Server, g) : u0 = t /\ Agree(g, s0, t, net)
    BY <1>7 DEF AgreeInv, AllAgree, Copies
  <2>3. CASE t.request_pending
    <3>1. Packet(r, g) = RequestFrame(g, t)
      BY <1>7, <2>3, RoleFacts DEF Packet, RequestFrame
    <3>2. /\ new.request_id = t.request_id /\ new.values = t.values
          /\ new.last_sent_id = t.request_id
      BY <1>1, <3>1 DEF Sent, RequestFrame, GroupState
    <3>3. Packet(r, g) = RequestFrame(g, new)
      BY <3>1, <3>2 DEF RequestFrame
    <3>4. 0 < new.request_id
      BY <2>2, <2>3, <3>2 DEF Agree, ServerHolds
    <3>5. ASSUME NEW c \in Copies(Device, g)'
          PROVE  Below(Totals(Server), c.values, new.values)
      BY <1>2, <1>7, TotalsFacts, RoleFacts DEF TotalsInv, OwnerAhead, Below, Peer
    <3>6. ASSUME NEW o \in Of("request", g, net)
          PROVE  Below(Totals(Server), o.values, new.values)
      <4>1. o \in net' /\ o.kind = "request" /\ o.group = g
        BY DEF Of
      <4> QED
        BY <1>2, <1>7, <4>1, TotalsFacts, RoleFacts DEF TotalsInv, Covered, Below
    <3> HIDE DEF t
    <3> QED
      BY <1>1, <1>2, <1>3, <1>7, <2>1, <3>2, <3>3, <3>4, <3>5, <3>6, RequestReleased, RequestJoins
  <2>4. CASE ~t.request_pending
    <3>1. Packet(r, g) = ReceiptFrame(g, t)
      BY <1>7, <2>4, RoleFacts DEF Packet, ReceiptFrame
    <3>2. new.snapshot_id = t.snapshot_id
      BY <1>1, <3>1 DEF Sent, ReceiptFrame, GroupState
    <3>3. Packet(r, g) = ReceiptFrame(g, new)
      BY <3>1, <3>2 DEF ReceiptFrame
    <3>4. 0 < new.snapshot_id
      BY <1>7, <2>2, <2>4, <3>2 DEF Agree, ServerHolds, Due
    <3> HIDE DEF t
    <3> QED
      BY <1>1, <1>2, <1>3, <1>7, <2>1, <3>3, <3>4, ReceiptReleased
  <2> QED
    BY <2>3, <2>4
<1> QED
  BY <1>6, <1>7 DEF Roles

LEMMA AgreeStep ==
    ASSUME AgreeInv, [Next]_vars
    PROVE  AgreeInv'
<1>1. TotalsInv' /\ BaseInv
  BY TotalsStep DEF AgreeInv, TotalsInv, RecordInv
<1>2. CASE Quiet
  <2>1. \A q \in Roles, h \in Groups : Copies(q, h)' \subseteq Copies(q, h)
    BY <1>2 DEF Quiet, Copies
  <2>2. net' = net
    BY <1>2 DEF Quiet
  <2> QED
    BY <1>1, <2>1, <2>2, RoleFacts DEF AgreeInv, AllAgree
<1>3. ASSUME NEW r \in Roles, NEW g \in Groups, NEW new \in GroupState, Writes(r, g, new)
      PROVE  AgreeInv'
  <2>1. \A h \in Groups : \A s \in Copies(Device, h)', u \in Copies(Server, h)' :
           Agree(h, s, u, net)
    BY <1>3, WriteAgrees
  <2>2. CASE net' = net
    BY <1>1, <2>1, <2>2 DEF AgreeInv, AllAgree
  <2>3. CASE /\ net' = net \cup {Packet(r, g)}
             /\ Due(r, g) /\ new = Sent(ctx[r][g], Packet(r, g))
             /\ disk'[r][g] = new /\ ctx'[r][g] = new
    <3>1. /\ FramesAgree(g, net')
          /\ \A s \in Copies(Device, g)', u \in Copies(Server, g)' : Agree(g, s, u, net')
      BY <1>1, <1>3, <2>3, ReleaseAgrees
    <3>2. Packet(r, g).group = g
      BY DEF Packet
    <3>3. ASSUME NEW h \in Groups, h # g
          PROVE  /\ FramesAgree(h, net')
                 /\ \A s \in Copies(Device, h)', u \in Copies(Server, h)' : Agree(h, s, u, net')
      BY <2>1, <2>3, <3>2, <3>3, OtherGroups DEF AgreeInv, AllAgree
    <3> QED
      BY <1>1, <3>1, <3>3 DEF AgreeInv, AllAgree
  <2> QED
    BY <1>3, <2>2, <2>3 DEF Writes
<1> QED
  BY <1>1, <1>2, <1>3, StepCases

LEMMA AgreeInvariant == Spec => []AgreeInv
<1>1. AgreeInv /\ [Next]_vars => AgreeInv'
  BY AgreeStep
<1> QED
  BY <1>1, AgreeInit, PTL DEF Spec

-----------------------------------------------------------------------------
(***************************************************************************)
(* What the agreement gives: frozen answers, recorded acknowledgements,    *)
(* and frames that are never refused.                                      *)
(***************************************************************************)
LEMMA AgreeFreezes == AgreeInv => FrozenAnswers
<1> SUFFICES ASSUME AgreeInv, NEW p \in net, NEW q \in net,
                    p.kind = q.kind, p.kind \in {"request", "snapshot"},
                    p.group = q.group, p.id = q.id
             PROVE  /\ p.kind = "snapshot" => p.values = q.values
                    /\ p.kind = "request" => \A f \in Owned(Server) : p.values[f] = q.values[f]
  BY DEF FrozenAnswers
<1>1. p # Claim
  BY DEF Claim
<1>2. p.group \in Groups
  BY <1>1, FrameType DEF AgreeInv, TotalsInv, RecordInv
<1>3. FramesAgree(p.group, net)
  BY <1>2 DEF AgreeInv, AllAgree
<1>4. p \in Of(p.kind, p.group, net) /\ q \in Of(p.kind, p.group, net)
  BY DEF Of
<1> QED
  BY <1>3, <1>4 DEF FramesAgree, Same

LEMMA AgreeRecords == AgreeInv => AcknowledgedIsRecorded
<1> SUFFICES ASSUME AgreeInv, NEW g \in Groups,
                    NEW s \in Copies(Device, g), NEW u \in Copies(Server, g)
             PROVE  /\ s.acknowledged_id <= u.snapshot_id
                    /\ s.has_snapshot /\ u.has_snapshot /\ s.snapshot_id = u.snapshot_id =>
                          s.snapshot = u.snapshot
  BY DEF AcknowledgedIsRecorded
<1>1. Agree(g, s, u, net)
  BY DEF AgreeInv, AllAgree
<1>2. ASSUME u.has_snapshot, s.snapshot_id = u.snapshot_id
      PROVE  s.snapshot = u.snapshot
  <2>1. PICK q \in Of("snapshot", g, net) : q.id = u.snapshot_id /\ q.values = u.snapshot
    BY <1>1, <1>2 DEF Agree, ServerHolds
  <2>2. q.id = s.request_id
    BY <1>1, <1>2, <2>1 DEF Agree, DeviceHolds
  <2> QED
    BY <1>1, <2>1, <2>2 DEF Agree, SnapshotAgrees
<1> QED
  BY <1>1, <1>2 DEF Agree, SidesAgree

(***************************************************************************)
(* A schema's validator sees all fields of a group at once, and may refuse *)
(* any mixture of two vectors it accepted.  Under this condition on the    *)
(* schema the server's fields of a newer request always fit into what the  *)
(* device holds; the credits schema meets it (CreditsMerge).               *)
(***************************************************************************)
MergesValid ==
    \A v, w \in ValidValues :
        Below(Totals(Server), v, w) =>
            [f \in Fields |-> IF Owner[f] = Server THEN w[f] ELSE v[f]] \in ValidValues

LEMMA RequestsAccepted ==
    ASSUME MergesValid, AgreeInv, NEW g \in Groups, NEW s \in Copies(Device, g),
           NEW p \in Of("request", g, net)
    PROVE  ~DeviceRejectsRequest(s, p)
<1>1. PICK u : u \in Copies(Server, g)
  BY DEF Copies
<1>2. RequestAgrees(p, s, u)
  BY <1>1 DEF AgreeInv, AllAgree, Agree
<1>3. /\ s \in GroupState /\ s.request_id \in Int /\ p.id \in Int
      /\ s.values \in ValidValues
      /\ \A f \in Fields : s.values[f] \in Int /\ p.values[f] \in Int
  BY CopyType, OfType, IdType, RoleFacts DEF AgreeInv, TotalsInv, RecordInv
<1>4. p.id # 0 /\ p.values \in ValidValues
  BY <1>2, <1>3 DEF RequestAgrees
<1>5. p.id = s.request_id => \A f \in Owned(Server) : p.values[f] = s.snapshot[f]
  BY <1>2 DEF RequestAgrees, Same
<1>6. ASSUME p.id > s.request_id
      PROVE  /\ \A f \in Owned(Server) \cap Monotonic : s.values[f] <= p.values[f]
             /\ Merged(s, p) \in ValidValues
  <2>1. Below(Totals(Server), s.values, p.values)
    BY <1>2, <1>3, <1>6 DEF RequestAgrees
  <2>2. Owned(Server) \cap Monotonic \subseteq Totals(Server)
    BY DEF Owned, Totals
  <2>3. Merged(s, p) \in ValidValues
    BY <1>3, <1>4, <2>1 DEF MergesValid, Merged
  <2> QED
    BY <2>1, <2>2, <2>3 DEF Below
<1>7. \A f \in Owned(Server) \cap Monotonic : s.values[f] \in Int /\ p.values[f] \in Int
  BY <1>3, RoleFacts
<1> QED
  BY <1>4, <1>5, <1>6, <1>7 DEF DeviceRejectsRequest

LEMMA SnapshotsAccepted ==
    ASSUME AgreeInv, NEW g \in Groups, NEW u \in Copies(Server, g),
           NEW q \in Of("snapshot", g, net)
    PROVE  ~ServerRejectsSnapshot(u, q)
<1>1. PICK s : s \in Copies(Device, g)
  BY DEF Copies
<1>2. Agree(g, s, u, net) /\ FramesAgree(g, net)
  BY <1>1 DEF AgreeInv, AllAgree
<1>3. SnapshotAgrees(q, s, u) /\ s.request_id <= u.last_sent_id
  BY <1>2 DEF Agree, SidesAgree
<1>4. /\ u.request_id \in Int /\ u.snapshot_id \in Int /\ u.last_sent_id \in Int
      /\ u.snapshot_id <= u.request_id /\ u.last_sent_id <= u.request_id
      /\ s.request_id \in Int /\ q.id \in Int
      /\ \A f \in Fields : u.values[f] \in Int /\ q.values[f] \in Int
  BY <1>1, CopyType, OfType, RoleFacts DEF AgreeInv, TotalsInv, RecordInv, RestoreAccepts
<1>5. q.id # 0 /\ q.values \in ValidValues /\ q.id <= u.last_sent_id
  BY <1>3, <1>4 DEF SnapshotAgrees
<1>6. ASSUME u.has_snapshot, q.id = u.snapshot_id
      PROVE  q.values = u.snapshot
  <2>1. PICK o \in Of("snapshot", g, net) : o.id = u.snapshot_id /\ o.values = u.snapshot
    BY <1>2, <1>6 DEF Agree, ServerHolds
  <2> QED
    BY <1>2, <1>6, <2>1 DEF FramesAgree
<1>7. ASSUME q.id >= u.request_id
      PROVE  /\ \A f \in Owned(Server) : q.values[f] = u.values[f]
             /\ \A f \in Monotonic : u.values[f] <= q.values[f]
  <2>1. q.id = u.request_id /\ u.snapshot_id <= q.id
    BY <1>4, <1>5, <1>7
  <2>2. /\ \A f \in Owned(Server) : q.values[f] = u.values[f]
        /\ \A f \in Totals(Device) : u.values[f] <= q.values[f]
    BY <1>3, <2>1 DEF SnapshotAgrees, Same, Below
  <2>3. ASSUME NEW f \in Monotonic
        PROVE  u.values[f] <= q.values[f]
    <3>1. f \in Fields /\ Owner[f] \in {Device, Server}
      BY RoleFacts DEF Roles
    <3>2. f \in Owned(Server) \/ f \in Totals(Device)
      BY <3>1 DEF Owned, Totals
    <3> QED
      BY <1>4, <2>2, <3>1, <3>2
  <2> QED
    BY <2>2, <2>3
<1>8. \A f \in Monotonic : u.values[f] \in Int /\ q.values[f] \in Int
  BY <1>4, RoleFacts
<1> QED
  BY <1>4, <1>5, <1>6, <1>7, <1>8 DEF ServerRejectsSnapshot

\* A receipt answers a snapshot that was recorded, so the device released
\* that snapshot, and its stored record says so.
LEMMA ReceiptsAccepted ==
    ASSUME AgreeInv, ReleasedIsDurable, ~poisoned[Device], NEW g \in Groups,
           NEW p \in Of("receipt", g, net)
    PROVE  ~DeviceRejectsReceipt(ctx[Device][g], p)
<1> DEFINE s == ctx[Device][g]
<1>1. PICK u : u \in Copies(Server, g)
  BY DEF Copies
<1>2. s \in Copies(Device, g) /\ s = disk[Device][g]
  BY RoleFacts DEF Copies, AgreeInv, TotalsInv, RecordInv, BaseInv, Shadow
<1>3. Agree(g, s, u, net)
  BY <1>1, <1>2 DEF AgreeInv, AllAgree
<1>4. ReceiptAgrees(p, u)
  BY <1>3 DEF Agree
<1>5. p.id \in Int /\ u.snapshot_id \in Int /\ s.last_sent_id \in Int
  BY <1>1, <1>2, CopyType, OfType, RoleFacts DEF AgreeInv, TotalsInv, RecordInv
<1>6. 0 < u.snapshot_id
  BY <1>4, <1>5 DEF ReceiptAgrees
<1>7. PICK q \in Of("snapshot", g, net) : q.id = u.snapshot_id
  BY <1>3, <1>6 DEF Agree, ServerHolds
<1>8. u.snapshot_id <= disk[Device][g].last_sent_id
  BY <1>7 DEF Of, ReleasedIsDurable
<1> HIDE DEF s
<1> QED
  BY <1>2, <1>4, <1>5, <1>8 DEF ReceiptAgrees, DeviceRejectsReceipt, s

LEMMA AgreeAccepts == MergesValid /\ AgreeInv /\ ReleasedIsDurable => HonestFramesAccepted
<1> SUFFICES ASSUME MergesValid, AgreeInv, ReleasedIsDurable, NEW p \in net
             PROVE  /\ p.kind = "request" /\ ~poisoned[Device] =>
                          ~DeviceRejectsRequest(ctx[Device][p.group], p)
                    /\ p.kind = "snapshot" /\ ~poisoned[Server] =>
                          ~ServerRejectsSnapshot(ctx[Server][p.group], p)
                    /\ p.kind = "receipt" /\ ~poisoned[Device] =>
                          ~DeviceRejectsReceipt(ctx[Device][p.group], p)
  BY DEF HonestFramesAccepted
<1>1. CASE p = Claim
  BY <1>1 DEF Claim
<1>2. CASE p # Claim
  <2>1. p.group \in Groups
    BY <1>2, FrameType DEF AgreeInv, TotalsInv, RecordInv
  <2>2. p \in Of(p.kind, p.group, net)
    BY DEF Of
  <2>3. \A r \in Roles : ctx[r][p.group] \in Copies(r, p.group)
    BY DEF Copies
  <2> QED
    BY <2>1, <2>2, <2>3, RoleFacts, RequestsAccepted, SnapshotsAccepted, ReceiptsAccepted
<1> QED
  BY <1>1, <1>2

LEMMA Acceptance == Spec => [](AgreeInv /\ ReleasedIsDurable)
BY AgreeInvariant, NothingReleasedEarly, PTL

\* One request id has one answer: every snapshot ever released for it carries
\* the same values, and every copy of the request the same server's fields,
\* whatever is written, lost, replayed or restarted in between.
THEOREM AnswersStayFrozen == Spec => []FrozenAnswers
BY AgreeInvariant, AgreeFreezes, PTL

\* What the device holds as acknowledged the server has in every record it
\* may continue from, and for one id both hold the same snapshot.
THEOREM AcknowledgementsHold == Spec => []AcknowledgedIsRecorded
BY AgreeInvariant, AgreeRecords, PTL

\* Two peers that only run this code never refuse each other's frames: no
\* loss, delay, replay or restart makes receive_data report a conflict.
THEOREM NoConflictBetweenPeers == MergesValid => (Spec => []HonestFramesAccepted)
<1> SUFFICES ASSUME MergesValid PROVE Spec => []HonestFramesAccepted
  OBVIOUS
<1>1. AgreeInv /\ ReleasedIsDurable => HonestFramesAccepted
  BY AgreeAccepts
<1> QED
  BY <1>1, Acceptance, PTL
-----------------------------------------------------------------------------
(***************************************************************************)
(* The credits module: under its schema the calls are updates of the one   *)
(* group, the chain of totals follows from OwnerHoldsMost, and the stored  *)
(* totals implement the ledger.                                            *)
(***************************************************************************)
LEMMA CreditFacts ==
    ASSUME CreditsSchema
    PROVE  /\ "issued" \in Monotonic /\ "consumed" \in Monotonic
           /\ "issued" \in Fields /\ "consumed" \in Fields
           /\ Owner["issued"] = Server /\ Owner["consumed"] = Device
           /\ Groups = {Account}
           /\ \A v \in ValidValues :
                 /\ v["consumed"] <= v["issued"]
                 /\ v["issued"] \in 0 .. MaxValue /\ v["consumed"] \in 0 .. MaxValue
<1>1. Groups = {0}
  BY DEF CreditsSchema, Groups
<1> QED
  BY <1>1
     DEF CreditsSchema, CreditFields, CreditOwner, CreditValues, Account, Server, Device

\* The calls of the credits module are updates of its one group.
LEMMA CreditsNextIsNext ==
    ASSUME CreditsSchema
    PROVE  [CreditsNext]_vars => [Next]_vars
<1> SUFFICES ASSUME CreditsNext PROVE Next
  OBVIOUS
<1>1. Account \in Groups /\ Server \in Roles /\ Device \in Roles
  BY CreditFacts DEF Roles
<1>2. ASSUME NEW r \in Roles, NEW w, UpdateGroup(r, Account, w)
      PROVE  Next
  <2>1. w \in ValidValues
    BY <1>2 DEF UpdateGroup, MayUpdate
  <2> QED
    BY <1>1, <1>2, <2>1 DEF Next
<1>3. CASE \E total \in 0 .. MaxValue : SetCreditsIssued(total)
  BY <1>1, <1>2, <1>3 DEF SetCreditsIssued
<1>4. CASE \E amount \in 1 .. MaxValue : ConsumeCredits(amount)
  BY <1>1, <1>2, <1>4 DEF ConsumeCredits
<1>5. CASE RequestCreditStatus
  BY <1>1, <1>5 DEF RequestCreditStatus, Next
<1> QED
  BY <1>3, <1>4, <1>5 DEF CreditsNext, Next

LEMMA CreditsTotals ==
    ASSUME CreditsSchema
    PROVE  CreditsSpec => []TotalsInv
<1>1. TotalsInv /\ [CreditsNext]_vars => TotalsInv'
  BY CreditsNextIsNext, TotalsStep
<1> QED
  BY <1>1, TotalsInit, PTL DEF CreditsSpec

LEMMA ChainFromTotals ==
    ASSUME CreditsSchema
    PROVE  TotalsInv => CreditChain
<1> SUFFICES ASSUME TotalsInv,
                    NEW s \in Copies(Server, Account), NEW d \in Copies(Device, Account)
             PROVE  /\ s.values["consumed"] <= d.values["consumed"]
                    /\ d.values["consumed"] <= d.values["issued"]
                    /\ d.values["issued"] <= s.values["issued"]
  BY DEF CreditChain
<1>1. Account \in Groups /\ Peer(Server) = Device /\ Peer(Device) = Server
  BY CreditFacts, RoleFacts DEF Peer
<1>2. d.values \in ValidValues
  BY <1>1, RoleFacts, IdType DEF TotalsInv, RecordInv, BaseInv, TypeOK, Copies
<1> QED
  BY <1>1, <1>2, CreditFacts DEF TotalsInv, OwnerAhead

\* The server never counts more than the device spent, the device never spends
\* more than it was granted, and it was never granted more than was issued, in
\* whatever record either side runs or restarts from.
THEOREM CreditsNeverOverspent ==
    ASSUME CreditsSchema
    PROVE  CreditsSpec => []CreditChain
<1>1. TotalsInv => CreditChain
  BY ChainFromTotals
<1> QED
  BY <1>1, CreditsTotals, PTL

-----------------------------------------------------------------------------
(***************************************************************************)
(* Refinement: one write moves one of the four stored totals.              *)
(***************************************************************************)

\* A write changes the fields of one side only.
LEMMA ChangeOneSide ==
    ASSUME TotalsInv, NEW r \in Roles, NEW g \in Groups, NEW new, Change(r, g, new)
    PROVE  \/ \A f \in Fields \ Owned(r) : new.values[f] = ctx[r][g].values[f]
           \/ \A f \in Owned(r) : new.values[f] = ctx[r][g].values[f]
<1> DEFINE s == ctx[r][g]
<1>1. s \in GroupState
  BY DEF TotalsInv, RecordInv, BaseInv, TypeOK
<1>2. ASSUME NEW w \in ValidValues, MayUpdate(r, s.values, w), new = Updated(r, s, w)
      PROVE  \A f \in Fields \ Owned(r) : new.values[f] = s.values[f]
  <2>1. new.values = w
    BY <1>1, <1>2 DEF Updated, Opened, GroupState
  <2> QED
    BY <1>2, <2>1 DEF MayUpdate
<1>3. ASSUME new = Opened(s) \/ new = Sent(s, Packet(r, g))
      PROVE  new.values = s.values
  BY <1>1, <1>3 DEF Opened, Sent, GroupState
<1>4. ASSUME NEW p \in net, Accepted(r, g, p, new)
      PROVE  \/ \A f \in Owned(r) : new.values[f] = s.values[f]
             \/ new.values = s.values
  <2>1. CASE p.kind = "request" /\ r = Device /\ new = DeviceOnRequest(s, p)
    <3>1. new.values \in {s.values, Merged(s, p)}
      BY <1>1, <2>1 DEF DeviceOnRequest, GroupState
    <3> QED
      BY <2>1, <3>1, RoleFacts DEF Merged, Owned
  <2>2. CASE /\ p.kind = "snapshot" /\ r = Server
             /\ ~ServerRejectsSnapshot(s, p) /\ new = ServerOnSnapshot(s, p)
    <3>1. p.id \in Int /\ s.request_id \in Int
      BY <1>1, <2>2, FrameType, IdType DEF Claim, TotalsInv, RecordInv
    <3>2. CASE p.id < s.request_id
      BY <2>2, <3>2 DEF ServerOnSnapshot
    <3>3. CASE p.id >= s.request_id
      <4>1. new.values = p.values
        BY <1>1, <2>2, <3>1, <3>3 DEF ServerOnSnapshot, GroupState
      <4> QED
        BY <2>2, <3>3, <4>1 DEF ServerRejectsSnapshot
    <3> QED
      BY <3>1, <3>2, <3>3
  <2>3. CASE p.kind = "receipt" /\ new = DeviceOnReceipt(s, p)
    BY <1>1, <2>3 DEF DeviceOnReceipt, GroupState
  <2> QED
    BY <1>4, <2>1, <2>2, <2>3 DEF Accepted
<1> HIDE DEF s
<1> QED
  BY <1>2, <1>3, <1>4 DEF Change, s

LEMMA LedgerInit ==
    ASSUME CreditsSchema
    PROVE  Init => Ledger!Init
<1> SUFFICES ASSUME Init PROVE Ledger!Init
  OBVIOUS
<1>1. Account \in Groups /\ "issued" \in Fields /\ "consumed" \in Fields
  BY CreditFacts
<1> QED
  BY <1>1, RoleFacts DEF Init, Ledger!Init, FreshGroup, Zero

LEMMA LedgerStep ==
    ASSUME CreditsSchema, TotalsInv, TotalsInv', [CreditsNext]_vars
    PROVE  [Ledger!Next]_(Ledger!ledger)
<1>1. [Next]_vars /\ BaseInv /\ Account \in Groups
  BY CreditsNextIsNext, CreditFacts DEF TotalsInv, RecordInv
<1>2. CASE Quiet
  BY <1>1, <1>2, RoleFacts DEF Quiet, Ledger!ledger
<1>3. ASSUME NEW r \in Roles, NEW new \in GroupState, Writes(r, Account, new)
      PROVE  [Ledger!Next]_(Ledger!ledger)
  <2> DEFINE s == ctx[r][Account]
  <2>1. Change(r, Account, new) /\ disk[r][Account] = s /\ disk'[r][Account] \in {s, new}
    BY <1>3 DEF Writes, Copies
  <2>2. \A q \in Roles : q # r => disk'[q][Account] = disk[q][Account]
    BY <1>1, <1>3 DEF Writes
  <2>3. RestoreAccepts(s)
    BY <1>1 DEF TotalsInv, RecordInv
  <2>4. /\ s.values["issued"] <= new.values["issued"]
        /\ s.values["consumed"] <= new.values["consumed"]
    BY <1>1, <2>1, <2>3, ChangeKeeps, CreditFacts DEF Grows
  <2>5. /\ s.values["issued"] \in 0 .. MaxValue /\ new.values["issued"] \in 0 .. MaxValue
        /\ s.values["consumed"] \in 0 .. MaxValue /\ new.values["consumed"] \in 0 .. MaxValue
        /\ new.values["consumed"] <= new.values["issued"]
    BY <1>1, <1>3, IdType, CreditFacts DEF BaseInv, TypeOK
  <2>6. \/ r = Server /\ new.values["consumed"] = s.values["consumed"]
        \/ r = Server /\ new.values["issued"] = s.values["issued"]
        \/ r = Device /\ new.values["issued"] = s.values["issued"]
        \/ r = Device /\ new.values["consumed"] = s.values["consumed"]
    BY <1>1, <2>1, ChangeOneSide, CreditFacts, RoleFacts DEF Owned, Roles
  <2>7. /\ r = Server => new.values["consumed"] <= disk[Device][Account].values["consumed"]
        /\ r = Device => new.values["issued"] <= disk[Server][Account].values["issued"]
    BY <1>1, <2>1, ChangeTotals, CreditFacts, RoleFacts DEF Copies
  <2>8. /\ disk[Device][Account].values["consumed"] \in Int
        /\ disk[Server][Account].values["issued"] \in Int
    BY <1>1, IdType, ValueType, CreditFacts, RoleFacts DEF BaseInv, TypeOK
  <2> HIDE DEF s
  <2>9. CASE disk'[r][Account] = s
    BY <2>1, <2>2, <2>9, RoleFacts DEF Ledger!ledger, Roles
  <2>10. CASE disk'[r][Account] = new /\ r = Server
    <3>1. disk'[Device][Account] = disk[Device][Account]
      BY <2>2, <2>10, RoleFacts
    <3> QED
      BY <2>1, <2>4, <2>5, <2>6, <2>7, <2>8, <2>10, <3>1, RoleFacts
         DEF Ledger!Next, Ledger!Issue, Ledger!Report
  <2>11. CASE disk'[r][Account] = new /\ r = Device
    <3>1. disk'[Server][Account] = disk[Server][Account]
      BY <2>2, <2>11, RoleFacts
    <3> QED
      BY <2>1, <2>4, <2>5, <2>6, <2>7, <2>8, <2>11, <3>1, RoleFacts
         DEF Ledger!Next, Ledger!Accept, Ledger!Consume
  <2> QED
    BY <2>1, <2>9, <2>10, <2>11 DEF Roles
<1> QED
  BY <1>1, <1>2, <1>3, StepCases, CreditFacts

\* The stored totals of the two sides implement the abstract ledger.
THEOREM CreditsImplementLedger ==
    ASSUME CreditsSchema
    PROVE  CreditsSpec => LedgerSpec
<1>1. Init => Ledger!Init
  BY LedgerInit
<1>2. TotalsInv /\ TotalsInv' /\ [CreditsNext]_vars => [Ledger!Next]_(Ledger!ledger)
  BY LedgerStep
<1> QED
  BY <1>1, <1>2, CreditsTotals, PTL DEF CreditsSpec, LedgerSpec, Ledger!Spec

-----------------------------------------------------------------------------
(***************************************************************************)
(* The properties of the engine, for the behaviours of the credits module. *)
(***************************************************************************)
CreditsInv == AgreeInv /\ ReleasedIsDurable

\* A grant that only grew leaves room for whatever was spent before.
LEMMA CreditsMerge ==
    ASSUME CreditsSchema
    PROVE  MergesValid
<1> SUFFICES ASSUME NEW v \in ValidValues, NEW w \in ValidValues, v["issued"] <= w["issued"]
             PROVE  [f \in Fields |-> IF Owner[f] = Server THEN w[f] ELSE v[f]] \in ValidValues
  <2>1. "issued" \in Totals(Server)
    BY CreditFacts DEF Totals
  <2> QED
    BY <2>1 DEF MergesValid, Below
<1> DEFINE m == [f \in Fields |-> IF Owner[f] = Server THEN w[f] ELSE v[f]]
<1>1. m["issued"] = w["issued"] /\ m["consumed"] = v["consumed"]
  BY CreditFacts, RoleFacts
<1>2. /\ v["issued"] \in 0 .. MaxValue /\ v["consumed"] \in 0 .. MaxValue
      /\ w["issued"] \in 0 .. MaxValue /\ v["consumed"] <= v["issued"]
  BY CreditFacts
<1>3. m["consumed"] <= m["issued"]
  BY <1>1, <1>2, BoundsAssumption
<1>4. m \in [CreditFields -> 0 .. MaxValue]
  <2>1. Fields = CreditFields /\ \A f \in CreditFields : w[f] \in 0 .. MaxValue /\ v[f] \in 0 .. MaxValue
    BY DEF CreditsSchema, CreditValues
  <2> QED
    BY <2>1
<1> HIDE DEF m
<1>5. m \in ValidValues
  BY <1>3, <1>4 DEF CreditsSchema, CreditValues
<1> QED
  BY <1>5 DEF m

LEMMA CreditsInvariant ==
    ASSUME CreditsSchema
    PROVE  CreditsSpec => []CreditsInv
<1>1. Init => CreditsInv
  <2>1. Init => ReleasedIsDurable
    BY OldFramesAssumption DEF Init, ReleasedIsDurable, Claim
  <2> QED
    BY <2>1, AgreeInit DEF CreditsInv
<1>2. CreditsInv /\ [CreditsNext]_vars => CreditsInv'
  BY CreditsNextIsNext, AgreeStep, ReleasedStep DEF CreditsInv, AgreeInv, TotalsInv
<1> QED
  BY <1>1, <1>2, PTL DEF CreditsSpec

\* A device and a server that keep credits never refuse each other's frames:
\* no loss, delay, replay, restart or failed commit leads to a conflict.
THEOREM CreditsNeverConflict ==
    ASSUME CreditsSchema
    PROVE  CreditsSpec => []HonestFramesAccepted
<1>1. CreditsInv => HonestFramesAccepted
  BY CreditsMerge, AgreeAccepts DEF CreditsInv
<1> QED
  BY <1>1, CreditsInvariant, PTL

\* No call, frame, failed commit or restart of the credits module takes a
\* stored counter or total back, in storage or as the application sees it.
THEOREM CreditsNeverRollBack ==
    ASSUME CreditsSchema
    PROVE  CreditsSpec => NoRollback
<1>1. CreditsInv /\ [CreditsNext]_vars =>
        [\A r \in Roles, g \in Groups :
            Grows(disk[r][g], disk'[r][g]) /\ Grows(ctx[r][g], ctx'[r][g])]_vars
  BY CreditsNextIsNext, RecordStep DEF StepGrows, CreditsInv, AgreeInv, TotalsInv
<1> QED
  BY <1>1, CreditsInvariant, PTL DEF CreditsSpec, NoRollback

\* A credit receipt is a durable promise: what the device holds as acknowledged
\* is in every record the server may continue from, the frozen answers never
\* change, every frame is covered by its sender's stored record, and every
\* stored record loads again.
THEOREM CreditReceiptsAreDurable ==
    ASSUME CreditsSchema
    PROVE  CreditsSpec =>
               [](AcknowledgedIsRecorded /\ FrozenAnswers /\ ReleasedIsDurable /\ Restorable)
<1>1. CreditsInv =>
        AcknowledgedIsRecorded /\ FrozenAnswers /\ ReleasedIsDurable /\ Restorable
  BY AgreeRecords, AgreeFreezes DEF CreditsInv, AgreeInv, TotalsInv, RecordInv, Restorable
<1> QED
  BY <1>1, CreditsInvariant, PTL

-----------------------------------------------------------------------------
(***************************************************************************)
(* Refinement: the stored records, the frames and the confirmation due are *)
(* the host and the device that a page manages.  What the page's model     *)
(* does not have is that a receipt is due only for the last request, which *)
(* is why its frame may carry the request's number.                        *)
(***************************************************************************)
ReceiptIsCurrent ==
    \A u \in Copies(Server, Account) :
        u.receipt_pending /\ ~u.request_pending => u.snapshot_id = u.request_id

PairInv == AgreeInv /\ ReceiptIsCurrent

\* What the invariant says of the two records of the account.
LEMMA PairFacts ==
    ASSUME CreditsSchema, AgreeInv
    PROVE  /\ Groups = {Account} /\ BaseInv
           /\ \A r \in Roles : \A s \in Copies(r, Account) :
                 s \in GroupState /\ s.last_sent_id <= s.request_id
           /\ \A s \in Copies(Server, Account) : ~s.response_pending
           /\ \A s \in Copies(Device, Account) : ~s.request_pending /\ ~s.receipt_pending
<1>1. Groups = {Account} /\ RecordInv /\ BaseInv
  BY CreditFacts DEF AgreeInv, TotalsInv, RecordInv
<1>2. \A r \in Roles : \A s \in Copies(r, Account) :
         s \in GroupState /\ s.last_sent_id <= s.request_id
  BY <1>1 DEF RecordInv, RestoreAccepts, BaseInv, TypeOK, Copies
<1>3. \A s \in Copies(Device, Account), u \in Copies(Server, Account) :
         DeviceHolds(s) /\ ServerHolds(Account, u, net)
  BY <1>1 DEF AgreeInv, AllAgree, Agree
<1>4. Copies(Device, Account) # {} /\ Copies(Server, Account) # {}
  BY DEF Copies
<1> QED
  BY <1>1, <1>2, <1>3, <1>4 DEF DeviceHolds, ServerHolds

\* A write of the server leaves a receipt due only for its last request.
LEMMA ChangeReceipt ==
    ASSUME CreditsSchema, PairInv, NEW new, Change(Server, Account, new)
    PROVE  new.receipt_pending /\ ~new.request_pending => new.snapshot_id = new.request_id
<1> DEFINE s == ctx[Server][Account]
<1>1. /\ s \in GroupState /\ s.last_sent_id <= s.request_id /\ BaseInv
      /\ s.receipt_pending /\ ~s.request_pending => s.snapshot_id = s.request_id
  BY PairFacts, RoleFacts DEF PairInv, ReceiptIsCurrent, Copies
<1> HIDE DEF s
<1>2. ASSUME NEW w \in ValidValues, new = Updated(Server, s, w)
      PROVE  new.request_pending
  BY <1>1, <1>2 DEF Updated, Opened, GroupState
<1>3. ASSUME new = Opened(s)
      PROVE  new.request_pending
  BY <1>1, <1>3 DEF Opened, GroupState
<1>4. ASSUME new = Sent(s, Packet(Server, Account))
      PROVE  /\ new.receipt_pending => s.receipt_pending
             /\ new.request_pending = s.request_pending
             /\ new.snapshot_id = s.snapshot_id /\ new.request_id = s.request_id
  BY <1>1, <1>4 DEF Sent, GroupState
<1>5. ASSUME NEW p \in net, Accepted(Server, Account, p, new)
      PROVE  new = s \/ new.snapshot_id = new.request_id
  <2>1. p.kind = "snapshot" /\ ~ServerRejectsSnapshot(s, p) /\ new = ServerOnSnapshot(s, p)
    BY <1>5, RoleFacts DEF Accepted, s
  <2>2. p.id \in Int /\ s.request_id \in Int /\ s.last_sent_id \in Int
    BY <1>1, <2>1, FrameType, IdType DEF Claim
  <2>3. p.id <= s.last_sent_id
    BY <2>1, <2>2 DEF ServerRejectsSnapshot
  <2>4. CASE p.id < s.request_id
    BY <2>1, <2>4 DEF ServerOnSnapshot
  <2>5. CASE p.id = s.request_id
    <3>1. new.snapshot_id = p.id /\ new.request_id = s.request_id
      BY <1>1, <2>1, <2>2, <2>5 DEF ServerOnSnapshot, GroupState
    <3> QED
      BY <2>5, <3>1
  <2> QED
    BY <1>1, <2>2, <2>3, <2>4, <2>5
<1> QED
  BY <1>1, <1>2, <1>3, <1>4, <1>5 DEF Change, s

LEMMA PairInvStep ==
    ASSUME CreditsSchema, PairInv, [CreditsNext]_vars
    PROVE  PairInv'
<1>1. [Next]_vars /\ BaseInv /\ Groups = {Account}
  BY CreditsNextIsNext, PairFacts DEF PairInv
<1>2. AgreeInv'
  BY <1>1, AgreeStep DEF PairInv
<1>3. CASE Quiet
  <2>1. \A u \in {ctx'[Server][Account], disk'[Server][Account]} : u \in Copies(Server, Account)
    BY <1>1, <1>3, RoleFacts DEF Quiet, Copies
  <2> QED
    BY <1>2, <2>1 DEF PairInv, ReceiptIsCurrent, Copies
<1>4. ASSUME NEW r \in Roles, NEW new \in GroupState, Writes(r, Account, new)
      PROVE  PairInv'
  <2>1. CASE r = Server
    <3>1. \A u \in {ctx'[Server][Account], disk'[Server][Account]} :
             u = new \/ u \in Copies(Server, Account)
      BY <1>4, <2>1 DEF Writes, Copies
    <3>2. Change(Server, Account, new)
      BY <1>4, <2>1 DEF Writes
    <3> QED
      BY <1>2, <3>1, <3>2, ChangeReceipt DEF PairInv, ReceiptIsCurrent, Copies
  <2>2. CASE r # Server
    <3>1. disk'[Server][Account] = disk[Server][Account] /\ ctx'[Server][Account] = ctx[Server][Account]
      BY <1>1, <1>4, <2>2, RoleFacts DEF Writes
    <3> QED
      BY <1>2, <3>1 DEF PairInv, ReceiptIsCurrent, Copies
  <2> QED
    BY <2>1, <2>2
<1> QED
  BY <1>1, <1>3, <1>4, StepCases

LEMMA PairInvariant ==
    ASSUME CreditsSchema
    PROVE  CreditsSpec => []PairInv
<1>1. Init => PairInv
  <2>1. Account \in Groups /\ Server \in Roles
    BY CreditFacts, RoleFacts
  <2>2. Init => ReceiptIsCurrent
    BY <2>1 DEF Init, ReceiptIsCurrent, Copies, FreshGroup
  <2> QED
    BY <2>2, AgreeInit DEF PairInv
<1>2. PairInv /\ [CreditsNext]_vars => PairInv'
  BY PairInvStep
<1> QED
  BY <1>1, <1>2, PTL DEF CreditsSpec

\* The records that the two sides map to.
HostRecords   == Pair!HostRecord({1}, {0, 1}, {0, 1}, Int)
DeviceRecords == Pair!DeviceRecord({1}, {1}, {1}, Int)

LEMMA HostFields ==
    ASSUME NEW t, t.request_id \in Int, t.request_pending \in BOOLEAN, t.receipt_pending \in BOOLEAN
    PROVE  /\ HostRecordOf(t) \in HostRecords
           /\ \A k \in HostRecords :
                 /\ k.registered /\ k.peer = 1 /\ k.candidate = 0 /\ k.challenge = 1
                 /\ k.request = t.request_id
                 /\ k.pending <=> t.request_pending
                 /\ k.receipt <=> t.receipt_pending
                 => k = HostRecordOf(t)
<1>1. HostRecordOf(t) \in HostRecords
  BY DEF HostRecordOf, HostRecords, Pair!HostRecord
<1>2. \A h \in HostRecords, k \in HostRecords :
         /\ h.registered <=> k.registered
         /\ h.peer = k.peer /\ h.candidate = k.candidate
         /\ h.challenge = k.challenge /\ h.request = k.request
         /\ h.pending <=> k.pending
         /\ h.receipt <=> k.receipt
         => k = h
  BY DEF HostRecords, Pair!HostRecord
<1>3. LET h == HostRecordOf(t)
      IN  /\ h.registered /\ h.peer = 1 /\ h.candidate = 0 /\ h.challenge = 1
          /\ h.request = t.request_id
          /\ h.pending <=> t.request_pending
          /\ h.receipt <=> t.receipt_pending
  BY DEF HostRecordOf
<1> QED
  BY <1>1, <1>2, <1>3

LEMMA DeviceFields ==
    ASSUME NEW t, t.request_id \in Int, t.response_pending \in BOOLEAN
    PROVE  /\ DeviceRecordOf(t) \in DeviceRecords
           /\ \A k \in DeviceRecords :
                 /\ k.claimed /\ k.registered
                 /\ k.got = t.request_id
                 /\ k.reply <=> t.response_pending
                 => k = DeviceRecordOf(t)
<1>1. DeviceRecordOf(t) \in DeviceRecords
  BY DEF DeviceRecordOf, DeviceRecords, Pair!DeviceRecord
<1>2. \A h \in DeviceRecords, k \in DeviceRecords :
         /\ h.claimed <=> k.claimed
         /\ h.registered <=> k.registered
         /\ h.got = k.got
         /\ h.reply <=> k.reply
         => k = h
  BY DEF DeviceRecords, Pair!DeviceRecord
<1>3. LET h == DeviceRecordOf(t)
      IN  /\ h.claimed /\ h.registered /\ h.got = t.request_id
          /\ h.reply <=> t.response_pending
  BY DEF DeviceRecordOf
<1> QED
  BY <1>1, <1>2, <1>3

\* What the record t is of the record s, in the host's and the device's terms.
LEMMA HostEdits ==
    ASSUME NEW s \in GroupState,
           NEW t, t.request_id \in Int, t.request_pending \in BOOLEAN, t.receipt_pending \in BOOLEAN
    PROVE  LET h == HostRecordOf(s)
           IN  /\ /\ t.request_id = s.request_id + 1 /\ t.request_pending
                  /\ t.receipt_pending <=> s.receipt_pending
                  => HostRecordOf(t) = [h EXCEPT !.request = h.request + 1, !.pending = TRUE]
               /\ /\ t.request_id = s.request_id /\ ~t.receipt_pending
                  /\ t.request_pending <=> s.request_pending
                  => HostRecordOf(t) = [h EXCEPT !.receipt = FALSE]
               /\ t.request_id = s.request_id /\ ~t.request_pending /\ t.receipt_pending
                  => HostRecordOf(t) = [h EXCEPT !.pending = FALSE, !.receipt = TRUE]
               /\ /\ t.request_id = s.request_id
                  /\ t.request_pending <=> s.request_pending
                  /\ t.receipt_pending <=> s.receipt_pending
                  => HostRecordOf(t) = h
<1> DEFINE h == HostRecordOf(s)
<1>1. s.request_id \in Int /\ s.request_pending \in BOOLEAN /\ s.receipt_pending \in BOOLEAN
  BY IdType DEF GroupState
<1>2. h \in HostRecords
  BY <1>1, HostFields
<1>3. /\ h.registered /\ h.peer = 1 /\ h.candidate = 0 /\ h.challenge = 1
      /\ h.request = s.request_id
      /\ h.pending <=> s.request_pending
      /\ h.receipt <=> s.receipt_pending
  BY DEF HostRecordOf
<1> HIDE DEF h
<1>4. ASSUME t.request_id = s.request_id + 1, t.request_pending,
             t.receipt_pending <=> s.receipt_pending
      PROVE  HostRecordOf(t) = [h EXCEPT !.request = h.request + 1, !.pending = TRUE]
  <2> DEFINE k == [h EXCEPT !.request = h.request + 1, !.pending = TRUE]
  <2>1. /\ k \in HostRecords /\ k.registered /\ k.peer = 1 /\ k.candidate = 0 /\ k.challenge = 1
        /\ k.request = t.request_id /\ k.pending
        /\ k.receipt <=> t.receipt_pending
    BY <1>1, <1>2, <1>3, <1>4 DEF HostRecords, Pair!HostRecord
  <2> HIDE DEF k
  <2>2. k = HostRecordOf(t)
    BY <1>4, <2>1, HostFields
  <2> QED
    BY <2>2 DEF k
<1>5. ASSUME t.request_id = s.request_id, ~t.receipt_pending,
             t.request_pending <=> s.request_pending
      PROVE  HostRecordOf(t) = [h EXCEPT !.receipt = FALSE]
  <2> DEFINE k == [h EXCEPT !.receipt = FALSE]
  <2>1. /\ k \in HostRecords /\ k.registered /\ k.peer = 1 /\ k.candidate = 0 /\ k.challenge = 1
        /\ k.request = t.request_id /\ ~k.receipt
        /\ k.pending <=> t.request_pending
    BY <1>1, <1>2, <1>3, <1>5 DEF HostRecords, Pair!HostRecord
  <2> HIDE DEF k
  <2>2. k = HostRecordOf(t)
    BY <1>5, <2>1, HostFields
  <2> QED
    BY <2>2 DEF k
<1>6. ASSUME t.request_id = s.request_id, ~t.request_pending, t.receipt_pending
      PROVE  HostRecordOf(t) = [h EXCEPT !.pending = FALSE, !.receipt = TRUE]
  <2> DEFINE k == [h EXCEPT !.pending = FALSE, !.receipt = TRUE]
  <2>1. /\ k \in HostRecords /\ k.registered /\ k.peer = 1 /\ k.candidate = 0 /\ k.challenge = 1
        /\ k.request = t.request_id /\ ~k.pending /\ k.receipt
    BY <1>1, <1>2, <1>3, <1>6 DEF HostRecords, Pair!HostRecord
  <2> HIDE DEF k
  <2>2. k = HostRecordOf(t)
    BY <1>6, <2>1, HostFields
  <2> QED
    BY <2>2 DEF k
<1>7. ASSUME t.request_id = s.request_id, t.request_pending <=> s.request_pending,
             t.receipt_pending <=> s.receipt_pending
      PROVE  HostRecordOf(t) = h
  BY <1>2, <1>3, <1>7, HostFields
<1> QED
  BY <1>4, <1>5, <1>6, <1>7 DEF h

LEMMA DeviceEdits ==
    ASSUME NEW s \in GroupState, NEW t, t.request_id \in Int, t.response_pending \in BOOLEAN
    PROVE  LET d == DeviceRecordOf(s)
           IN  /\ t.response_pending
                  => DeviceRecordOf(t) = [d EXCEPT !.got = t.request_id, !.reply = TRUE]
               /\ t.request_id = s.request_id /\ ~t.response_pending
                  => DeviceRecordOf(t) = [d EXCEPT !.reply = FALSE]
               /\ t.request_id = s.request_id /\ (t.response_pending <=> s.response_pending)
                  => DeviceRecordOf(t) = d
<1> DEFINE d == DeviceRecordOf(s)
<1>1. s.request_id \in Int /\ s.response_pending \in BOOLEAN
  BY IdType DEF GroupState
<1>2. d \in DeviceRecords
  BY <1>1, DeviceFields
<1>3. d.claimed /\ d.registered /\ d.got = s.request_id /\ (d.reply <=> s.response_pending)
  BY DEF DeviceRecordOf
<1> HIDE DEF d
<1>4. ASSUME t.response_pending
      PROVE  DeviceRecordOf(t) = [d EXCEPT !.got = t.request_id, !.reply = TRUE]
  <2> DEFINE k == [d EXCEPT !.got = t.request_id, !.reply = TRUE]
  <2>1. k \in DeviceRecords /\ k.claimed /\ k.registered /\ k.got = t.request_id /\ k.reply
    BY <1>1, <1>2, <1>3, <1>4 DEF DeviceRecords, Pair!DeviceRecord
  <2> HIDE DEF k
  <2>2. k = DeviceRecordOf(t)
    BY <1>4, <2>1, DeviceFields
  <2> QED
    BY <2>2 DEF k
<1>5. ASSUME t.request_id = s.request_id, ~t.response_pending
      PROVE  DeviceRecordOf(t) = [d EXCEPT !.reply = FALSE]
  <2> DEFINE k == [d EXCEPT !.reply = FALSE]
  <2>1. k \in DeviceRecords /\ k.claimed /\ k.registered /\ k.got = t.request_id /\ ~k.reply
    BY <1>1, <1>2, <1>3, <1>5 DEF DeviceRecords, Pair!DeviceRecord
  <2> HIDE DEF k
  <2>2. k = DeviceRecordOf(t)
    BY <1>5, <2>1, DeviceFields
  <2> QED
    BY <2>2 DEF k
<1>6. ASSUME t.request_id = s.request_id, t.response_pending <=> s.response_pending
      PROVE  DeviceRecordOf(t) = d
  BY <1>2, <1>3, <1>6, DeviceFields
<1> QED
  BY <1>4, <1>5, <1>6 DEF d

\* A call of the application: a server's opens a request, a device's does not
\* show.
LEMMA UpdatedPair ==
    ASSUME NEW s \in GroupState, NEW w
    PROVE  /\ HostRecordOf(Opened(s)) = Pair!Requested(HostRecordOf(s))
           /\ HostRecordOf(Updated(Server, s, w)) = Pair!Requested(HostRecordOf(s))
           /\ DeviceRecordOf(Updated(Device, s, w)) = DeviceRecordOf(s)
<1>1. s.request_id \in Int /\ s.receipt_pending \in BOOLEAN /\ s.response_pending \in BOOLEAN
  BY IdType DEF GroupState
<1>2. /\ Opened(s).request_id = s.request_id + 1
      /\ Opened(s).request_pending
      /\ Opened(s).receipt_pending = s.receipt_pending
  BY DEF Opened, GroupState
<1>3. /\ Updated(Server, s, w).request_id = s.request_id + 1
      /\ Updated(Server, s, w).request_pending
      /\ Updated(Server, s, w).receipt_pending = s.receipt_pending
  BY DEF Updated, Opened, GroupState
<1>4. /\ Updated(Device, s, w).request_id = s.request_id
      /\ Updated(Device, s, w).response_pending = s.response_pending
  BY RoleFacts DEF Updated, GroupState
<1>5. Opened(s).request_pending \in BOOLEAN /\ Updated(Server, s, w).request_pending \in BOOLEAN
  BY DEF Updated, Opened, GroupState
<1>6. HostRecordOf(Opened(s)) = Pair!Requested(HostRecordOf(s))
  <2> DEFINE t == Opened(s)
  <2>0. /\ t.request_id \in Int /\ t.request_id = s.request_id + 1
        /\ t.request_pending \in BOOLEAN /\ t.request_pending
        /\ t.receipt_pending \in BOOLEAN /\ (t.receipt_pending <=> s.receipt_pending)
    BY <1>1, <1>2, <1>5
  <2> HIDE DEF t
  <2>1. HostRecordOf(t) =
          [HostRecordOf(s) EXCEPT !.request = HostRecordOf(s).request + 1, !.pending = TRUE]
    BY <2>0, HostEdits
  <2> QED
    BY <2>1 DEF t, Pair!Requested
<1>7. HostRecordOf(Updated(Server, s, w)) = Pair!Requested(HostRecordOf(s))
  <2> DEFINE t == Updated(Server, s, w)
  <2>0. /\ t.request_id \in Int /\ t.request_id = s.request_id + 1
        /\ t.request_pending \in BOOLEAN /\ t.request_pending
        /\ t.receipt_pending \in BOOLEAN /\ (t.receipt_pending <=> s.receipt_pending)
    BY <1>1, <1>3, <1>5
  <2> HIDE DEF t
  <2>1. HostRecordOf(t) =
          [HostRecordOf(s) EXCEPT !.request = HostRecordOf(s).request + 1, !.pending = TRUE]
    BY <2>0, HostEdits
  <2> QED
    BY <2>1 DEF t, Pair!Requested
<1>8. DeviceRecordOf(Updated(Device, s, w)) = DeviceRecordOf(s)
  BY <1>1, <1>4, DeviceEdits
<1> QED
  BY <1>6, <1>7, <1>8

\* A transmission of the server is the next frame of its record.
LEMMA HostSentPair ==
    ASSUME NEW s \in GroupState, ~s.response_pending,
           s.request_pending \/ s.receipt_pending,
           s.receipt_pending /\ ~s.request_pending => s.snapshot_id = s.request_id,
           NEW p, p = IF s.request_pending
                      THEN [kind |-> "request", group |-> Account, id |-> s.request_id,
                            values |-> s.values]
                      ELSE [kind |-> "receipt", group |-> Account, id |-> s.snapshot_id]
    PROVE  /\ Pair!HostFrame(HostRecordOf(s), FALSE) = ManagedFrame(p)
           /\ Pair!HostFrame(HostRecordOf(s), FALSE) # Pair!Nothing
           /\ HostRecordOf(Sent(s, p)) = Pair!HostSent(HostRecordOf(s), FALSE)
<1> DEFINE h == HostRecordOf(s)
           new == Sent(s, p)
           f == Pair!HostFrame(h, FALSE)
           frame(kind) == [kind |-> kind, from |-> 1, to |-> 1, challenge |-> 1,
                           id |-> s.request_id]
<1>1. /\ h.registered = TRUE /\ h.id = 1 /\ h.peer = 1 /\ h.challenge = 1
      /\ h.request = s.request_id /\ h.pending = s.request_pending
      /\ h.receipt = s.receipt_pending
  BY DEF HostRecordOf
<1>2. /\ s.request_id \in Int /\ s.request_pending \in BOOLEAN /\ s.receipt_pending \in BOOLEAN
      /\ new.request_id = s.request_id /\ new.request_pending = s.request_pending
      /\ new.receipt_pending \in BOOLEAN
  BY IdType DEF Sent, GroupState
<1>3. CASE s.request_pending
  <2>1. f = frame("request")
    BY <1>1, <1>3 DEF Pair!HostFrame
  <2>2. ManagedFrame(p) = frame("request")
    BY <1>3 DEF ManagedFrame
  <2> HIDE DEF f
  <2>3. f.kind = "request"
    BY <2>1
  <2>4. f # Pair!Nothing
    BY <2>3 DEF Pair!Nothing
  <2>5. Pair!HostSent(h, FALSE) = h
    BY <2>3 DEF f, Pair!HostSent
  <2>6. new.receipt_pending = s.receipt_pending
    BY <1>3 DEF Sent, GroupState
  <2>7. HostRecordOf(new) = h
    BY <1>2, <2>6, HostEdits
  <2> QED
    BY <2>1, <2>2, <2>4, <2>5, <2>7 DEF f
<1>4. CASE ~s.request_pending
  <2>1. f = frame("receipt")
    BY <1>1, <1>4 DEF Pair!HostFrame
  <2>2. ManagedFrame(p) = frame("receipt")
    BY <1>4 DEF ManagedFrame
  <2> HIDE DEF f
  <2>3. f.kind = "receipt"
    BY <2>1
  <2>4. f # Pair!Nothing
    BY <2>3 DEF Pair!Nothing
  <2>5. Pair!HostSent(h, FALSE) = [h EXCEPT !.receipt = FALSE]
    BY <2>3 DEF f, Pair!HostSent
  <2>6. ~new.receipt_pending
    BY <1>4 DEF Sent, GroupState
  <2>7. HostRecordOf(new) = [h EXCEPT !.receipt = FALSE]
    BY <1>2, <2>6, HostEdits
  <2> QED
    BY <2>1, <2>2, <2>4, <2>5, <2>7 DEF f
<1> QED
  BY <1>3, <1>4

\* A transmission of the device is the next frame of its record.
LEMMA DeviceSentPair ==
    ASSUME NEW s \in GroupState, s.response_pending,
           NEW p, p = [kind |-> "snapshot", group |-> Account, id |-> s.request_id,
                       values |-> s.snapshot]
    PROVE  /\ Pair!DeviceFrame(DeviceRecordOf(s)) = ManagedFrame(p)
           /\ Pair!DeviceFrame(DeviceRecordOf(s)) # Pair!Nothing
           /\ DeviceRecordOf(Sent(s, p)) = Pair!DeviceSent(DeviceRecordOf(s))
<1> DEFINE d == DeviceRecordOf(s)
<1>1. Pair!DeviceFrame(d) = [kind |-> "report", from |-> 1, to |-> 1, challenge |-> 1,
                             id |-> s.request_id]
  BY DEF Pair!DeviceFrame, DeviceRecordOf
<1>2. Pair!DeviceFrame(d) # Pair!Nothing
  BY <1>1 DEF Pair!Nothing
<1>3. Pair!DeviceSent(d) = d
  BY <1>2 DEF Pair!DeviceSent, DeviceRecordOf
<1>4. DeviceRecordOf(Sent(s, p)) = d
  <2>1. /\ Sent(s, p).request_id = s.request_id
        /\ Sent(s, p).response_pending = s.response_pending
    BY DEF Sent, GroupState
  <2> QED
    BY <2>1, IdType, DeviceEdits DEF GroupState
<1> QED
  BY <1>1, <1>2, <1>3, <1>4 DEF ManagedFrame

\* A snapshot that the server takes is a report that the host takes.
LEMMA HostReceivedPair ==
    ASSUME NEW s \in GroupState, s.last_sent_id <= s.request_id,
           NEW p, p.kind = "snapshot", p.id \in Int, ~ServerRejectsSnapshot(s, p)
    PROVE  /\ Pair!HostAccepts(HostRecordOf(s), ManagedFrame(p))
           /\ ~Pair!MakesDue(HostRecordOf(s), ManagedFrame(p))
           /\ HostRecordOf(ServerOnSnapshot(s, p)) =
                 Pair!HostReceived(HostRecordOf(s), ManagedFrame(p))
<1> DEFINE h == HostRecordOf(s)
           f == ManagedFrame(p)
<1>1. s.request_id \in Int /\ s.last_sent_id \in Int
  BY IdType
<1>2. p.id <= s.last_sent_id
  BY <1>1 DEF ServerRejectsSnapshot
<1>3. /\ f.kind = "report" /\ f.from = 1 /\ f.to = 1 /\ f.challenge = 1 /\ f.id = p.id
      /\ h.registered = TRUE /\ h.id = 1 /\ h.peer = 1 /\ h.challenge = 1
      /\ h.request = s.request_id
  BY DEF ManagedFrame, HostRecordOf
<1>4. Pair!HostAccepts(h, f) /\ ~Pair!MakesDue(h, f)
  BY <1>1, <1>2, <1>3 DEF Pair!HostAccepts, Pair!MakesDue, Pair!UpKinds
<1>5. CASE p.id < s.request_id
  <2>1. ServerOnSnapshot(s, p) = s
    BY <1>5 DEF ServerOnSnapshot
  <2>2. Pair!HostReceived(h, f) = h
    BY <1>1, <1>3, <1>5 DEF Pair!HostReceived
  <2> QED
    BY <1>4, <2>1, <2>2
<1>6. CASE p.id = s.request_id
  <2> DEFINE t == ServerOnSnapshot(s, p)
  <2>0. /\ t.request_id = s.request_id /\ t.request_pending \in BOOLEAN /\ ~t.request_pending
        /\ t.receipt_pending \in BOOLEAN /\ t.receipt_pending
    <3>1. t = [s EXCEPT !.values = p.values, !.snapshot = p.values,
                        !.snapshot_id = p.id, !.has_snapshot = TRUE,
                        !.request_pending = FALSE, !.receipt_pending = TRUE]
      BY <1>1, <1>6 DEF ServerOnSnapshot
    <3> HIDE DEF t
    <3> QED
      BY <3>1 DEF GroupState
  <2>1. HostRecordOf(t) = [h EXCEPT !.pending = FALSE, !.receipt = TRUE]
    BY <1>1, <2>0, HostEdits
  <2>2. Pair!HostReceived(h, f) = [h EXCEPT !.pending = FALSE, !.receipt = TRUE]
    BY <1>3, <1>6 DEF Pair!HostReceived
  <2> QED
    BY <1>4, <2>1, <2>2
<1> QED
  BY <1>1, <1>2, <1>5, <1>6

\* A request, or a receipt, that the device takes is one that the managed
\* device takes.
LEMMA DeviceReceivedPair ==
    ASSUME NEW s \in GroupState, s.last_sent_id <= s.request_id, NEW p, p.id \in Int, NEW new,
           \/ p.kind = "request" /\ new = DeviceOnRequest(s, p)
           \/ p.kind = "receipt" /\ ~DeviceRejectsReceipt(s, p) /\ new = DeviceOnReceipt(s, p),
           new # s
    PROVE  /\ Pair!DeviceAccepts(DeviceRecordOf(s), ManagedFrame(p))
           /\ DeviceRecordOf(new) = Pair!DeviceReceived(DeviceRecordOf(s), ManagedFrame(p))
<1> DEFINE d == DeviceRecordOf(s)
           f == ManagedFrame(p)
<1>1. s.request_id \in Int /\ s.last_sent_id \in Int
  BY IdType
<1>2. /\ f.kind = p.kind /\ f.from = 1 /\ f.to = 1 /\ f.challenge = 1 /\ f.id = p.id
      /\ d.registered = TRUE /\ d.claimed = TRUE /\ d.key = 1 /\ d.server = 1 /\ d.challenge = 1
      /\ d.got = s.request_id /\ d.reply = s.response_pending
  BY DEF ManagedFrame, DeviceRecordOf
<1>3. CASE p.kind = "request"
  <2>1. new = DeviceOnRequest(s, p) /\ p.id >= s.request_id
    BY <1>1, <1>3 DEF DeviceOnRequest
  <2>2. Pair!DeviceAccepts(d, f)
    BY <1>2, <1>3 DEF Pair!DeviceAccepts, Pair!DownKinds
  <2>3. DeviceRecordOf(new) = [d EXCEPT !.got = p.id, !.reply = TRUE]
    <3>1. new.request_id = p.id /\ new.response_pending \in BOOLEAN /\ new.response_pending
      BY <1>1, <2>1 DEF DeviceOnRequest, GroupState
    <3> QED
      BY <3>1, DeviceEdits
  <2>4. Pair!DeviceReceived(d, f) = [d EXCEPT !.got = p.id, !.reply = TRUE]
    BY <1>2, <1>3, <2>1 DEF Pair!DeviceReceived
  <2> QED
    BY <2>2, <2>3, <2>4
<1>4. CASE p.kind = "receipt"
  <2>1. new = DeviceOnReceipt(s, p) /\ p.id >= s.request_id /\ p.id <= s.last_sent_id
    BY <1>1, <1>4 DEF DeviceOnReceipt, DeviceRejectsReceipt
  <2>2. Pair!DeviceAccepts(d, f) /\ p.id = s.request_id
    BY <1>1, <1>2, <1>4, <2>1 DEF Pair!DeviceAccepts, Pair!DownKinds
  <2>3. DeviceRecordOf(new) = [d EXCEPT !.reply = FALSE]
    <3>1. /\ new.request_id = s.request_id
          /\ new.response_pending \in BOOLEAN /\ ~new.response_pending
      BY <2>1 DEF DeviceOnReceipt, GroupState
    <3> QED
      BY <1>1, <3>1, DeviceEdits
  <2>4. Pair!DeviceReceived(d, f) = [d EXCEPT !.reply = FALSE]
    BY <1>2, <1>4, <2>2 DEF Pair!DeviceReceived
  <2> QED
    BY <2>2, <2>3, <2>4
<1> QED
  BY <1>3, <1>4

LEMMA PairInit ==
    ASSUME CreditsSchema
    PROVE  Init => Pair!Init
<1> SUFFICES ASSUME Init PROVE Pair!Init
  OBVIOUS
<1>1. disk[Server][Account] = FreshGroup /\ disk[Device][Account] = FreshGroup
  BY CreditFacts, RoleFacts DEF Init
<1>0. /\ FreshGroup.request_id = 0
      /\ FreshGroup.request_pending \in BOOLEAN /\ ~FreshGroup.request_pending
      /\ FreshGroup.receipt_pending \in BOOLEAN /\ ~FreshGroup.receipt_pending
      /\ FreshGroup.response_pending \in BOOLEAN /\ ~FreshGroup.response_pending
  BY DEF FreshGroup
<1>2. HostRecordOf(FreshGroup) = Pair!EnrolledHost
  <2>1. /\ Pair!EnrolledHost \in HostRecords
        /\ Pair!EnrolledHost.registered /\ Pair!EnrolledHost.peer = 1
        /\ Pair!EnrolledHost.candidate = 0 /\ Pair!EnrolledHost.challenge = 1
        /\ Pair!EnrolledHost.request = 0
        /\ ~Pair!EnrolledHost.pending /\ ~Pair!EnrolledHost.receipt
    <3> DEFINE new == Pair!NewHost(1)
               begun == Pair!Begun(new, 1)
    <3>1. /\ new \in HostRecords /\ new.request = 0 /\ ~new.pending /\ ~new.receipt
      BY DEF HostRecords, Pair!HostRecord, Pair!NewHost
    <3> HIDE DEF new
    <3>2. /\ begun \in HostRecords /\ begun.challenge = 1
          /\ begun.request = 0 /\ ~begun.pending /\ ~begun.receipt
      BY <3>1 DEF HostRecords, Pair!HostRecord, Pair!Begun
    <3> HIDE DEF begun
    <3>3. Pair!EnrolledHost = Pair!Approved(begun, 1)
      BY DEF Pair!EnrolledHost, begun, new
    <3> QED
      BY <3>2, <3>3 DEF HostRecords, Pair!HostRecord, Pair!Approved
  <2> QED
    BY <2>1, <1>0, HostFields
<1>3. DeviceRecordOf(FreshGroup) = Pair!EnrolledDevice
  <2>1. /\ Pair!EnrolledDevice \in DeviceRecords
        /\ Pair!EnrolledDevice.claimed /\ Pair!EnrolledDevice.registered
        /\ Pair!EnrolledDevice.got = 0 /\ ~Pair!EnrolledDevice.reply
    <3> DEFINE new == Pair!NewDevice(1, 1)
    <3>1. new \in Pair!DeviceRecord({1}, {1}, {0, 1}, Int) /\ new.got = 0 /\ ~new.reply
      BY DEF Pair!DeviceRecord, Pair!NewDevice
    <3> HIDE DEF new
    <3>2. Pair!EnrolledDevice =
            [new EXCEPT !.challenge = 1, !.claimed = TRUE, !.registered = TRUE]
      BY DEF Pair!EnrolledDevice, new
    <3> QED
      BY <3>1, <3>2 DEF DeviceRecords, Pair!DeviceRecord
  <2> QED
    BY <2>1, <1>0, DeviceFields
<1>4. {ManagedFrame(p) : p \in net} \subseteq {Pair!EnrolledClaim}
  <2>1. \A p \in net : p = Claim
    BY OldFramesAssumption DEF Init
  <2>2. ManagedFrame(Claim) = Pair!EnrolledClaim
    BY DEF ManagedFrame, Claim, Pair!EnrolledClaim
  <2> QED
    BY <2>1, <2>2
<1> QED
  BY <1>1, <1>2, <1>3, <1>4 DEF Init, Pair!Init

LEMMA PairStep ==
    ASSUME CreditsSchema, PairInv, [CreditsNext]_vars
    PROVE  [Pair!Next]_(Pair!pair)
<1> DEFINE u == disk[Server][Account]
           s == disk[Device][Account]
<1>1. /\ [Next]_vars /\ BaseInv /\ Groups = {Account}
      /\ u \in GroupState /\ u.last_sent_id <= u.request_id /\ ~u.response_pending
      /\ s \in GroupState /\ s.last_sent_id <= s.request_id
      /\ ~s.request_pending /\ ~s.receipt_pending
      /\ u.receipt_pending /\ ~u.request_pending => u.snapshot_id = u.request_id
  BY CreditsNextIsNext, PairFacts, RoleFacts DEF PairInv, ReceiptIsCurrent, Copies
<1>2. ASSUME NEW r \in Roles, ~poisoned[r]
      PROVE  ctx[r][Account] = disk[r][Account]
  BY <1>1, <1>2 DEF BaseInv, Shadow
<1>3. ASSUME NEW r \in Roles, NEW new, Save(r, With(r, Account, new)) \/ CommitFails(r, With(r, Account, new)),
             ~poisoned[r]
      PROVE  /\ disk'[r][Account] \in {disk[r][Account], new}
             /\ \A q \in Roles : q # r => disk'[q][Account] = disk[q][Account]
             /\ confirm_due' = confirm_due /\ net' = net
  <2>1. With(r, Account, new)[Account] = new
    BY <1>1 DEF With, BaseInv, TypeOK
  <2> QED
    BY <1>1, <1>3, <2>1 DEF Save, Commit, CommitFails, BaseInv, TypeOK
<1> HIDE DEF u, s
\* A record that did not change, with nothing else, is a stutter.
<1>4. ASSUME disk'[Server][Account] = u, disk'[Device][Account] = s,
             confirm_due' = confirm_due, net' = net
      PROVE  UNCHANGED Pair!pair
  BY <1>4 DEF Pair!pair, u, s
<1>5. ASSUME NEW w, UpdateGroup(Server, Account, w) \/ DataRequest(Account)
      PROVE  [Pair!Next]_(Pair!pair)
  <2>1. PICK new : /\ Save(Server, With(Server, Account, new)) /\ ~poisoned[Server]
                   /\ HostRecordOf(new) = Pair!Requested(HostRecordOf(u))
    BY <1>1, <1>2, <1>5, UpdatedPair, RoleFacts DEF UpdateGroup, DataRequest, u
  <2>2. /\ disk'[Server][Account] \in {u, new} /\ disk'[Device][Account] = s
        /\ confirm_due' = confirm_due /\ net' = net
    BY <1>3, <2>1, RoleFacts DEF u, s
  <2>3. CASE disk'[Server][Account] = new
    BY <2>1, <2>2, <2>3 DEF Pair!Next, Pair!HostRequests, u, s
  <2> QED
    BY <1>4, <2>2, <2>3
<1>6. ASSUME NEW w, UpdateGroup(Device, Account, w)
      PROVE  UNCHANGED Pair!pair
  <2>1. PICK new : /\ Save(Device, With(Device, Account, new)) /\ ~poisoned[Device]
                   /\ DeviceRecordOf(new) = DeviceRecordOf(s)
    BY <1>1, <1>2, <1>6, UpdatedPair, RoleFacts DEF UpdateGroup, s
  <2>2. /\ disk'[Device][Account] \in {s, new} /\ disk'[Server][Account] = u
        /\ confirm_due' = confirm_due /\ net' = net
    BY <1>3, <2>1, RoleFacts DEF u, s
  <2> QED
    BY <2>1, <2>2 DEF Pair!pair, u, s
<1>7. CASE OutboundGroup(Server, Account)
  <2> DEFINE p == Packet(Server, Account)
             new == Sent(u, p)
  <2>1. /\ ~poisoned[Server] /\ ctx[Server][Account] = u /\ confirm_due = FALSE
        /\ u.request_pending \/ u.receipt_pending
    BY <1>1, <1>2, <1>7, RoleFacts DEF OutboundGroup, Selected, Due, BaseInv, TypeOK, u
  <2>2. p = IF u.request_pending
            THEN [kind |-> "request", group |-> Account, id |-> u.request_id, values |-> u.values]
            ELSE [kind |-> "receipt", group |-> Account, id |-> u.snapshot_id]
    BY <2>1, RoleFacts DEF Packet
  <2>3. /\ Pair!HostFrame(HostRecordOf(u), FALSE) = ManagedFrame(p)
        /\ Pair!HostFrame(HostRecordOf(u), FALSE) # Pair!Nothing
        /\ HostRecordOf(new) = Pair!HostSent(HostRecordOf(u), FALSE)
    BY <1>1, <2>1, <2>2, HostSentPair
  <2>4. \/ /\ disk'[Server][Account] = new /\ disk'[Device][Account] = s
           /\ confirm_due' = confirm_due /\ net' = net \cup {p}
        \/ /\ disk'[Server][Account] \in {u, new} /\ disk'[Device][Account] = s
           /\ confirm_due' = confirm_due /\ net' = net
    <3>1. With(Server, Account, new)[Account] = new
      BY <1>1, RoleFacts DEF With, BaseInv, TypeOK
    <3>2. CASE Release(Server, Account, p) /\ UNCHANGED <<ctx, disk, poisoned, faults>> /\ new = u
      BY <3>2 DEF Release, u, s
    <3>3. CASE Commit(Server, With(Server, Account, new)) /\ Release(Server, Account, p)
      BY <1>1, <3>1, <3>3, RoleFacts DEF Commit, Release, BaseInv, TypeOK, s
    <3>4. CASE CommitFails(Server, With(Server, Account, new))
      BY <1>3, <2>1, <3>4, RoleFacts DEF u, s
    <3> QED
      BY <1>7, <2>1, <3>2, <3>3, <3>4 DEF OutboundGroup
  <2> HIDE DEF p, new
  <2>5. CASE disk'[Server][Account] = new
    <3>1. \/ {ManagedFrame(q) : q \in net'} = {ManagedFrame(q) : q \in net}
          \/ {ManagedFrame(q) : q \in net'} =
                {ManagedFrame(q) : q \in net} \cup {ManagedFrame(p)}
      BY <2>4
    <3> QED
      BY <2>1, <2>3, <2>4, <2>5, <3>1 DEF Pair!Next, Pair!HostSends, Pair!MayLeave, u, s
  <2> QED
    BY <1>4, <2>4, <2>5
<1>8. CASE OutboundGroup(Device, Account)
  <2> DEFINE p == Packet(Device, Account)
             new == Sent(s, p)
  <2>1. ~poisoned[Device] /\ ctx[Device][Account] = s /\ s.response_pending
    BY <1>1, <1>2, <1>8, RoleFacts DEF OutboundGroup, Selected, Due, s
  <2>2. p = [kind |-> "snapshot", group |-> Account, id |-> s.request_id, values |-> s.snapshot]
    BY <2>1, RoleFacts DEF Packet
  <2>3. /\ Pair!DeviceFrame(DeviceRecordOf(s)) = ManagedFrame(p)
        /\ Pair!DeviceFrame(DeviceRecordOf(s)) # Pair!Nothing
        /\ DeviceRecordOf(new) = Pair!DeviceSent(DeviceRecordOf(s))
    BY <1>1, <2>1, <2>2, DeviceSentPair
  <2>4. \/ /\ disk'[Device][Account] = new /\ disk'[Server][Account] = u
           /\ confirm_due' = confirm_due /\ net' = net \cup {p}
        \/ /\ disk'[Device][Account] \in {s, new} /\ disk'[Server][Account] = u
           /\ confirm_due' = confirm_due /\ net' = net
    <3>1. With(Device, Account, new)[Account] = new
      BY <1>1, RoleFacts DEF With, BaseInv, TypeOK
    <3>2. CASE Release(Device, Account, p) /\ UNCHANGED <<ctx, disk, poisoned, faults>> /\ new = s
      BY <3>2 DEF Release, u, s
    <3>3. CASE Commit(Device, With(Device, Account, new)) /\ Release(Device, Account, p)
      BY <1>1, <3>1, <3>3, RoleFacts DEF Commit, Release, BaseInv, TypeOK, u
    <3>4. CASE CommitFails(Device, With(Device, Account, new))
      BY <1>3, <2>1, <3>4, RoleFacts DEF u, s
    <3> QED
      BY <1>8, <2>1, <3>2, <3>3, <3>4 DEF OutboundGroup
  <2> HIDE DEF p, new
  <2>5. CASE disk'[Device][Account] = new
    <3>1. \/ {ManagedFrame(q) : q \in net'} = {ManagedFrame(q) : q \in net}
          \/ {ManagedFrame(q) : q \in net'} =
                {ManagedFrame(q) : q \in net} \cup {ManagedFrame(p)}
      BY <2>4
    <3> QED
      BY <2>1, <2>3, <2>4, <2>5, <3>1 DEF Pair!Next, Pair!DeviceSends, Pair!MayLeave, u, s
  <2> QED
    BY <1>4, <2>4, <2>5
<1>9. CASE OutboundConfirmation
  <2>1. /\ disk' = disk /\ net' = net /\ confirm_due = TRUE /\ confirm_due' = FALSE
    BY <1>1, <1>9 DEF OutboundConfirmation, BaseInv, TypeOK
  <2>2. Pair!HostFrame(HostRecordOf(u), TRUE).kind = "confirmation"
    BY DEF Pair!HostFrame, HostRecordOf
  <2>3. Pair!HostFrame(HostRecordOf(u), TRUE) # Pair!Nothing
    <3> DEFINE f == Pair!HostFrame(HostRecordOf(u), TRUE)
    <3>1. f.kind = "confirmation"
      BY <2>2
    <3> HIDE DEF f
    <3>2. f # Pair!Nothing
      BY <3>1 DEF Pair!Nothing
    <3> QED
      BY <3>2 DEF f
  <2>4. Pair!HostSent(HostRecordOf(u), TRUE) = HostRecordOf(u)
    BY <2>2 DEF Pair!HostSent
  <2> QED
    BY <2>1, <2>3, <2>4 DEF Pair!Next, Pair!HostSends, Pair!MayLeave, u
<1>10. ASSUME NEW p \in net, ReceiveClaim(p)
       PROVE  [Pair!Next]_(Pair!pair)
  <2>1. disk' = disk /\ net' = net /\ confirm_due' = TRUE /\ p.kind = "claim"
    BY <1>10 DEF ReceiveClaim
  <2> DEFINE f == ManagedFrame(p)
             h == HostRecordOf(u)
  <2>2. /\ f.kind = "claim" /\ f.from = 1 /\ f.to = 1 /\ f.challenge = 1 /\ f.id = 0
        /\ h.registered = TRUE /\ h.id = 1 /\ h.peer = 1 /\ h.challenge = 1
        /\ h.request = u.request_id
    BY <2>1 DEF ManagedFrame, HostRecordOf
  <2>3. 0 <= u.request_id
    BY <1>1, BoundsAssumption DEF GroupState, Ids
  <2>4. Pair!HostAccepts(h, f) /\ Pair!MakesDue(h, f) /\ Pair!HostReceived(h, f) = h
    BY <2>2, <2>3 DEF Pair!HostAccepts, Pair!MakesDue, Pair!HostReceived, Pair!UpKinds
  <2>5. f \in {ManagedFrame(q) : q \in net}
    BY <1>10
  <2> HIDE DEF f, h
  <2> QED
    BY <2>1, <2>4, <2>5 DEF Pair!Next, Pair!HostReceives, u, h
<1>11. ASSUME NEW p \in net, ReceiveSnapshot(p)
       PROVE  [Pair!Next]_(Pair!pair)
  <2> DEFINE new == ServerOnSnapshot(u, p)
             f == ManagedFrame(p)
  <2>1. p.kind = "snapshot" /\ p.id \in Int /\ p.group = Account
    BY <1>1, <1>11, FrameType DEF ReceiveSnapshot, Claim
  <2>2. /\ ~poisoned[Server] /\ ~ServerRejectsSnapshot(u, p)
        /\ Save(Server, With(Server, Account, new))
    BY <1>2, <1>11, <2>1, RoleFacts DEF ReceiveSnapshot, Receive, u
  <2>3. /\ Pair!HostAccepts(HostRecordOf(u), f) /\ ~Pair!MakesDue(HostRecordOf(u), f)
        /\ HostRecordOf(new) = Pair!HostReceived(HostRecordOf(u), f)
    BY <1>1, <2>1, <2>2, HostReceivedPair
  <2>4. /\ disk'[Server][Account] \in {u, new} /\ disk'[Device][Account] = s
        /\ confirm_due' = confirm_due /\ net' = net
    BY <1>3, <2>2, RoleFacts DEF u, s
  <2>5. f \in {ManagedFrame(q) : q \in net} /\ confirm_due \in BOOLEAN
    BY <1>1, <1>11 DEF BaseInv, TypeOK
  <2> HIDE DEF new, f
  <2>6. CASE disk'[Server][Account] = new
    <3>1. HostRecordOf(u)' = HostRecordOf(new) /\ DeviceRecordOf(s)' = DeviceRecordOf(s)
      BY <2>4, <2>6 DEF u, s, HostRecordOf, DeviceRecordOf
    <3>2. confirm_due' = (confirm_due \/ Pair!MakesDue(HostRecordOf(u), f))
      BY <2>3, <2>4, <2>5
    <3>3. Pair!HostReceives(f)
      BY <2>3, <2>4, <3>1, <3>2 DEF Pair!HostReceives, u, s
    <3> QED
      BY <2>5, <3>3 DEF Pair!Next
  <2> QED
    BY <1>4, <2>4, <2>6
<1>12. ASSUME NEW p \in net, ReceiveRequest(p) \/ ReceiveReceipt(p)
       PROVE  [Pair!Next]_(Pair!pair)
  <2> DEFINE f == ManagedFrame(p)
  <2>1. p.kind \in {"request", "receipt"} /\ p.id \in Int /\ p.group = Account
    BY <1>1, <1>12, FrameType DEF ReceiveRequest, ReceiveReceipt, Claim
  <2>2. PICK new : /\ \/ p.kind = "request" /\ new = DeviceOnRequest(s, p)
                      \/ /\ p.kind = "receipt" /\ ~DeviceRejectsReceipt(s, p)
                         /\ new = DeviceOnReceipt(s, p)
                   /\ ~poisoned[Device] /\ new # s
                   /\ Save(Device, With(Device, Account, new))
    BY <1>2, <1>12, <2>1, RoleFacts DEF ReceiveRequest, ReceiveReceipt, Receive, s
  <2>3. /\ Pair!DeviceAccepts(DeviceRecordOf(s), f)
        /\ DeviceRecordOf(new) = Pair!DeviceReceived(DeviceRecordOf(s), f)
    BY <1>1, <2>1, <2>2, DeviceReceivedPair
  <2>4. /\ disk'[Device][Account] \in {s, new} /\ disk'[Server][Account] = u
        /\ confirm_due' = confirm_due /\ net' = net
    BY <1>3, <2>2, RoleFacts DEF u, s
  <2>5. f \in {ManagedFrame(q) : q \in net}
    BY <1>12
  <2> HIDE DEF f
  <2>6. CASE disk'[Device][Account] = new
    BY <2>3, <2>4, <2>5, <2>6 DEF Pair!Next, Pair!DeviceReceives, u, s
  <2> QED
    BY <1>4, <2>4, <2>6
<1>13. ASSUME NEW r \in Roles, Restart(r)
       PROVE  [Pair!Next]_(Pair!pair)
  <2>1. disk' = disk /\ net' = net /\ confirm_due' \in {FALSE, confirm_due}
    BY <1>13 DEF Restart
  <2> QED
    BY <2>1 DEF Pair!Next, Pair!HostRestarts, Pair!pair
<1>14. CASE UNCHANGED vars
  BY <1>4, <1>14 DEF vars, u, s
<1> QED
  BY <1>1, <1>5, <1>6, <1>7, <1>8, <1>9, <1>10, <1>11, <1>12, <1>13, <1>14
     DEF Next, Deliver, Roles

\* Two endpoints that keep credits move, as far as their stored records, their
\* frames and the due confirmation go, as the host and the device of
\* ManagedPair: RAM, cursors, values and failed commits do not show, so a page
\* may be modelled over the two records alone.
THEOREM CreditsImplementPair ==
    ASSUME CreditsSchema
    PROVE  CreditsSpec => PairSpec
<1>1. Init => Pair!Init
  BY PairInit
<1>2. PairInv /\ [CreditsNext]_vars => [Pair!Next]_(Pair!pair)
  BY PairStep
<1> QED
  BY <1>1, <1>2, PairInvariant, PTL DEF CreditsSpec, PairSpec, Pair!Spec
=============================================================================
