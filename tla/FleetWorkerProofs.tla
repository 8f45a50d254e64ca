-------------------------- MODULE FleetWorkerProofs ---------------------------
(***************************************************************************)
(* The simulated fleet, for any number of messages, keys, challenges,      *)
(* requests and faults.                                                    *)
(*                                                                         *)
(* What is saved is described without the handlers (DiskSound): Pair       *)
(* relates the two checkpoints, whatever interrupted the exchanges that    *)
(* wrote them.  What a handler knows in each of its steps (Knows) is said  *)
(* of its record, of what is saved and of the entry; it holds because no   *)
(* second handler runs (OneHandler), and a closed tab takes the handler.   *)
(* Work bounds the keys, challenges and requests by the messages posted.   *)
(***************************************************************************)
EXTENDS FleetWorker, TLAPS

Frames ==
    [kind : DownKinds \cup UpKinds \cup {"none"}, from : Ids, to : Ids, challenge : Ids, id : Requests]

DownUp == <<"down", "up">>
UpDown == <<"up", "down">>
Routes == {DownUp, UpDown, <<"down">>, <<"up">>, <<>>}
Operations ==
    [command : Commands \cup {"none", "initialize"}, shown : [challenge : Ids, key : Ids],
     step : Steps, next : Row, stage : {"none", "enroll", "confirm", "loop"}, route : Routes,
     frame : Frames, moved : BOOLEAN, pass : 0 .. MaxPasses]
Disks   == [row : Row, server : Hosts, device : Devices]
Entries ==
    [phase : {"absent", "ok", "error"}, row : Row, device : BOOLEAN, due : BOOLEAN,
     host_broken : BOOLEAN, device_broken : BOOLEAN]

Shape ==
    /\ TypeOK
    /\ disk \in Disks /\ entry \in Entries /\ tasks \in [Task -> Operations]
    /\ acked \in [running : BOOLEAN, connected : BOOLEAN]
    /\ refused \in BOOLEAN /\ known \in BOOLEAN

-----------------------------------------------------------------------------
(***************************************************************************)
(* What is saved.                                                          *)
(***************************************************************************)
HostSound(h) ==
    /\ h.registered => h.challenge # 0 /\ h.candidate = 0
    /\ 0 < h.request => h.registered
    /\ h.pending \/ h.receipt => 0 < h.request

\* d is the checkpoint of the device that is pinned to the host saved as h.
Pair(h, d) ==
    /\ d.registered => h.registered
    /\ h.registered \/ h.candidate # 0 => d.challenge = h.challenge /\ d.claimed
    /\ h.registered => h.peer = d.key
    /\ h.candidate # 0 => h.candidate = d.key /\ h.challenge # 0
    /\ d.got <= h.request
    /\ d.reply => d.registered /\ 0 < d.got
    /\ 0 < h.request /\ ~h.pending => d.registered /\ d.got = h.request

RowSound(k) ==
    /\ k.row = NoRow => k.server = NoHost /\ k.device = NoDevice
    /\ k.row.phase = "ready" =>
          k.server # NoHost /\ k.server.id = k.row.serverKey /\ k.device # NoDevice

DiskSound(k) ==
    /\ RowSound(k)
    /\ k.server # NoHost => k.server.id # 0
    /\ k.device # NoDevice => k.device.key # 0 /\ k.device.server = k.server.id
    /\ HostSound(k.server) /\ Pair(k.server, k.device)

\* The entry e is what is saved as k, and can be used.
Agrees(k, e) ==
    e.phase = "ok" /\ k.row.phase = "ready" /\ e.row = k.row /\ e.device = k.row.running

-----------------------------------------------------------------------------
(***************************************************************************)
(* What a handler knows in each of its steps.                              *)
(***************************************************************************)
\* Host and device have nothing left to say.
Quiet(h, d, due) == ~due /\ ~h.pending /\ ~h.receipt /\ ~d.reply

\* The row about to be saved is the saved one, with what the command asks for.
NextRow(op, row) ==
    /\ op.command \in {"stop", "quit", "start", "connect", "disconnect"}
    /\ op.next.phase = "ready" /\ op.next.serverKey = row.serverKey
    /\ op.next.running = (op.command = "start" \/ (row.running /\ op.command \notin {"stop", "quit"}))
    /\ op.next.connected =
          (op.command = "connect" \/ (row.connected /\ op.command # "disconnect"))

\* A pass of the loop, before its first delivery, before its second, and after.
PassStarts(op, h, d, due) ==
    /\ 0 < op.pass => ~due /\ (d.reply => h.receipt \/ h.pending)
    /\ 1 < op.pass => ~h.pending
    /\ 2 < op.pass => Quiet(h, d, due)
    /\ ~op.moved

PassHalf(op, h, d, due) ==
    /\ ~due
    /\ 0 < op.pass => Quiet(h, d, due) \/ (h.pending /\ d.reply /\ d.got = h.request)
    /\ 1 < op.pass => Quiet(h, d, due)
    /\ 2 < op.pass => ~op.moved
    /\ ~op.moved => ~h.pending /\ ~h.receipt

PassOver(op, h, d, due) ==
    /\ ~due /\ (d.reply => h.receipt \/ h.pending)
    /\ 0 < op.pass => ~h.pending
    /\ 1 < op.pass => Quiet(h, d, due)
    /\ 2 < op.pass => ~op.moved
    /\ ~op.moved => Quiet(h, d, due)

\* The stages of an exchange; only the loop counts passes.
InStage(op, h, d) ==
    /\ op.stage \in {"enroll", "confirm", "loop"}
    /\ op.stage = "enroll"  => ~h.registered /\ h.challenge # 0
    /\ op.stage = "confirm" => h.registered
    /\ op.stage = "loop"    => h.registered /\ d.registered
    /\ op.stage # "loop"    => op.pass = 0
    /\ op.pass <= 3

AtSend(op, h, d, due) ==
    /\ op.stage = "enroll"  => op.route = DownUp \/ (op.route = <<"up">> /\ d.challenge = h.challenge)
    /\ op.stage = "confirm" => \/ op.route = UpDown /\ ~d.registered
                               \/ op.route = <<"down">> /\ due
    /\ op.stage = "loop" => \/ op.route = DownUp /\ PassStarts(op, h, d, due)
                            \/ op.route = <<"up">> /\ PassHalf(op, h, d, due)

\* The frame in hand is the host's, and the device has not seen it.
AtDevice(op, h, d, due) ==
    LET f == op.frame
    IN  /\ f.kind \in DownKinds
        /\ f.from = h.id /\ f.to = h.peer /\ f.challenge = h.challenge /\ f.id = h.request
        /\ op.stage = "enroll"  => op.route = DownUp /\ f.kind = "invitation"
        /\ op.stage = "confirm" => op.route = <<"down">> /\ f.kind = "confirmation"
        /\ op.stage = "loop" =>
              /\ op.route = DownUp /\ ~due
              /\ f.kind # "invitation"
              /\ f.kind = "confirmation" => op.pass = 0
              /\ f.kind = "request" => h.pending /\ op.pass < 2
              /\ f.kind = "receipt" => ~h.pending /\ ~h.receipt /\ 0 < h.request /\ op.pass < 3

\* The frame in hand is the device's, and the host has not seen it.
AtHost(op, h, d, due) ==
    LET f == op.frame
    IN  /\ f.from = d.key /\ f.to = d.server /\ f.challenge = d.challenge /\ f.id = d.got
        /\ d.claimed /\ d.challenge # 0
        /\ op.stage = "enroll"  => op.route = <<"up">> /\ f.kind = "claim" /\ d.challenge = h.challenge
        /\ op.stage = "confirm" => op.route = UpDown /\ f.kind = "claim" /\ ~d.registered
        /\ op.stage = "loop" =>
              /\ op.route = <<"up">> /\ f.kind = "report" /\ d.reply /\ ~due
              /\ 0 < op.pass => h.pending /\ d.got = h.request /\ op.pass < 2

Working == {"save", "open", "host", "exchange", "send", "receive", "settle"}

Creating(op, k, e) ==
    /\ op.step = "row" => k.row = NoRow
    /\ op.step \in {"server", "device", "ready"} => e.phase = "ok" /\ e.row = NewRow /\ k.row = NewRow
    /\ op.step = "server" => k.server = NoHost /\ k.device = NoDevice
    /\ op.step = "device" => k.server # NoHost /\ k.device = NoDevice
    /\ op.step = "ready"  => k.server # NoHost /\ k.device # NoDevice

Knows(op, k, e) ==
    /\ op.step = "idle" => op = Idle
    /\ Creating(op, k, e)
    /\ op.step \in Working => Agrees(k, e)
    /\ op.step = "save" => NextRow(op, k.row)
    /\ op.step = "open" => op.command = "start"
    /\ op.step = "host" => op.command \in ServerCommands
    /\ op.step \in {"send", "receive", "settle"} => InStage(op, k.server, k.device)
    /\ op.step \notin {"send", "receive", "settle"} => op.pass = 0
    /\ op.step = "send" => AtSend(op, k.server, k.device, e.due)
    /\ op.step = "receive" =>
          AtDevice(op, k.server, k.device, e.due) \/ AtHost(op, k.server, k.device, e.due)
    /\ op.step = "settle" /\ op.stage = "loop" => PassOver(op, k.server, k.device, e.due)

-----------------------------------------------------------------------------
(***************************************************************************)
(* The invariant.                                                          *)
(***************************************************************************)
OneHandler == \A t, u \in Task : t = u \/ tasks[t] = Idle \/ tasks[u] = Idle

TasksKnow == \A t \in Task : Knows(tasks[t], disk, entry)

EntryInv ==
    /\ known = (disk.row # NoRow)
    /\ entry.phase = "absent" <=> disk.row = NoRow
    /\ entry.phase = "ok" =>
          Agrees(disk, entry) \/ \E t \in Task : tasks[t].step \in {"server", "device", "ready"}

\* The messages that it took to bring a host record to where it is.
Worth(h) ==
    IF h = NoHost THEN 0
    ELSE 1 + (IF h.challenge # 0 THEN 1 ELSE 0) + (IF h.registered THEN 1 ELSE 0) + h.request

Work ==
    /\ Worth(disk.server) + Len(queue) <= posts
    /\ ids + 2 * Len(queue) <= 2 * posts
    /\ \A t \in Task :
          /\ tasks[t].step \in {"row", "server", "host"} => Worth(disk.server) + Len(queue) + 1 <= posts
          /\ tasks[t].step \in {"device", "host"} => ids + 2 * Len(queue) + 1 <= 2 * posts
          /\ tasks[t].step \in {"row", "server"}  => ids + 2 * Len(queue) + 2 <= 2 * posts

Inv ==
    /\ Shape /\ OneHandler
    /\ DiskSound(disk) /\ EntryInv /\ CommandsStick
    /\ TasksKnow /\ Work
    /\ ~refused

-----------------------------------------------------------------------------
(***************************************************************************)
(* The frames and records of ManagedPair, field by field.                  *)
(***************************************************************************)
LEMMA Numbers ==
    /\ MaxPosts \in Nat /\ MaxQueue \in Nat /\ MaxFaults \in Nat /\ MaxPasses \in Nat
    /\ Ids \subseteq Nat /\ Requests \subseteq Nat
    /\ \A n \in Nat : n <= 2 * MaxPosts => n \in Ids
    /\ \A n \in Nat : n + 3 <= MaxPosts => n \in Requests
    /\ 0 \in Ids /\ 0 \in Requests
    /\ 1 \in Task /\ Task = {1, 2}
BY BoundsAssumption DEF Ids, Requests, Task

LEMMA FreshRecords ==
    /\ NoHost \in Hosts /\ NoDevice \in Devices
    /\ \A i \in Ids : NewHost(i) \in Hosts
    /\ \A i, j \in Ids : NewDevice(i, j) \in Devices
    /\ NewRow \in Row /\ NoRow \in Row /\ NewRow # NoRow /\ NoEntry \in Entries
    /\ NoRow.phase = "none" /\ NewRow.phase = "creating"
<1>1. 0 \in Ids /\ 0 \in Requests
  BY Numbers
<1> QED
  BY <1>1 DEF Hosts, HostRecord, Devices, DeviceRecord, NoHost, NoDevice, NewHost, NewDevice,
              Row, NewRow, NoRow, Entries, NoEntry

LEMMA IdleType == Idle \in Operations /\ Idle.step = "idle" /\ Idle.pass = 0
<1>1. 0 \in Ids /\ 0 \in Requests /\ 0 \in 0 .. MaxPasses
  BY Numbers
<1> QED
  BY <1>1, FreshRecords DEF Idle, Operations, Steps, Unshown, Frames, Nothing, Routes

LEMMA HostFrameFacts ==
    ASSUME NEW h \in Hosts, NEW due \in BOOLEAN
    PROVE  LET f == HostFrame(h, due)
           IN  /\ f \in Frames
               /\ f = Nothing <=> f.kind = "none"
               /\ f.kind \in DownKinds \cup {"none"}
               /\ f.kind # "none" =>
                     /\ f.from = h.id /\ f.to = h.peer
                     /\ f.challenge = h.challenge /\ f.id = h.request
               /\ f.kind = "invitation"   <=> ~h.registered /\ h.challenge # 0
               /\ f.kind = "confirmation" <=> h.registered /\ due
               /\ f.kind = "request"      <=> h.registered /\ ~due /\ h.pending
               /\ f.kind = "receipt"      <=> h.registered /\ ~due /\ ~h.pending /\ h.receipt
<1>1. /\ h.id \in Ids /\ h.peer \in Ids /\ h.challenge \in Ids
      /\ h.request \in Requests /\ h.registered \in BOOLEAN
      /\ h.pending \in BOOLEAN /\ h.receipt \in BOOLEAN
  BY DEF Hosts, HostRecord
<1>2. 0 \in Ids /\ 0 \in Requests
  BY Numbers
<1> QED
  BY <1>1, <1>2 DEF HostFrame, Frames, Nothing, DownKinds

LEMMA DeviceFrameFacts ==
    ASSUME NEW d \in Devices
    PROVE  LET f == DeviceFrame(d)
           IN  /\ f \in Frames
               /\ f = Nothing <=> f.kind = "none"
               /\ f.kind \in UpKinds \cup {"none"}
               /\ f.kind # "none" =>
                     /\ f.from = d.key /\ f.to = d.server
                     /\ f.challenge = d.challenge /\ f.id = d.got
               /\ f.kind = "claim"  <=> ~d.registered /\ d.challenge # 0
               /\ f.kind = "report" <=> d.registered /\ d.reply
<1>1. /\ d.key \in Ids /\ d.server \in Ids /\ d.challenge \in Ids /\ d.got \in Requests
      /\ d.registered \in BOOLEAN /\ d.reply \in BOOLEAN
  BY DEF Devices, DeviceRecord
<1>2. 0 \in Ids /\ 0 \in Requests
  BY Numbers
<1> QED
  BY <1>1, <1>2 DEF DeviceFrame, Frames, Nothing, UpKinds

LEMMA HostChanges ==
    ASSUME NEW h \in Hosts
    PROVE  /\ \A c \in Ids : Begun(h, c) \in Hosts
           /\ Cancelled(h) \in Hosts
           /\ \A k \in Ids : Approved(h, k) \in Hosts
           /\ h.request + 1 \in Requests => Requested(h) \in Hosts
           /\ \A due \in BOOLEAN : HostSent(h, due) \in Hosts
           /\ \A f \in Frames : HostReceived(h, f) \in Hosts
<1>1. 0 \in Ids
  BY Numbers
<1>2. (\A c \in Ids : Begun(h, c) \in Hosts) /\ Cancelled(h) \in Hosts
  BY <1>1 DEF Hosts, HostRecord, Begun, Cancelled
<1>3. \A k \in Ids : Approved(h, k) \in Hosts
  BY <1>1 DEF Hosts, HostRecord, Approved
<1>4. h.request + 1 \in Requests => Requested(h) \in Hosts
  BY DEF Hosts, HostRecord, Requested
<1>5. \A due \in BOOLEAN : HostSent(h, due) \in Hosts
  BY DEF Hosts, HostRecord, HostSent
<1>6. \A f \in Frames : HostReceived(h, f) \in Hosts
  BY DEF Hosts, HostRecord, HostReceived, Frames
<1> QED
  BY <1>2, <1>3, <1>4, <1>5, <1>6

LEMMA DeviceChanges ==
    ASSUME NEW d \in Devices
    PROVE  DeviceSent(d) \in Devices /\ \A f \in Frames : DeviceReceived(d, f) \in Devices
<1>1. DeviceSent(d) \in Devices
  BY DEF Devices, DeviceRecord, DeviceSent
<1>2. \A f \in Frames : DeviceReceived(d, f) \in Devices
  BY DEF Devices, DeviceRecord, DeviceReceived, Frames
<1> QED
  BY <1>1, <1>2

LEMMA RouteFacts ==
    /\ Head(DownUp) = "down" /\ Tail(DownUp) = <<"up">> /\ Len(DownUp) = 2
    /\ Head(UpDown) = "up" /\ Tail(UpDown) = <<"down">> /\ Len(UpDown) = 2
    /\ Head(<<"down">>) = "down" /\ Tail(<<"down">>) = <<>> /\ Len(<<"down">>) = 1
    /\ Head(<<"up">>) = "up" /\ Tail(<<"up">>) = <<>> /\ Len(<<"up">>) = 1
    /\ DownUp # <<"up">> /\ UpDown # <<"down">> /\ DownUp # UpDown
    /\ {DownUp, UpDown, <<"down">>, <<"up">>, <<>>} = Routes
<1>1. Tail(DownUp) = <<"up">>
  BY DEF DownUp
<1>2. Tail(UpDown) = <<"down">>
  BY DEF UpDown
<1>3. Tail(<<"down">>) = <<>> /\ Tail(<<"up">>) = <<>>
  OBVIOUS
<1> QED
  BY <1>1, <1>2, <1>3 DEF DownUp, UpDown, Routes

\* A delivery upwards that is the only one left is the last of its round.
LEMMA LastUp == <<"up">> \notin {DownUp, UpDown} /\ <<"up">> # <<"down">>
<1>1. Len(<<"up">>) # Len(DownUp) /\ Len(<<"up">>) # Len(UpDown)
  BY RouteFacts
<1> QED
  BY <1>1, RouteFacts

-----------------------------------------------------------------------------
(***************************************************************************)
(* The parts of the invariant that every step of a handler shares.         *)
(***************************************************************************)
LEMMA ShapeOf ==
    ASSUME disk' \in Disks, entry' \in Entries, tasks' \in [Task -> Operations],
           acked' \in [running : BOOLEAN, connected : BOOLEAN], refused' \in BOOLEAN,
           known' \in BOOLEAN, queue' \in Seq(Message), Len(queue') <= MaxQueue,
           posts' \in 0 .. MaxPosts, ids' \in Ids, faults' \in 0 .. MaxFaults
    PROVE  Shape'
<1>1. disk'.row \in Row /\ disk'.server \in Hosts /\ disk'.device \in Devices
  BY DEF Disks
<1>2. /\ entry'.phase \in {"absent", "ok", "error"} /\ entry'.row \in Row
      /\ {entry'.device, entry'.due, entry'.host_broken, entry'.device_broken} \subseteq BOOLEAN
  BY DEF Entries
<1>3. \A t \in Task : /\ tasks'[t].step \in Steps /\ tasks'[t].next \in Row
                      /\ tasks'[t].pass \in 0 .. MaxPasses
  BY DEF Operations
<1> QED
  BY <1>1, <1>2, <1>3 DEF Shape, TypeOK

LEMMA Shapes ==
    ASSUME Shape
    PROVE  /\ disk \in Disks /\ entry \in Entries /\ tasks \in [Task -> Operations]
           /\ acked \in [running : BOOLEAN, connected : BOOLEAN] /\ refused \in BOOLEAN
           /\ known \in BOOLEAN /\ queue \in Seq(Message) /\ Len(queue) <= MaxQueue
           /\ posts \in 0 .. MaxPosts /\ ids \in Ids /\ faults \in 0 .. MaxFaults
           /\ disk.row \in Row /\ disk.server \in Hosts /\ disk.device \in Devices
           /\ \A t \in Task : tasks[t] \in Operations
           /\ Len(queue) \in Nat /\ posts \in Nat /\ ids \in Nat
<1>1. ids \in Nat
  BY Numbers DEF Shape, TypeOK
<1> QED
  BY <1>1 DEF Shape, TypeOK, Disks

LEMMA IdleKnows ==
    ASSUME NEW k, NEW e
    PROVE  Knows(Idle, k, e)
BY IdleType DEF Knows, Creating, Working

LEMMA WorthFacts ==
    ASSUME NEW h \in Hosts
    PROVE  /\ Worth(h) \in Nat
           /\ h.registered /\ h # NoHost /\ HostSound(h) => Worth(h) = 3 + h.request
<1>1. h.request \in Nat /\ h.registered \in BOOLEAN
  BY Numbers DEF Hosts, HostRecord
<1> QED
  BY <1>1 DEF Worth, HostSound

\* Only the handler of the step changes its record; the others stay idle.
LEMMA TaskChange ==
    ASSUME Shape, OneHandler, NEW t \in Task, tasks[t] # Idle,
           NEW op \in Operations, Becomes(t, op)
    PROVE  /\ tasks' \in [Task -> Operations] /\ tasks'[t] = op
           /\ \A u \in Task : u # t => tasks[u] = Idle /\ tasks'[u] = Idle
           /\ OneHandler'
<1>1. tasks' \in [Task -> Operations] /\ tasks'[t] = op
      /\ \A u \in Task : u # t => tasks'[u] = tasks[u]
  BY DEF Becomes, Shape
<1>2. \A u \in Task : u # t => tasks[u] = Idle
  BY DEF OneHandler
<1> QED
  BY <1>1, <1>2 DEF OneHandler

LEMMA HandlerStep ==
    ASSUME Inv, NEW t \in Task, tasks[t] # Idle, NEW op \in Operations, Becomes(t, op),
           disk' \in Disks, DiskSound(disk'), entry' \in Entries, Knows(op, disk', entry'),
           ids' \in Nat, faults' \in 0 .. MaxFaults,
           acked' \in [running : BOOLEAN, connected : BOOLEAN], refused' = FALSE,
           UNCHANGED <<queue, posts>>,
           known' = (disk'.row # NoRow), entry'.phase = "absent" <=> disk'.row = NoRow,
           entry'.phase = "ok" => Agrees(disk', entry') \/ op.step \in {"server", "device", "ready"},
           CommandsStick',
           Worth(disk'.server) + Len(queue) <= posts,
           ids' + 2 * Len(queue) <= 2 * posts,
           op.step \in {"row", "server", "host"} => Worth(disk'.server) + Len(queue) + 1 <= posts,
           op.step \in {"device", "host"} => ids' + 2 * Len(queue) + 1 <= 2 * posts,
           op.step \in {"row", "server"}  => ids' + 2 * Len(queue) + 2 <= 2 * posts
    PROVE  Inv'
<1>1. /\ tasks' \in [Task -> Operations] /\ tasks'[t] = op /\ OneHandler'
      /\ \A u \in Task : u # t => tasks'[u] = Idle
  BY TaskChange DEF Inv
<1>2. ids' \in Ids
  <2>1. posts \in 0 .. MaxPosts /\ Len(queue) \in Nat
    BY Shapes DEF Inv
  <2> QED
    BY <2>1, Numbers
<1>3. Shape'
  BY <1>1, <1>2, ShapeOf, Shapes DEF Inv
<1>4. TasksKnow'
  BY <1>1, IdleKnows DEF TasksKnow
<1>5. EntryInv'
  BY <1>1 DEF EntryInv
<1>6. Work'
  BY <1>1, IdleType DEF Work
<1> QED
  BY <1>1, <1>3, <1>4, <1>5, <1>6 DEF Inv

\* A handler that ends, having changed neither the row nor the host record.
LEMMA HandlerEnds ==
    ASSUME Inv, NEW t \in Task, tasks[t] # Idle, Reply(t),
           entry' \in Entries, faults' \in 0 .. MaxFaults, refused' = FALSE,
           UNCHANGED <<disk, known, queue, posts, ids, acked>>,
           entry'.phase = "absent" <=> disk.row = NoRow,
           entry'.phase = "ok" => Agrees(disk, entry')
    PROVE  Inv'
<1>1. Idle \in Operations /\ Knows(Idle, disk', entry') /\ Idle.step = "idle"
  BY IdleType, IdleKnows
<1>2. disk' \in Disks /\ DiskSound(disk') /\ ids' \in Nat
  BY Shapes DEF Inv
<1>3. CommandsStick' /\ known' = (disk'.row # NoRow)
  BY DEF Inv, CommandsStick, EntryInv
<1>4. acked' \in [running : BOOLEAN, connected : BOOLEAN]
  BY Shapes DEF Inv
<1>5. Worth(disk'.server) + Len(queue) <= posts /\ ids' + 2 * Len(queue) <= 2 * posts
  BY DEF Inv, Work
<1> QED
  BY <1>1, <1>2, <1>3, <1>4, <1>5, HandlerStep DEF Reply

\* What the step that a handler has reached says of the saved records.
LEMMA AtStep ==
    ASSUME Inv, NEW t \in Task, NEW step \in Steps, tasks[t].step = step, step # "idle"
    PROVE  /\ tasks[t] # Idle /\ tasks[t] \in Operations /\ Knows(tasks[t], disk, entry)
           /\ \A u \in Task : u # t => tasks[u] = Idle
BY IdleType, Shapes DEF Inv, TasksKnow, OneHandler

-----------------------------------------------------------------------------
(***************************************************************************)
(* Opening the fleet, the queue, and the rows.                             *)
(***************************************************************************)
LEMMA ClearedSound ==
    /\ Cleared \in Disks /\ DiskSound(Cleared) /\ Cleared.row = NoRow
    /\ Cleared.server = NoHost /\ Worth(NoHost) = 0
<1>1. Cleared \in Disks
  BY FreshRecords DEF Cleared, Disks
<1>2. HostSound(NoHost) /\ Pair(NoHost, NoDevice)
  BY DEF HostSound, Pair, NoHost, NewHost, NoDevice, NewDevice
<1> QED
  BY <1>1, <1>2, FreshRecords DEF Cleared, DiskSound, RowSound, Worth

LEMMA InvInit == Init => Inv
<1> SUFFICES ASSUME Init PROVE Inv
  OBVIOUS
<1> USE DEF Init
<1>1. Shape
  <2>1. /\ disk.row \in Row /\ disk.server \in Hosts /\ disk.device \in Devices
    BY FreshRecords DEF Cleared
  <2>2. /\ entry.phase \in {"absent", "ok", "error"} /\ entry.row \in Row
        /\ {entry.device, entry.due, entry.host_broken, entry.device_broken} \subseteq BOOLEAN
    BY FreshRecords DEF NoEntry
  <2>3. tasks \in [Task -> Operations]
    BY IdleType
  <2>4. \A t \in Task : tasks[t].step \in Steps /\ tasks[t].next \in Row /\ tasks[t].pass \in 0 .. MaxPasses
    BY <2>3 DEF Operations
  <2>5. /\ posts \in 0 .. MaxPosts /\ ids \in Ids /\ faults \in 0 .. MaxFaults
        /\ queue \in Seq(Message) /\ Len(queue) <= MaxQueue
        /\ {known, refused} \subseteq BOOLEAN /\ known \in BOOLEAN /\ refused \in BOOLEAN
    <3>1. queue \in Seq(Message) /\ Len(queue) = 0
      OBVIOUS
    <3>2. known \in BOOLEAN /\ refused \in BOOLEAN
      OBVIOUS
    <3>3. posts \in 0 .. MaxPosts /\ ids \in Ids /\ faults \in 0 .. MaxFaults
      BY Numbers
    <3>4. Len(queue) <= MaxQueue
      BY <3>1, Numbers
    <3> QED
      BY <3>1, <3>2, <3>3, <3>4
  <2>6. TypeOK
    BY <2>1, <2>2, <2>4, <2>5 DEF TypeOK
  <2>7. disk \in Disks /\ entry \in Entries /\ acked \in [running : BOOLEAN, connected : BOOLEAN]
    BY ClearedSound, FreshRecords
  <2> QED
    BY <2>3, <2>5, <2>6, <2>7 DEF Shape
<1>2. OneHandler /\ TasksKnow
  BY IdleKnows DEF OneHandler, TasksKnow
<1>3. EntryInv /\ CommandsStick
  BY ClearedSound, FreshRecords DEF EntryInv, CommandsStick, NoEntry
<1>4. Work
  BY ClearedSound, IdleType DEF Work
<1> QED
  BY <1>1, <1>2, <1>3, <1>4, ClearedSound DEF Inv

LEMMA RestoredFacts ==
    ASSUME Shape, DiskSound(disk)
    PROVE  /\ Restored \in Entries
           /\ Restored.phase = "absent" <=> disk.row = NoRow
           /\ Restored.phase = "ok" => Agrees(disk, Restored)
<1>1. disk.row \in Row /\ disk.row.running \in BOOLEAN
  BY Shapes DEF Row
<1> QED
  BY <1>1, FreshRecords DEF Restored, Agrees, NoEntry, Entries

LEMMA InvReload == ASSUME Inv, Reload PROVE Inv'
<1> DEFINE first == [Idle EXCEPT !.command = "initialize", !.step = "exchange"]
<1>1. /\ entry' \in Entries
      /\ entry'.phase = "absent" <=> disk.row = NoRow
      /\ entry'.phase = "ok" => Agrees(disk, entry')
  BY RestoredFacts DEF Inv, Reload
<1>2. first \in Operations /\ first.step = "exchange" /\ first.pass = 0
  BY IdleType DEF Operations, Steps
<1>3. entry'.phase = "ok" => Knows(first, disk, entry')
  BY <1>1, <1>2 DEF Knows, Creating, Working
<1>4. \A t \in Task : tasks'[t] = Idle \/ (t = 1 /\ tasks'[t] = first /\ entry'.phase = "ok")
  BY DEF Reload
<1> HIDE DEF first
<1>5. OneHandler'
  BY <1>4 DEF OneHandler
<1>6. tasks' \in [Task -> Operations]
  BY <1>2, <1>4, IdleType DEF Reload, first
<1>7. TasksKnow'
  <2>1. disk' = disk
    BY DEF Reload
  <2> QED
    BY <1>3, <1>4, <2>1, IdleKnows DEF TasksKnow
<1>8. queue' = <<>> /\ queue' \in Seq(Message) /\ Len(queue') = 0
  BY DEF Reload
<1>9. Shape'
  <2>1. faults' \in 0 .. MaxFaults
    BY Shapes, Numbers DEF Inv, Reload, Fault
  <2>2. known' \in BOOLEAN /\ disk' = disk /\ UNCHANGED <<posts, ids, refused, acked>>
    BY DEF Reload
  <2> QED
    <3>1. /\ disk' \in Disks /\ acked' \in [running : BOOLEAN, connected : BOOLEAN]
          /\ refused' \in BOOLEAN /\ posts' \in 0 .. MaxPosts /\ ids' \in Ids
      BY <2>2, Shapes DEF Inv
    <3>2. Len(queue') <= MaxQueue
      BY <1>8, Numbers
    <3> QED
      BY <1>1, <1>6, <1>8, <2>1, <2>2, <3>1, <3>2, ShapeOf
<1>10. EntryInv' /\ CommandsStick'
  <2>1. known' = (disk.row # NoRow) /\ UNCHANGED <<disk, acked>>
    BY DEF Reload
  <2>2. CommandsStick'
    BY <2>1 DEF Inv, CommandsStick
  <2> QED
    BY <1>1, <2>1, <2>2 DEF EntryInv
<1>11. Work'
  <2>1. \A t \in Task : tasks'[t].step \in {"idle", "exchange"}
    BY <1>2, <1>4, IdleType
  <2>2. Worth(disk.server) \in Nat /\ ids \in Nat /\ posts \in Nat /\ Len(queue) \in Nat
    BY WorthFacts, Shapes DEF Inv
  <2>3. Worth(disk.server) <= posts /\ ids <= 2 * posts
    BY <2>2 DEF Inv, Work
  <2> QED
    BY <1>8, <2>1, <2>2, <2>3 DEF Work, Reload
<1> QED
  BY <1>5, <1>7, <1>9, <1>10, <1>11 DEF Inv, Reload

LEMMA InvPost == ASSUME Inv, NEW command \in Commands, Post(command) PROVE Inv'
<1> DEFINE m == [command |-> command,
                 shown |-> IF command = "approve" /\ disk.server # NoHost
                           THEN [challenge |-> disk.server.challenge,
                                 key |-> disk.server.candidate]
                           ELSE Unshown]
<1>1. m \in Message
  <2>1. disk.server.challenge \in Ids /\ disk.server.candidate \in Ids
    BY Shapes DEF Inv, Hosts, HostRecord
  <2> QED
    BY <2>1, Numbers DEF Message, Unshown
<1>2. queue' = Append(queue, m)
  BY DEF Post
<1> HIDE DEF m
<1>3. queue' \in Seq(Message) /\ Len(queue') = Len(queue) + 1
  BY <1>1, <1>2, Shapes DEF Inv
<1>4. posts' = posts + 1 /\ posts < MaxPosts /\ Len(queue) < MaxQueue
      /\ UNCHANGED <<disk, entry, known, tasks, ids, refused, acked, faults>>
  BY DEF Post
<1>5. Shape'
  BY <1>3, <1>4, ShapeOf, Shapes, Numbers DEF Inv
<1>6. Work'
  <2>1. Worth(disk.server) \in Nat /\ ids \in Nat /\ posts \in Nat /\ Len(queue) \in Nat
    BY WorthFacts, Shapes DEF Inv
  <2> QED
    BY <1>3, <1>4, <2>1 DEF Inv, Work
<1>7. OneHandler' /\ TasksKnow' /\ EntryInv' /\ CommandsStick'
  BY <1>4 DEF Inv, OneHandler, TasksKnow, EntryInv, CommandsStick
<1> QED
  BY <1>4, <1>5, <1>6, <1>7 DEF Inv

\* What dispatch makes of a message, when no handler runs.
LEMMA DispatchedFacts ==
    ASSUME Inv, \A t \in Task : tasks[t] = Idle, NEW m \in Message
    PROVE  /\ Dispatched(m) \in Operations
           /\ Knows(Dispatched(m), disk, entry)
           /\ Dispatched(m).step \notin {"server", "device", "ready"}
<1> DEFINE op(step) == [Idle EXCEPT !.command = m.command, !.shown = m.shown, !.step = step]
           save(row) == [op("save") EXCEPT !.next = row]
           R == entry.row
<1>1. /\ m.command \in Commands /\ m.shown \in [challenge : Ids, key : Ids]
      /\ R \in Row
  BY Shapes DEF Inv, Message, Entries
<1>2. \A step \in Steps :
          /\ op(step) \in Operations /\ op(step).step = step /\ op(step).pass = 0
          /\ op(step).command = m.command
  BY <1>1, IdleType DEF Operations
<1>3. \A row \in Row :
          /\ save(row) \in Operations /\ save(row).step = "save" /\ save(row).pass = 0
          /\ save(row).command = m.command /\ save(row).next = row
  <2>1. op("save") \in Operations /\ op("save").step = "save" /\ op("save").pass = 0
        /\ op("save").command = m.command
    BY <1>2 DEF Steps
  <2> HIDE DEF op
  <2> QED
    BY <2>1 DEF Operations
<1>4. entry.phase = "ok" => Agrees(disk, entry)
  BY IdleType DEF Inv, EntryInv
<1>5. ~known => disk.row = NoRow
  BY DEF Inv, EntryInv
<1>6. \/ Dispatched(m) = op("row") /\ ~known
      \/ Dispatched(m) = op("clear")
      \/ entry.phase = "ok" /\ m.command = "connect" /\ Dispatched(m) = save([R EXCEPT !.connected = TRUE])
      \/ entry.phase = "ok" /\ m.command = "disconnect" /\ Dispatched(m) = save([R EXCEPT !.connected = FALSE])
      \/ entry.phase = "ok" /\ m.command \in {"stop", "quit"} /\ Dispatched(m) = save([R EXCEPT !.running = FALSE])
      \/ entry.phase = "ok" /\ Dispatched(m) = op("exchange")
      \/ entry.phase = "ok" /\ m.command = "start" /\ Dispatched(m) = op("open")
      \/ entry.phase = "ok" /\ m.command \in ServerCommands /\ Dispatched(m) = op("host")
      \/ Dispatched(m) = Idle
  BY <1>1 DEF Dispatched, Commands, ServerCommands
<1> HIDE DEF op, save
<1>7. ASSUME NEW step \in {"row", "clear", "exchange", "open", "host"}, Dispatched(m) = op(step),
             step = "row" => disk.row = NoRow,
             step \in {"exchange", "open", "host"} => entry.phase = "ok",
             step = "open" => m.command = "start", step = "host" => m.command \in ServerCommands
      PROVE  /\ Dispatched(m) \in Operations
             /\ Knows(Dispatched(m), disk, entry)
             /\ Dispatched(m).step \notin {"server", "device", "ready"}
  <2>1. step \in Steps
    BY DEF Steps
  <2> QED
    BY <1>2, <1>4, <1>7, <2>1 DEF Knows, Creating, Working
<1> DEFINE Edits == {row \in Row :
              /\ row.phase = R.phase /\ row.serverKey = R.serverKey
              /\ row.running = (R.running /\ m.command \notin {"stop", "quit"})
              /\ row.connected = (m.command = "connect" \/ (R.connected /\ m.command # "disconnect"))}
<1>8. ASSUME entry.phase = "ok", NEW row \in Edits, Dispatched(m) = save(row),
             m.command \in {"connect", "disconnect", "stop", "quit"}
      PROVE  /\ Dispatched(m) \in Operations
             /\ Knows(Dispatched(m), disk, entry)
             /\ Dispatched(m).step \notin {"server", "device", "ready"}
  <2>1. Agrees(disk, entry) /\ R = disk.row /\ disk.row.phase = "ready"
    BY <1>4, <1>8 DEF Agrees
  <2> HIDE DEF R
  <2>2. NextRow(Dispatched(m), disk.row)
    BY <1>3, <1>8, <2>1 DEF NextRow
  <2> QED
    BY <1>3, <1>8, <2>1, <2>2 DEF Knows, Creating, Working
<1>9. /\ m.command = "connect" => [R EXCEPT !.connected = TRUE] \in Edits
      /\ m.command = "disconnect" => [R EXCEPT !.connected = FALSE] \in Edits
      /\ m.command \in {"stop", "quit"} => [R EXCEPT !.running = FALSE] \in Edits
  <2>1. R \in Row /\ R.running \in BOOLEAN /\ R.connected \in BOOLEAN
    BY <1>1 DEF Row
  <2> HIDE DEF R
  <2>2. ASSUME m.command = "connect" PROVE [R EXCEPT !.connected = TRUE] \in Edits
    BY <2>1, <2>2 DEF Row
  <2>3. ASSUME m.command = "disconnect" PROVE [R EXCEPT !.connected = FALSE] \in Edits
    BY <2>1, <2>3 DEF Row
  <2>4. ASSUME m.command \in {"stop", "quit"} PROVE [R EXCEPT !.running = FALSE] \in Edits
    BY <2>1, <2>4 DEF Row
  <2> QED
    BY <2>2, <2>3, <2>4
<1> HIDE DEF R, Edits
<1>10. CASE Dispatched(m) = Idle
  BY <1>10, IdleType, IdleKnows
<1> QED
  BY <1>5, <1>6, <1>7, <1>8, <1>9, <1>10

LEMMA InvStart == ASSUME Inv, NEW t \in Task, Start(t) PROVE Inv'
<1> DEFINE op == Dispatched(Head(queue))
<1>1. \A u \in Task : tasks[u] = Idle
  BY DEF Start, MayStart
<1>2. /\ Head(queue) \in Message /\ queue' \in Seq(Message) /\ Len(queue') + 1 = Len(queue)
      /\ Len(queue') \in Nat /\ Len(queue) <= MaxQueue
  BY Shapes DEF Inv, Start
<1>3. op \in Operations /\ Knows(op, disk, entry) /\ op.step \notin {"server", "device", "ready"}
  BY <1>1, <1>2, DispatchedFacts
<1>4. Becomes(t, op) /\ UNCHANGED <<disk, entry, known, posts, ids, refused, acked, faults>>
  BY DEF Start
<1> HIDE DEF op
<1>5. /\ tasks' \in [Task -> Operations] /\ tasks'[t] = op
      /\ \A u \in Task : u # t => tasks'[u] = Idle
  BY <1>1, <1>3, <1>4, Shapes DEF Inv, Becomes
<1>6. Shape'
  <2>1. Len(queue') <= MaxQueue
    BY <1>2, Numbers
  <2> QED
    BY <1>2, <1>4, <1>5, <2>1, ShapeOf, Shapes DEF Inv
<1>7. OneHandler' /\ TasksKnow'
  BY <1>3, <1>4, <1>5, IdleKnows DEF OneHandler, TasksKnow
<1>8. EntryInv'
  <2>1. entry.phase = "ok" => Agrees(disk, entry)
    BY <1>1, IdleType DEF Inv, EntryInv
  <2> QED
    BY <1>4, <2>1 DEF Inv, EntryInv
<1>9. Work'
  <2>1. \A u \in Task : tasks'[u].step \notin {"server", "device"}
    BY <1>3, <1>5, IdleType
  <2>2. Worth(disk.server) \in Nat /\ ids \in Nat /\ posts \in Nat
    BY WorthFacts, Shapes DEF Inv
  <2>3. Worth(disk.server) + Len(queue) <= posts /\ ids + 2 * Len(queue) <= 2 * posts
    BY DEF Inv, Work
  <2>4. Worth(disk.server) + Len(queue') + 1 <= posts /\ ids + 2 * Len(queue') + 2 <= 2 * posts
    BY <1>2, <2>2, <2>3
  <2> QED
    BY <1>2, <1>4, <2>1, <2>2, <2>4 DEF Work
<1> QED
  BY <1>4, <1>6, <1>7, <1>8, <1>9 DEF Inv, CommandsStick

\* A transaction that fails, and the handler with it.
LEMMA FaultType == ASSUME Inv, Fault PROVE faults' \in 0 .. MaxFaults
BY Shapes, Numbers DEF Inv, Fault

LEMMA InvCreateRow == ASSUME Inv, NEW t \in Task, CreateRow(t) PROVE Inv'
<1>1. tasks[t].step = "row" /\ UNCHANGED <<queue, posts, ids, refused, acked>>
  BY DEF CreateRow
<1>2. /\ tasks[t] # Idle /\ tasks[t] \in Operations /\ Knows(tasks[t], disk, entry)
      /\ \A u \in Task : u # t => tasks[u] = Idle
  BY <1>1, AtStep DEF Steps
<1>3. CASE Fault /\ Reply(t) /\ UNCHANGED <<disk, entry, known>>
  <2>1. entry.phase # "ok"
    BY <1>1, <1>2, FreshRecords DEF Inv, EntryInv, Knows, Creating
  <2> QED
    BY <1>1, <1>2, <1>3, <2>1, HandlerEnds, FaultType, Shapes DEF Inv, EntryInv
<1>4. CASE /\ disk.row = NoRow
           /\ disk' = [disk EXCEPT !.row = NewRow]
           /\ known' = TRUE
           /\ entry' = [NoEntry EXCEPT !.phase = "ok", !.row = NewRow]
           /\ To(t, "server")
           /\ UNCHANGED faults
  <2> DEFINE op == [tasks[t] EXCEPT !.step = "server"]
  <2>1. op \in Operations /\ op.step = "server" /\ op.pass = 0
    BY <1>1, <1>2 DEF Operations, Steps, Knows
  <2>2. Becomes(t, op)
    BY <1>4 DEF To
  <2> HIDE DEF op
  <2>3. /\ disk' \in Disks /\ disk'.row = NewRow
        /\ disk'.server = disk.server /\ disk'.device = disk.device
    BY <1>4, Shapes, FreshRecords DEF Inv, Disks
  <2>4. disk.server = NoHost /\ disk.device = NoDevice
    BY <1>4 DEF Inv, DiskSound, RowSound
  <2>5. entry' \in Entries /\ entry'.phase = "ok" /\ entry'.row = NewRow
    BY <1>4, FreshRecords DEF Entries
  <2>6. DiskSound(disk')
    BY <2>3, FreshRecords DEF Inv, DiskSound, RowSound
  <2>7. Knows(op, disk', entry')
    BY <2>1, <2>3, <2>4, <2>5 DEF Knows, Creating, Working
  <2>8. CommandsStick'
    BY <2>3, FreshRecords DEF CommandsStick
  <2>9. /\ Worth(disk'.server) + Len(queue) + 1 <= posts
        /\ Worth(disk'.server) + Len(queue) <= posts
        /\ ids' + 2 * Len(queue) <= 2 * posts /\ ids' + 2 * Len(queue) + 2 <= 2 * posts
    BY <1>1, <2>3 DEF Inv, Work
  <2>10. /\ acked' \in [running : BOOLEAN, connected : BOOLEAN] /\ refused' = FALSE
         /\ ids' \in Nat /\ faults' \in 0 .. MaxFaults
    BY <1>1, <1>4, Shapes DEF Inv
  <2>11. known' = (disk'.row # NoRow) /\ disk'.row # NoRow /\ entry'.phase # "absent"
    BY <1>4, <2>3, <2>5, FreshRecords
  <2> QED
    BY <1>1, <1>2, <2>1, <2>2, <2>3, <2>5, <2>6, <2>7, <2>8, <2>9, <2>10, <2>11, HandlerStep
<1> QED
  BY <1>3, <1>4 DEF CreateRow

\* The rest of create fails into an entry that only a reset removes.
LEMMA InvCreateFails ==
    ASSUME Inv, NEW t \in Task, tasks[t].step \in {"server", "device", "ready"}, CreateFails(t),
           faults' \in 0 .. MaxFaults, UNCHANGED <<known, queue, posts, refused, acked>>
    PROVE  Inv'
<1>1. tasks[t] # Idle /\ Knows(tasks[t], disk, entry)
  BY AtStep DEF Steps
<1>2. entry' \in Entries /\ entry'.phase = "error"
  BY Shapes DEF Inv, CreateFails, Entries
<1>3. disk.row # NoRow
  BY <1>1, FreshRecords DEF Knows, Creating
<1>4. (entry'.phase = "absent" <=> disk.row = NoRow) /\ (entry'.phase = "ok" => Agrees(disk, entry'))
  BY <1>2, <1>3
<1>5. Reply(t) /\ refused' = FALSE /\ UNCHANGED <<disk, known, queue, posts, ids, acked>>
  BY Shapes DEF CreateFails, Inv
<1> QED
  BY <1>1, <1>2, <1>4, <1>5, HandlerEnds

LEMMA InvCreateServer == ASSUME Inv, NEW t \in Task, CreateServer(t) PROVE Inv'
<1>1. tasks[t].step = "server" /\ UNCHANGED <<known, queue, posts, refused, acked>>
  BY DEF CreateServer
<1>2. tasks[t] # Idle /\ tasks[t] \in Operations /\ Knows(tasks[t], disk, entry)
  BY <1>1, AtStep DEF Steps
<1>3. CASE /\ disk.server = NoHost
           /\ ids' = ids + 1 /\ disk' = [disk EXCEPT !.server = NewHost(ids')]
           /\ To(t, "device") /\ UNCHANGED <<entry, faults>>
  <2> DEFINE op == [tasks[t] EXCEPT !.step = "device"]
             h  == NewHost(ids')
  <2>1. op \in Operations /\ op.step = "device" /\ op.pass = 0
    BY <1>1, <1>2 DEF Operations, Steps, Knows
  <2>2. Becomes(t, op)
    BY <1>3 DEF To
  <2>3. /\ ids \in Nat /\ Len(queue) \in Nat /\ posts \in Nat /\ posts <= MaxPosts
        /\ ids + 2 * Len(queue) + 2 <= 2 * posts /\ Worth(disk.server) + Len(queue) + 1 <= posts
    BY <1>1, Shapes, Numbers DEF Inv, Work
  <2>4. ids' \in Ids /\ ids' \in Nat /\ ids' # 0
    BY <1>3, <2>3, Numbers
  <2>5. /\ h \in Hosts /\ h.id = ids' /\ h # NoHost /\ HostSound(h) /\ Pair(h, NoDevice)
        /\ Worth(h) = 1
    <3>1. h \in Hosts
      BY <2>4, FreshRecords
    <3>2. /\ h.id = ids' /\ h.registered = FALSE /\ h.candidate = 0 /\ h.challenge = 0
          /\ h.request = 0 /\ h.pending = FALSE /\ h.receipt = FALSE
      BY DEF NewHost
    <3>3. NoDevice.registered = FALSE /\ NoDevice.got = 0 /\ NoDevice.reply = FALSE /\ NoHost.id = 0
      BY DEF NoDevice, NewDevice, NoHost, NewHost
    <3> QED
      BY <2>4, <3>1, <3>2, <3>3 DEF HostSound, Pair, Worth
  <2> HIDE DEF op, h
  <2>6. /\ disk.row = NewRow /\ entry.phase = "ok" /\ entry.row = NewRow /\ disk.device = NoDevice
    BY <1>1, <1>2 DEF Knows, Creating
  <2>7. /\ disk' \in Disks /\ disk'.row = NewRow /\ disk'.server = h /\ disk'.device = NoDevice
    BY <1>3, <2>5, <2>6, Shapes DEF Inv, Disks, h
  <2>8. DiskSound(disk')
    BY <2>4, <2>5, <2>7, FreshRecords DEF DiskSound, RowSound
  <2>9. Knows(op, disk', entry')
    BY <1>3, <2>1, <2>5, <2>6, <2>7 DEF Knows, Creating, Working
  <2>10. CommandsStick'
    BY <2>7, FreshRecords DEF CommandsStick
  <2>11. /\ Worth(disk'.server) + Len(queue) <= posts /\ ids' + 2 * Len(queue) <= 2 * posts
         /\ ids' + 2 * Len(queue) + 1 <= 2 * posts
    <3>1. Worth(disk.server) = 0
      BY <1>3 DEF Worth
    <3> QED
      BY <1>3, <2>3, <2>5, <2>7, <3>1
  <2>12. /\ acked' \in [running : BOOLEAN, connected : BOOLEAN] /\ refused' = FALSE
         /\ faults' \in 0 .. MaxFaults /\ entry' \in Entries
    BY <1>1, <1>3, Shapes DEF Inv
  <2>13. known' = (disk'.row # NoRow) /\ disk'.row # NoRow /\ entry'.phase # "absent"
    BY <1>1, <1>3, <2>6, <2>7, FreshRecords DEF Inv, EntryInv
  <2> QED
    BY <1>1, <1>2, <2>1, <2>2, <2>4, <2>7, <2>8, <2>9, <2>10, <2>11, <2>12, <2>13, HandlerStep
<1>4. CASE CreateFails(t) /\ faults' = faults
  BY <1>1, <1>4, InvCreateFails, Shapes DEF Inv
<1>5. CASE CreateFails(t) /\ Fault
  BY <1>1, <1>5, InvCreateFails, FaultType
<1> QED
  BY <1>3, <1>4, <1>5 DEF CreateServer

LEMMA InvCreateDevice == ASSUME Inv, NEW t \in Task, CreateDevice(t) PROVE Inv'
<1>1. tasks[t].step = "device" /\ UNCHANGED <<known, queue, posts, refused, acked>>
  BY DEF CreateDevice
<1>2. tasks[t] # Idle /\ tasks[t] \in Operations /\ Knows(tasks[t], disk, entry)
  BY <1>1, AtStep DEF Steps
<1>3. CASE /\ disk.device = NoDevice
           /\ ids' = ids + 1
           /\ disk' = [disk EXCEPT !.device = NewDevice(ids', disk.server.id)]
           /\ To(t, "ready") /\ UNCHANGED <<entry, faults>>
  <2> DEFINE op == [tasks[t] EXCEPT !.step = "ready"]
             d  == NewDevice(ids', disk.server.id)
             h  == disk.server
  <2>1. op \in Operations /\ op.step = "ready" /\ op.pass = 0
    BY <1>1, <1>2 DEF Operations, Steps, Knows
  <2>2. Becomes(t, op)
    BY <1>3 DEF To
  <2>3. /\ ids \in Nat /\ Len(queue) \in Nat /\ posts \in Nat /\ posts <= MaxPosts
        /\ ids + 2 * Len(queue) + 1 <= 2 * posts /\ Worth(disk.server) + Len(queue) <= posts
    BY <1>1, Shapes, Numbers DEF Inv, Work
  <2>4. ids' \in Ids /\ ids' \in Nat /\ ids' # 0
    BY <1>3, <2>3, Numbers
  <2>5. h \in Hosts /\ h.id \in Ids /\ HostSound(h) /\ Pair(h, NoDevice)
    BY <1>3, Shapes DEF Inv, DiskSound, Hosts, HostRecord
  <2>6. d \in Devices /\ d.key = ids' /\ d.server = h.id /\ d # NoDevice /\ Pair(h, d)
    <3>1. d \in Devices
      BY <2>4, <2>5, FreshRecords
    <3>2. /\ d.key = ids' /\ d.server = h.id /\ d.registered = FALSE /\ d.claimed = FALSE
          /\ d.got = 0 /\ d.reply = FALSE
      BY DEF NewDevice
    <3>3. /\ NoDevice.registered = FALSE /\ NoDevice.got = 0 /\ NoDevice.reply = FALSE
          /\ NoDevice.claimed = FALSE /\ NoDevice.key = 0
      BY DEF NoDevice, NewDevice
    <3> QED
      BY <2>4, <2>5, <3>1, <3>2, <3>3 DEF Pair
  <2> HIDE DEF op, d, h
  <2>7. /\ disk.row = NewRow /\ entry.phase = "ok" /\ entry.row = NewRow /\ h # NoHost
    BY <1>1, <1>2 DEF Knows, Creating, h
  <2>8. /\ disk' \in Disks /\ disk'.row = NewRow /\ disk'.server = h /\ disk'.device = d
    BY <1>3, <2>6, <2>7, Shapes DEF Inv, Disks, h, d
  <2>9. DiskSound(disk')
    BY <2>4, <2>5, <2>6, <2>7, <2>8, FreshRecords DEF Inv, DiskSound, RowSound, h
  <2>10. Knows(op, disk', entry')
    BY <1>3, <2>1, <2>6, <2>7, <2>8 DEF Knows, Creating, Working
  <2>11. CommandsStick'
    BY <2>8, FreshRecords DEF CommandsStick
  <2>12. /\ Worth(disk'.server) + Len(queue) <= posts /\ ids' + 2 * Len(queue) <= 2 * posts
    BY <1>3, <2>3, <2>8 DEF h
  <2>13. /\ acked' \in [running : BOOLEAN, connected : BOOLEAN] /\ refused' = FALSE
         /\ faults' \in 0 .. MaxFaults /\ entry' \in Entries
    BY <1>1, <1>3, Shapes DEF Inv
  <2>14. known' = (disk'.row # NoRow) /\ disk'.row # NoRow /\ entry'.phase # "absent"
    BY <1>1, <1>3, <2>7, <2>8, FreshRecords DEF Inv, EntryInv
  <2> QED
    BY <1>1, <1>2, <2>1, <2>2, <2>4, <2>8, <2>9, <2>10, <2>11, <2>12, <2>13, <2>14, HandlerStep
<1>4. CASE CreateFails(t) /\ faults' = faults
  BY <1>1, <1>4, InvCreateFails, Shapes DEF Inv
<1>5. CASE CreateFails(t) /\ Fault
  BY <1>1, <1>5, InvCreateFails, FaultType
<1> QED
  BY <1>3, <1>4, <1>5 DEF CreateDevice

LEMMA InvCreateReady == ASSUME Inv, NEW t \in Task, CreateReady(t) PROVE Inv'
<1> DEFINE ready == [NewRow EXCEPT !.phase = "ready", !.serverKey = disk.server.id]
<1>1. tasks[t].step = "ready" /\ UNCHANGED <<known, queue, posts, refused>>
  BY DEF CreateReady
<1>2. tasks[t] # Idle /\ tasks[t] \in Operations /\ Knows(tasks[t], disk, entry)
  BY <1>1, AtStep DEF Steps
<1>3. CASE /\ disk' = [disk EXCEPT !.row = ready]
           /\ entry' = [entry EXCEPT !.row = ready, !.device = TRUE]
           /\ acked' = [running |-> TRUE, connected |-> TRUE]
           /\ Reply(t) /\ UNCHANGED <<ids, faults>>
  <2>1. disk.server.id \in Ids
    BY Shapes DEF Inv, Hosts, HostRecord
  <2>2. /\ ready \in Row /\ ready.phase = "ready" /\ ready.serverKey = disk.server.id
        /\ ready.running = TRUE /\ ready.connected = TRUE
    BY <2>1 DEF NewRow, Row
  <2> HIDE DEF ready
  <2>3. /\ entry.phase = "ok" /\ disk.server # NoHost /\ disk.device # NoDevice
        /\ disk.row # NoRow
    BY <1>1, <1>2, FreshRecords DEF Knows, Creating
  <2>4. /\ disk' \in Disks /\ disk'.row = ready
        /\ disk'.server = disk.server /\ disk'.device = disk.device
    BY <1>3, <2>2, Shapes DEF Inv, Disks
  <2>5. entry' \in Entries /\ entry'.phase = "ok" /\ entry'.row = ready /\ entry'.device = TRUE
    BY <1>3, <2>2, <2>3, Shapes DEF Inv, Entries
  <2>6. DiskSound(disk')
    BY <2>2, <2>3, <2>4, FreshRecords DEF Inv, DiskSound, RowSound
  <2>7. CommandsStick' /\ Agrees(disk', entry')
    BY <1>3, <2>2, <2>4, <2>5 DEF CommandsStick, Agrees
  <2>8. Worth(disk'.server) + Len(queue) <= posts /\ ids' + 2 * Len(queue) <= 2 * posts
    BY <1>3, <2>4 DEF Inv, Work
  <2>9. /\ acked' \in [running : BOOLEAN, connected : BOOLEAN] /\ refused' = FALSE
        /\ faults' \in 0 .. MaxFaults /\ ids' \in Nat
    BY <1>1, <1>3, Shapes DEF Inv
  <2>10. known' = (disk'.row # NoRow) /\ disk'.row # NoRow /\ entry'.phase # "absent"
    BY <1>1, <2>2, <2>3, <2>4, <2>5, FreshRecords DEF Inv, EntryInv
  <2>11. Idle \in Operations /\ Becomes(t, Idle) /\ Knows(Idle, disk', entry') /\ Idle.step = "idle"
    BY <1>3, IdleType, IdleKnows DEF Reply
  <2> QED
    BY <1>1, <1>2, <2>4, <2>5, <2>6, <2>7, <2>8, <2>9, <2>10, <2>11, HandlerStep
<1>4. CASE CreateFails(t) /\ Fault /\ UNCHANGED acked
  BY <1>1, <1>4, InvCreateFails, FaultType
<1> QED
  BY <1>3, <1>4 DEF CreateReady

LEMMA InvReset == ASSUME Inv, NEW t \in Task, Reset(t) PROVE Inv'
<1>1. tasks[t].step = "clear" /\ UNCHANGED <<queue, posts, ids, refused, acked>> /\ Reply(t)
  BY DEF Reset
<1>2. /\ tasks[t] # Idle /\ tasks[t] \in Operations /\ Knows(tasks[t], disk, entry)
      /\ \A u \in Task : u # t => tasks[u] = Idle
  BY <1>1, AtStep DEF Steps
<1>3. CASE Fault /\ UNCHANGED <<disk, entry, known>>
  <2>1. entry.phase = "ok" => Agrees(disk, entry)
    BY <1>1, <1>2, IdleType DEF Inv, EntryInv
  <2> QED
    BY <1>1, <1>2, <1>3, <2>1, HandlerEnds, FaultType, Shapes DEF Inv, EntryInv
<1>4. CASE disk' = Cleared /\ entry' = NoEntry /\ known' = FALSE /\ UNCHANGED faults
  <2>1. /\ disk' \in Disks /\ disk'.row = NoRow /\ DiskSound(disk') /\ Worth(disk'.server) = 0
        /\ entry' \in Entries /\ entry'.phase = "absent"
    BY <1>4, ClearedSound, FreshRecords DEF NoEntry
  <2>2. CommandsStick' /\ known' = (disk'.row # NoRow)
    BY <1>4, <2>1 DEF CommandsStick
  <2>3. Worth(disk'.server) + Len(queue) <= posts /\ ids' + 2 * Len(queue) <= 2 * posts
    <3>1. Worth(disk.server) \in Nat /\ Len(queue) \in Nat /\ posts \in Nat
      BY Shapes, WorthFacts DEF Inv
    <3> QED
      BY <1>1, <2>1, <3>1 DEF Inv, Work
  <2>4. /\ acked' \in [running : BOOLEAN, connected : BOOLEAN] /\ refused' = FALSE
        /\ faults' \in 0 .. MaxFaults /\ ids' \in Nat
    BY <1>1, <1>4, Shapes DEF Inv
  <2>5. Idle \in Operations /\ Becomes(t, Idle) /\ Knows(Idle, disk', entry') /\ Idle.step = "idle"
    BY <1>1, IdleType, IdleKnows DEF Reply
  <2> QED
    BY <1>1, <1>2, <2>1, <2>2, <2>3, <2>4, <2>5, HandlerStep
<1> QED
  BY <1>3, <1>4 DEF Reset

-----------------------------------------------------------------------------
(***************************************************************************)
(* The commands of an entry in use.                                        *)
(***************************************************************************)
\* The row stays; a checkpoint may change, and what the entry keeps of it.
LEMMA WorkingStep ==
    ASSUME Inv, NEW t \in Task, tasks[t].step \in Working,
           NEW op \in Operations, Becomes(t, op), op.step \in Working \ {"host"} \/ op = Idle,
           disk' \in Disks, disk'.row = disk.row, DiskSound(disk'),
           Worth(disk'.server) <= Worth(disk.server),
           entry' \in Entries, entry'.phase = entry.phase, entry'.row = entry.row,
           entry'.device = entry.device,
           op = Idle \/ Knows(op, disk', entry'),
           faults' \in 0 .. MaxFaults, refused' = FALSE,
           UNCHANGED <<known, queue, posts, ids, acked>>
    PROVE  Inv'
<1>1. /\ tasks[t] # Idle /\ Knows(tasks[t], disk, entry)
  BY AtStep DEF Steps, Working
<1>2. Agrees(disk, entry) /\ Agrees(disk', entry')
  BY <1>1 DEF Knows, Agrees
<1>3. Knows(op, disk', entry')
  BY IdleKnows
<1>4. op.step \notin {"row", "server", "device", "host"}
  BY IdleType DEF Working
<1>5. /\ known' = (disk'.row # NoRow) /\ (entry'.phase = "absent" <=> disk'.row = NoRow)
      /\ CommandsStick'
  BY DEF Inv, EntryInv, CommandsStick
<1>6. Worth(disk'.server) + Len(queue) <= posts /\ ids' + 2 * Len(queue) <= 2 * posts
  <2>1. /\ Worth(disk'.server) \in Nat /\ Worth(disk.server) \in Nat
        /\ Len(queue) \in Nat /\ posts \in Nat
    BY Shapes, WorthFacts DEF Inv, Disks
  <2> QED
    BY <2>1 DEF Inv, Work
<1>7. acked' \in [running : BOOLEAN, connected : BOOLEAN] /\ ids' \in Nat
  BY Shapes DEF Inv
<1> QED
  BY <1>1, <1>2, <1>3, <1>4, <1>5, <1>6, <1>7, HandlerStep

\* A handler that ends without a change of what is saved; a store may be
\* marked as failed.
LEMMA WorkingEnds ==
    ASSUME Inv, NEW t \in Task, tasks[t].step \in Working, Reply(t),
           entry' \in Entries, entry'.phase = entry.phase, entry'.row = entry.row,
           entry'.device = entry.device,
           faults' \in 0 .. MaxFaults, refused' = FALSE,
           UNCHANGED <<disk, known, queue, posts, ids, acked>>
    PROVE  Inv'
<1>1. disk' \in Disks /\ DiskSound(disk') /\ Worth(disk'.server) <= Worth(disk.server)
  <2>1. Worth(disk.server) \in Nat
    BY Shapes, WorthFacts DEF Inv
  <2> QED
    BY <2>1, Shapes DEF Inv
<1> QED
  BY <1>1, IdleType, WorkingStep DEF Reply

LEMMA Unrefused == ASSUME Inv PROVE refused = FALSE /\ refused \in BOOLEAN /\ faults \in 0 .. MaxFaults
BY Shapes DEF Inv

LEMMA InvOpenDevice == ASSUME Inv, NEW t \in Task, OpenDevice(t) PROVE Inv'
<1> DEFINE row == [entry.row EXCEPT !.running = TRUE]
           op  == [tasks[t] EXCEPT !.step = "save", !.next = row]
<1>1. tasks[t].step = "open" /\ tasks[t].step \in Working
      /\ UNCHANGED <<disk, entry, known, queue, posts, ids, refused, acked, faults>>
  BY DEF OpenDevice, Working
<1>2. tasks[t] # Idle /\ tasks[t] \in Operations /\ Knows(tasks[t], disk, entry)
  BY <1>1, AtStep DEF Steps
<1>3. Agrees(disk, entry) /\ tasks[t].command = "start" /\ tasks[t].pass = 0
  BY <1>1, <1>2 DEF Knows
<1>4. CASE Reply(t)
  BY <1>1, <1>4, WorkingEnds, Unrefused, Shapes DEF Inv
<1>5. CASE Becomes(t, op)
  <2>1. /\ row \in Row /\ row.phase = "ready" /\ row.serverKey = disk.row.serverKey
        /\ row.running = TRUE /\ row.connected = disk.row.connected
        /\ disk.row.connected \in BOOLEAN
    BY <1>3, Shapes DEF Inv, Agrees, Row
  <2> HIDE DEF row
  <2>2. /\ op \in Operations /\ op.step = "save" /\ op.next = row /\ op.command = "start"
        /\ op.pass = 0
    BY <1>2, <1>3, <2>1 DEF Operations, Steps
  <2> HIDE DEF op
  <2>3. NextRow(op, disk.row)
    BY <2>1, <2>2 DEF NextRow
  <2>4. Knows(op, disk', entry')
    BY <1>1, <1>3, <2>2, <2>3 DEF Knows, Creating
  <2>5. Worth(disk'.server) <= Worth(disk.server) /\ disk' \in Disks /\ DiskSound(disk')
    BY <1>1, Shapes, WorthFacts DEF Inv
  <2>6. op.step \in Working \ {"host"}
    BY <2>2 DEF Working
  <2> QED
    BY <1>1, <1>5, <2>2, <2>4, <2>5, <2>6, WorkingStep, Unrefused, Shapes DEF Inv
<1> QED
  BY <1>4, <1>5 DEF OpenDevice

LEMMA InvSaveRow == ASSUME Inv, NEW t \in Task, SaveRow(t) PROVE Inv'
<1> DEFINE op == tasks[t]
           goes == [op EXCEPT !.step = "exchange"]
<1>1. op.step = "save" /\ op.step \in Working /\ UNCHANGED <<known, queue, posts, ids, refused>>
  BY DEF SaveRow, Working
<1>2. op # Idle /\ op \in Operations /\ Knows(op, disk, entry)
  BY <1>1, AtStep DEF Steps
<1>3. Agrees(disk, entry) /\ NextRow(op, disk.row) /\ op.pass = 0 /\ op.next \in Row
  BY <1>1, <1>2 DEF Knows, Operations
<1>4. CASE Fault /\ Reply(t) /\ UNCHANGED <<disk, entry, acked>>
  BY <1>1, <1>4, WorkingEnds, FaultType, Unrefused, Shapes DEF Inv
<1>5. CASE /\ disk' = [disk EXCEPT !.row = op.next]
           /\ entry' = SavedEntry(op)
           /\ acked' = Asked(op.command)
           /\ IF op.command \in {"connect", "start"} THEN To(t, "exchange") ELSE Reply(t)
           /\ UNCHANGED faults
  <2>1. /\ goes \in Operations /\ goes.step = "exchange" /\ goes.pass = 0
    BY <1>2, <1>3 DEF Operations, Steps
  <2>2. Becomes(t, goes) \/ Becomes(t, Idle)
    BY <1>5 DEF To, Reply
  <2> HIDE DEF op, goes
  <2>3. /\ disk' \in Disks /\ disk'.row = op.next
        /\ disk'.server = disk.server /\ disk'.device = disk.device
    BY <1>3, <1>5, Shapes DEF Inv, Disks
  <2>4. /\ op.command \in {"stop", "quit", "start", "connect", "disconnect"}
        /\ op.next.phase = "ready" /\ op.next.serverKey = disk.row.serverKey
        /\ disk.row.phase = "ready" /\ disk.row # NoRow /\ op.next # NoRow
        /\ disk.row.running \in BOOLEAN /\ disk.row.connected \in BOOLEAN
        /\ entry.device = disk.row.running /\ entry.phase = "ok"
    BY <1>3, Shapes, FreshRecords DEF Inv, NextRow, Agrees, Row
  <2>5. DiskSound(disk')
    BY <2>3, <2>4 DEF Inv, DiskSound, RowSound
  <2>6. entry' \in Entries /\ entry'.phase = "ok" /\ entry'.row = op.next
    BY <1>3, <1>5, <2>4, Shapes DEF Inv, SavedEntry, Entries
  <2>7. entry'.device = op.next.running
    <3>1. entry \in Entries
      BY Shapes DEF Inv
    <3>2. CASE op.command = "start"
      BY <1>3, <1>5, <3>1, <3>2 DEF SavedEntry, NextRow, Entries
    <3>3. CASE op.command \in {"stop", "quit"}
      BY <1>3, <1>5, <3>1, <3>3 DEF SavedEntry, NextRow, Entries
    <3>4. CASE op.command \in {"connect", "disconnect"}
      BY <1>3, <1>5, <2>4, <3>1, <3>4 DEF SavedEntry, NextRow, Entries
    <3> QED
      BY <2>4, <3>2, <3>3, <3>4
  <2>8. Agrees(disk', entry')
    BY <2>3, <2>4, <2>6, <2>7 DEF Agrees
  <2>9. acked' \in [running : BOOLEAN, connected : BOOLEAN] /\ CommandsStick'
    <3>1. /\ acked \in [running : BOOLEAN, connected : BOOLEAN]
          /\ disk.row.running = acked.running /\ disk.row.connected = acked.connected
      BY <2>4, Shapes DEF Inv, CommandsStick
    <3>2. /\ acked' \in [running : BOOLEAN, connected : BOOLEAN]
          /\ acked'.running = op.next.running /\ acked'.connected = op.next.connected
      <4>1. CASE op.command = "start"
        BY <1>3, <1>5, <3>1, <4>1 DEF Asked, NextRow
      <4>2. CASE op.command \in {"stop", "quit"}
        BY <1>3, <1>5, <3>1, <4>2 DEF Asked, NextRow
      <4>3. CASE op.command = "connect"
        BY <1>3, <1>5, <3>1, <4>3 DEF Asked, NextRow
      <4>4. CASE op.command = "disconnect"
        BY <1>3, <1>5, <3>1, <4>4 DEF Asked, NextRow
      <4> QED
        BY <2>4, <4>1, <4>2, <4>3, <4>4
    <3> QED
      BY <2>3, <3>2 DEF CommandsStick
  <2>10. Worth(disk'.server) + Len(queue) <= posts /\ ids' + 2 * Len(queue) <= 2 * posts
    BY <1>1, <2>3 DEF Inv, Work
  <2>11. /\ known' = (disk'.row # NoRow) /\ disk'.row # NoRow /\ entry'.phase # "absent"
         /\ refused' = FALSE /\ faults' \in 0 .. MaxFaults /\ ids' \in Nat
    BY <1>1, <1>5, <2>3, <2>4, <2>6, Shapes DEF Inv, EntryInv
  <2>12. Knows(goes, disk', entry') /\ Knows(Idle, disk', entry')
    BY <2>1, <2>8, IdleKnows DEF Knows, Creating
  <2>13. tasks[t] # Idle /\ Idle \in Operations /\ Idle.step = "idle"
    BY <1>2, IdleType DEF op
  <2> QED
    BY <1>1, <2>1, <2>2, <2>3, <2>5, <2>6, <2>8, <2>9, <2>10, <2>11, <2>12, <2>13, HandlerStep
<1> QED
  BY <1>4, <1>5 DEF SaveRow

\* Every command of the host leaves it a record that goes with the device's.
LEMMA CommandedFacts ==
    ASSUME Inv, NEW op \in Operations, op.command \in ServerCommands,
           Worth(disk.server) + 1 <= MaxPosts, ids + 1 \in Ids,
           disk.server # NoHost, Commanded(op) # NoHost
    PROVE  LET next == Commanded(op)
           IN  /\ next \in Hosts /\ next.id = disk.server.id
               /\ HostSound(next) /\ Pair(next, disk.device)
               /\ Worth(next) <= Worth(disk.server) + 1
<1> DEFINE h == disk.server
           d == disk.device
           Good(next) == /\ next \in Hosts /\ next.id = h.id
                         /\ HostSound(next) /\ Pair(next, d)
                         /\ Worth(next) <= Worth(h) + 1
<1>1. /\ h \in Hosts /\ d \in Devices /\ HostSound(h) /\ Pair(h, d)
      /\ h # NoHost /\ h.id # 0 /\ NoHost.id = 0
  BY Shapes DEF Inv, DiskSound, NoHost, NewHost
<1>2. /\ h.registered \in BOOLEAN /\ h.pending \in BOOLEAN /\ h.receipt \in BOOLEAN
      /\ h.request \in Nat /\ h.request \in Requests /\ h.challenge \in Ids /\ h.candidate \in Ids
      /\ h.id \in Ids /\ h.peer \in Ids
      /\ d.registered \in BOOLEAN /\ d.reply \in BOOLEAN /\ d.claimed \in BOOLEAN
      /\ d.got \in Nat /\ d.key \in Ids /\ d.challenge \in Ids
  BY <1>1, Numbers DEF Hosts, HostRecord, Devices, DeviceRecord
<1>3. op.shown.key \in Ids /\ ids \in Nat
  BY Shapes DEF Operations, Inv
<1> HIDE DEF h, d
<1>4. ASSUME ~h.registered PROVE Good(Begun(h, ids + 1))
  <2> DEFINE n == Begun(h, ids + 1)
  <2>1. /\ n.id = h.id /\ n.registered = h.registered /\ n.challenge = ids + 1 /\ n.candidate = 0
        /\ n.peer = h.peer
        /\ n.request = h.request /\ n.pending = h.pending /\ n.receipt = h.receipt
    BY <1>1 DEF Begun, Hosts, HostRecord
  <2>2. n \in Hosts
    BY <1>1, HostChanges
  <2> HIDE DEF n
  <2>3. HostSound(n) /\ Pair(n, d)
    BY <1>1, <1>2, <1>3, <1>4, <2>1 DEF HostSound, Pair
  <2>4. Worth(n) <= Worth(h) + 1
    BY <1>1, <1>2, <1>3, <1>4, <2>1 DEF Worth
  <2> QED
    BY <2>1, <2>2, <2>3, <2>4 DEF n
<1>5. ASSUME ~h.registered PROVE Good(Cancelled(h))
  <2> DEFINE n == Cancelled(h)
  <2>1. /\ n.id = h.id /\ n.registered = h.registered /\ n.challenge = 0 /\ n.candidate = 0
        /\ n.peer = h.peer
        /\ n.request = h.request /\ n.pending = h.pending /\ n.receipt = h.receipt
    BY <1>1 DEF Cancelled, Hosts, HostRecord
  <2>2. n \in Hosts
    BY <1>1, HostChanges
  <2> HIDE DEF n
  <2>3. HostSound(n) /\ Pair(n, d)
    BY <1>1, <1>2, <1>5, <2>1 DEF HostSound, Pair
  <2>4. Worth(n) <= Worth(h) + 1
    BY <1>1, <1>2, <1>5, <2>1 DEF Worth
  <2> QED
    BY <2>1, <2>2, <2>3, <2>4 DEF n
<1>6. ASSUME h.registered PROVE Good(Requested(h))
  <2> DEFINE n == Requested(h)
  <2>1. /\ n.id = h.id /\ n.registered = h.registered /\ n.challenge = h.challenge
        /\ n.candidate = h.candidate /\ n.peer = h.peer
        /\ n.request = h.request + 1 /\ n.pending = TRUE /\ n.receipt = h.receipt
    BY <1>1 DEF Requested, Hosts, HostRecord
  <2>2. Worth(h) = 3 + h.request
    BY <1>1, <1>6, WorthFacts
  <2>3. h.request + 1 \in Requests
    BY <1>2, <2>2, Numbers DEF h
  <2>4. n \in Hosts
    BY <1>1, <2>3, HostChanges
  <2> HIDE DEF n
  <2>5. HostSound(n) /\ Pair(n, d)
    BY <1>1, <1>2, <1>6, <2>1 DEF HostSound, Pair
  <2>6. Worth(n) <= Worth(h) + 1
    <3>1. n # NoHost
      BY <1>1, <2>1
    <3>2. Worth(n) = 3 + n.request
      BY <1>6, <2>1, <2>4, <2>5, <3>1, WorthFacts
    <3> QED
      BY <1>2, <2>1, <2>2, <3>2
  <2> QED
    BY <2>1, <2>4, <2>5, <2>6 DEF n
<1>7. ASSUME MayApprove(h, op.shown.challenge, op.shown.key) PROVE Good(Approved(h, op.shown.key))
  <2> DEFINE n == Approved(h, op.shown.key)
             k == op.shown.key
  <2>1. /\ n.id = h.id /\ n.registered = TRUE /\ n.challenge = h.challenge
        /\ n.candidate = 0 /\ n.peer = k
        /\ n.request = h.request /\ n.pending = h.pending /\ n.receipt = h.receipt
    BY <1>1 DEF Approved, Hosts, HostRecord
  <2>2. n \in Hosts
    BY <1>1, <1>3, HostChanges
  <2>3. h.challenge # 0 /\ (IF h.registered THEN h.peer = k ELSE h.candidate = k /\ k # 0)
    BY <1>7 DEF MayApprove
  <2> HIDE DEF n, k
  <2>4. HostSound(n)
    BY <1>1, <1>2, <2>1, <2>3 DEF HostSound
  <2>5. Pair(n, d)
    <3>1. CASE h.registered
      BY <1>1, <1>2, <2>1, <2>3, <3>1 DEF Pair
    <3>2. CASE ~h.registered
      BY <1>1, <1>2, <2>1, <2>3, <3>2 DEF Pair
    <3> QED
      BY <3>1, <3>2
  <2>6. Worth(n) <= Worth(h) + 1
    BY <1>1, <1>2, <2>1, <2>3 DEF Worth
  <2> QED
    BY <2>1, <2>2, <2>4, <2>5, <2>6 DEF n
<1> HIDE DEF Good
<1>8. Good(Commanded(op))
  <2>1. CASE op.command = "begin"
    BY <1>4, <2>1 DEF Commanded, h
  <2>2. CASE op.command = "cancel"
    BY <1>5, <2>2 DEF Commanded, h
  <2>3. CASE op.command = "request"
    BY <1>6, <2>3 DEF Commanded, h
  <2>4. CASE op.command = "approve"
    BY <1>7, <2>4 DEF Commanded, h
  <2> QED
    BY <2>1, <2>2, <2>3, <2>4 DEF ServerCommands
<1> QED
  BY <1>8 DEF Good, h, d

LEMMA InvHostCommand == ASSUME Inv, NEW t \in Task, HostCommand(t) PROVE Inv'
<1> DEFINE op == tasks[t]
           goes == [op EXCEPT !.step = "exchange"]
           next == Commanded(op)
<1>1. op.step = "host" /\ op.step \in Working /\ UNCHANGED <<known, queue, posts, refused, acked>>
  BY DEF HostCommand, Working
<1>2. op # Idle /\ op \in Operations /\ Knows(op, disk, entry)
  BY <1>1, AtStep DEF Steps
<1>3. Agrees(disk, entry) /\ op.command \in ServerCommands /\ op.pass = 0
  BY <1>1, <1>2 DEF Knows
<1>4. CASE Reply(t) /\ UNCHANGED <<disk, entry, ids, faults>>
  BY <1>1, <1>4, WorkingEnds, Unrefused, Shapes DEF Inv
<1>5. CASE Fault /\ entry' = [entry EXCEPT !.host_broken = TRUE] /\ Reply(t) /\ UNCHANGED <<disk, ids>>
  <2>1. /\ entry' \in Entries /\ entry'.phase = entry.phase /\ entry'.row = entry.row
        /\ entry'.device = entry.device
    BY <1>5, Shapes DEF Inv, Entries
  <2> QED
    BY <1>1, <1>5, <2>1, WorkingEnds, FaultType, Unrefused
<1>6. CASE /\ next # NoHost /\ ~entry.host_broken
           /\ disk' = [disk EXCEPT !.server = next]
           /\ ids' = IF op.command = "begin" THEN ids + 1 ELSE ids
           /\ entry' = [entry EXCEPT !.due = @ \/ op.command = "approve"]
           /\ IF op.command = "cancel" THEN Reply(t) ELSE To(t, "exchange")
           /\ UNCHANGED faults
  <2>1. /\ goes \in Operations /\ goes.step = "exchange" /\ goes.pass = 0
    BY <1>2, <1>3 DEF Operations, Steps
  <2>2. Becomes(t, goes) \/ Becomes(t, Idle)
    BY <1>6 DEF To, Reply
  <2>3. /\ ids \in Nat /\ Len(queue) \in Nat /\ posts \in Nat /\ posts <= MaxPosts
        /\ Worth(disk.server) \in Nat
        /\ Worth(disk.server) + Len(queue) + 1 <= posts /\ ids + 2 * Len(queue) + 1 <= 2 * posts
    BY <1>1, Shapes, Numbers, WorthFacts DEF Inv, Work
  <2>4. disk.server # NoHost /\ disk.server.id # 0 /\ disk.row # NoRow
    BY <1>3, FreshRecords DEF Inv, DiskSound, RowSound, Agrees
  <2>5. /\ next \in Hosts /\ next.id = disk.server.id
        /\ HostSound(next) /\ Pair(next, disk.device)
        /\ Worth(next) <= Worth(disk.server) + 1
    <3>1. Worth(disk.server) + 1 <= MaxPosts /\ ids + 1 \in Ids
      BY <2>3, Numbers
    <3> QED
      BY <1>2, <1>3, <1>6, <2>4, <3>1, CommandedFacts
  <2> HIDE DEF op, goes, next
  <2>6. /\ disk' \in Disks /\ disk'.row = disk.row
        /\ disk'.server = next /\ disk'.device = disk.device
    BY <1>6, <2>5, Shapes DEF Inv, Disks
  <2>7. DiskSound(disk')
    BY <1>6, <2>4, <2>5, <2>6 DEF Inv, DiskSound, RowSound
  <2>8. /\ entry' \in Entries /\ entry'.phase = entry.phase /\ entry'.row = entry.row
        /\ entry'.device = entry.device
    BY <1>6, Shapes DEF Inv, Entries
  <2>9. Agrees(disk', entry') /\ entry'.phase # "absent"
    BY <1>3, <2>6, <2>8 DEF Agrees
  <2>10. CommandsStick' /\ known' = (disk'.row # NoRow) /\ disk'.row # NoRow
    BY <1>1, <2>4, <2>6 DEF Inv, CommandsStick, EntryInv
  <2>11. /\ Worth(disk'.server) + Len(queue) <= posts /\ ids' + 2 * Len(queue) <= 2 * posts
         /\ ids' \in Nat
    <3>1. Worth(next) \in Nat
      BY <2>5, WorthFacts
    <3> QED
      BY <1>6, <2>3, <2>5, <2>6, <3>1
  <2>12. /\ refused' = FALSE /\ faults' \in 0 .. MaxFaults
         /\ acked' \in [running : BOOLEAN, connected : BOOLEAN]
    BY <1>1, <1>6, Shapes DEF Inv
  <2>13. Knows(goes, disk', entry') /\ Knows(Idle, disk', entry')
    BY <2>1, <2>9, IdleKnows DEF Knows, Creating
  <2>14. tasks[t] # Idle /\ Idle \in Operations /\ Idle.step = "idle"
    BY <1>2, IdleType DEF op
  <2> QED
    BY <1>1, <2>1, <2>2, <2>6, <2>7, <2>8, <2>9, <2>10, <2>11, <2>12, <2>13, <2>14, HandlerStep
<1> QED
  BY <1>4, <1>5, <1>6 DEF HostCommand

-----------------------------------------------------------------------------
(***************************************************************************)
(* The exchange.                                                           *)
(***************************************************************************)
\* The parts of what is saved, field by field.
LEMMA Fields ==
    ASSUME Inv
    PROVE  LET h == disk.server
               d == disk.device
           IN  /\ h \in Hosts /\ d \in Devices /\ HostSound(h) /\ Pair(h, d)
               /\ h.registered \in BOOLEAN /\ h.pending \in BOOLEAN /\ h.receipt \in BOOLEAN
               /\ h.request \in Nat /\ h.request \in Requests
               /\ h.id \in Ids /\ h.peer \in Ids /\ h.challenge \in Ids /\ h.candidate \in Ids
               /\ d.registered \in BOOLEAN /\ d.reply \in BOOLEAN /\ d.claimed \in BOOLEAN
               /\ d.got \in Nat /\ d.got \in Requests
               /\ d.key \in Ids /\ d.server \in Ids /\ d.challenge \in Ids
               /\ entry \in Entries /\ entry.due \in BOOLEAN
               /\ entry.host_broken \in BOOLEAN /\ entry.device_broken \in BOOLEAN
BY Shapes, Numbers DEF Inv, DiskSound, Hosts, HostRecord, Devices, DeviceRecord, Entries

\* A round begins; nothing that is saved changes.
LEMMA RoundKeeps ==
    ASSUME Inv, NEW t \in Task, tasks[t].step \in {"exchange", "settle"},
           NEW stage \in {"enroll", "confirm", "loop"}, NEW route \in {DownUp, UpDown},
           NEW pass \in 0 .. MaxPasses,
           Becomes(t, [tasks[t] EXCEPT !.step = "send", !.stage = stage, !.route = route,
                                       !.moved = FALSE, !.pass = pass]),
           InStage([stage |-> stage, pass |-> pass], disk.server, disk.device),
           stage = "enroll" => route = DownUp,
           stage = "confirm" => route = UpDown /\ ~disk.device.registered,
           stage = "loop" =>
              /\ route = DownUp
              /\ PassStarts([pass |-> pass, moved |-> FALSE], disk.server, disk.device, entry.due),
           UNCHANGED <<disk, entry, known, queue, posts, ids, refused, acked, faults>>
    PROVE  Inv'
<1> DEFINE op == [tasks[t] EXCEPT !.step = "send", !.stage = stage, !.route = route,
                                  !.moved = FALSE, !.pass = pass]
<1>1. tasks[t] # Idle /\ tasks[t] \in Operations /\ Knows(tasks[t], disk, entry)
  BY AtStep DEF Steps
<1>2. tasks[t].step \in Working /\ Agrees(disk, entry)
  BY <1>1 DEF Knows, Working
<1>3. op \in Operations /\ op.step = "send" /\ op.stage = stage /\ op.route = route
      /\ op.moved = FALSE /\ op.pass = pass
  BY <1>1, RouteFacts DEF Operations, Steps
<1>4. Becomes(t, op)
  OBVIOUS
<1> HIDE DEF op
<1>5. InStage(op, disk.server, disk.device)
  BY <1>3 DEF InStage
<1>6. AtSend(op, disk.server, disk.device, entry.due)
  BY <1>3 DEF AtSend, PassStarts
<1>7. Knows(op, disk', entry')
  BY <1>2, <1>3, <1>5, <1>6 DEF Knows, Creating
<1>8. Worth(disk'.server) <= Worth(disk.server) /\ disk' \in Disks /\ DiskSound(disk')
  BY Shapes, WorthFacts DEF Inv
<1>9. op.step \in Working \ {"host"}
  BY <1>3 DEF Working
<1> QED
  BY <1>2, <1>3, <1>4, <1>7, <1>8, <1>9, WorkingStep, Unrefused, Shapes DEF Inv

LEMMA InvExchange == ASSUME Inv, NEW t \in Task, Exchange(t) PROVE Inv'
<1> DEFINE h == disk.server
           d == disk.device
<1>1. tasks[t].step = "exchange" /\ tasks[t].step \in Working
      /\ UNCHANGED <<disk, entry, known, queue, posts, ids, refused, acked, faults>>
  BY DEF Exchange, Working
<1>2. tasks[t] # Idle /\ tasks[t] \in Operations /\ Knows(tasks[t], disk, entry)
  BY <1>1, AtStep DEF Steps
<1>3. Agrees(disk, entry) /\ tasks[t].pass = 0
  BY <1>1, <1>2 DEF Knows, Working
<1>4. CASE Reply(t)
  BY <1>1, <1>4, WorkingEnds, Unrefused, Shapes DEF Inv
<1>5. ASSUME NEW stage \in {"enroll", "confirm", "loop"}, NEW route \in {DownUp, UpDown},
             Round(t, stage, route),
             stage = "enroll"  => ~h.registered /\ h.challenge # 0 /\ route = DownUp,
             stage = "confirm" => h.registered /\ ~d.registered /\ route = UpDown,
             stage = "loop"    => h.registered /\ d.registered /\ route = DownUp
      PROVE  Inv'
  <2>1. [tasks[t] EXCEPT !.step = "send", !.stage = stage, !.route = route, !.moved = FALSE]
        = [tasks[t] EXCEPT !.step = "send", !.stage = stage, !.route = route,
                           !.moved = FALSE, !.pass = 0]
    BY <1>2, <1>3 DEF Operations
  <2>2. InStage([stage |-> stage, pass |-> 0], h, d)
    BY <1>5 DEF InStage
  <2>3. PassStarts([pass |-> 0, moved |-> FALSE], h, d, entry.due)
    BY DEF PassStarts
  <2>4. 0 \in 0 .. MaxPasses
    BY Numbers
  <2> QED
    BY <1>1, <1>5, <2>1, <2>2, <2>3, <2>4, RoundKeeps DEF Round
<1>6. CASE FirstRound(t)
  <2>1. h.registered \in BOOLEAN /\ d.registered \in BOOLEAN
    BY Fields
  <2>2. \/ Reply(t)
        \/ ~h.registered /\ h.challenge # 0 /\ Round(t, "enroll", DownUp)
        \/ h.registered /\ ~d.registered /\ Round(t, "confirm", UpDown)
        \/ h.registered /\ d.registered /\ Round(t, "loop", DownUp)
    BY <1>6, <2>1 DEF FirstRound, DownUp, UpDown
  <2> HIDE DEF h, d
  <2> QED
    BY <1>4, <1>5, <2>2
<1> QED
  BY <1>4, <1>6 DEF Exchange

LEMMA InvSettle == ASSUME Inv, NEW t \in Task, Settle(t) PROVE Inv'
<1> DEFINE op == tasks[t]
           h == disk.server
           d == disk.device
<1>1. op.step = "settle" /\ op.step \in Working
      /\ UNCHANGED <<disk, entry, known, queue, posts, ids, refused, acked, faults>>
  BY DEF Settle, Working
<1>2. op # Idle /\ op \in Operations /\ Knows(op, disk, entry)
  BY <1>1, AtStep DEF Steps
<1>3. /\ InStage(op, h, d) /\ (op.stage = "loop" => PassOver(op, h, d, entry.due))
      /\ op.pass \in 0 .. MaxPasses
  BY <1>1, <1>2 DEF Knows, Operations
<1>4. /\ h.registered \in BOOLEAN /\ d.registered \in BOOLEAN /\ d.reply \in BOOLEAN
      /\ h.pending \in BOOLEAN /\ h.receipt \in BOOLEAN /\ entry.due \in BOOLEAN
      /\ (d.registered => h.registered)
  BY Fields DEF Pair
<1>5. CASE Reply(t)
  BY <1>1, <1>5, WorkingEnds, Unrefused, Shapes DEF Inv
<1>6. CASE op.stage = "confirm" /\ d.registered /\ Round(t, "loop", DownUp)
  <2>1. op.pass = 0
    BY <1>3, <1>6 DEF InStage
  <2>2. [op EXCEPT !.step = "send", !.stage = "loop", !.route = DownUp, !.moved = FALSE]
        = [op EXCEPT !.step = "send", !.stage = "loop", !.route = DownUp,
                     !.moved = FALSE, !.pass = 0]
    BY <1>2, <2>1 DEF Operations
  <2>3. /\ InStage([stage |-> "loop", pass |-> 0], h, d)
        /\ PassStarts([pass |-> 0, moved |-> FALSE], h, d, entry.due)
    BY <1>4, <1>6 DEF InStage, PassStarts
  <2>4. 0 \in 0 .. MaxPasses
    BY Numbers
  <2> QED
    BY <1>1, <1>6, <2>2, <2>3, <2>4, RoundKeeps DEF Round
<1>7. CASE /\ op.stage = "loop" /\ op.moved
           /\ Becomes(t, [op EXCEPT !.step = "send", !.route = DownUp, !.moved = FALSE,
                                    !.pass = IF op.pass < MaxPasses THEN @ + 1 ELSE @])
  <2> DEFINE pass == IF op.pass < MaxPasses THEN op.pass + 1 ELSE op.pass
  <2>1. pass \in 0 .. MaxPasses /\ pass <= op.pass + 1 /\ op.pass \in Nat
    BY <1>3, Numbers
  <2>2. [op EXCEPT !.step = "send", !.route = DownUp, !.moved = FALSE,
                   !.pass = IF op.pass < MaxPasses THEN @ + 1 ELSE @]
        = [op EXCEPT !.step = "send", !.stage = "loop", !.route = DownUp, !.moved = FALSE, !.pass = pass]
    BY <1>2, <1>7 DEF Operations
  <2> HIDE DEF pass, op, h, d
  <2>3. op.pass <= 2 /\ h.registered /\ d.registered
    BY <1>3, <1>7, <2>1 DEF PassOver, InStage
  <2>4. InStage([stage |-> "loop", pass |-> pass], h, d)
    BY <1>4, <2>1, <2>3 DEF InStage
  <2>5. PassStarts([pass |-> pass, moved |-> FALSE], h, d, entry.due)
    BY <1>3, <1>4, <1>7, <2>1, <2>3 DEF PassStarts, PassOver
  <2> QED
    BY <1>1, <1>7, <2>1, <2>2, <2>4, <2>5, RoundKeeps DEF op, h, d
<1>8. \/ Reply(t)
      \/ op.stage = "confirm" /\ d.registered /\ Round(t, "loop", DownUp)
      \/ /\ op.stage = "loop" /\ op.moved
         /\ Becomes(t, [op EXCEPT !.step = "send", !.route = DownUp, !.moved = FALSE,
                                  !.pass = IF op.pass < MaxPasses THEN @ + 1 ELSE @])
  <2>1. op.stage \in {"enroll", "confirm", "loop"} /\ op.moved \in BOOLEAN
    BY <1>2, <1>3 DEF InStage, Operations
  <2>2. CASE op.stage = "enroll"
    BY <2>2 DEF Settle
  <2>3. CASE op.stage = "confirm"
    BY <2>3 DEF Settle, DownUp
  <2>4. CASE op.stage = "loop"
    BY <2>1, <2>4 DEF Settle, DownUp, GoesOn
  <2> QED
    BY <2>1, <2>2, <2>3, <2>4
<1> QED
  BY <1>5, <1>6, <1>7, <1>8

\* What is recorded before a frame leaves, field by field.
LEMMA HostSentFacts ==
    ASSUME NEW h \in Hosts, NEW d \in Devices, NEW due \in BOOLEAN, HostSound(h), Pair(h, d)
    PROVE  LET n == HostSent(h, due)
           IN  /\ n \in Hosts /\ HostSound(n) /\ Pair(n, d) /\ n.id = h.id /\ n.peer = h.peer
               /\ n.registered = h.registered /\ n.challenge = h.challenge
               /\ n.candidate = h.candidate /\ n.request = h.request /\ n.pending = h.pending
               /\ HostFrame(h, due).kind = "receipt" => ~n.receipt
               /\ HostFrame(h, due).kind # "receipt" => n = h
<1> DEFINE n == HostSent(h, due)
<1>1. n \in Hosts
  BY HostChanges
<1>2. /\ n.id = h.id /\ n.peer = h.peer
      /\ n.registered = h.registered /\ n.challenge = h.challenge
      /\ n.candidate = h.candidate /\ n.request = h.request /\ n.pending = h.pending
      /\ n.receipt => h.receipt
      /\ HostFrame(h, due).kind = "receipt" => ~n.receipt
      /\ HostFrame(h, due).kind # "receipt" => n = h
  BY DEF HostSent, Hosts, HostRecord
<1> HIDE DEF n
<1>3. HostSound(n) /\ Pair(n, d)
  BY <1>2 DEF HostSound, Pair
<1> QED
  BY <1>1, <1>2, <1>3 DEF n

LEMMA DeviceSentFacts ==
    ASSUME NEW h \in Hosts, NEW d \in Devices, Pair(h, d)
    PROVE  LET m == DeviceSent(d)
           IN  /\ m \in Devices /\ Pair(h, m)
               /\ m.key = d.key /\ m.server = d.server /\ m.challenge = d.challenge
               /\ m.registered = d.registered /\ m.got = d.got /\ m.reply = d.reply
               /\ DeviceFrame(d) # Nothing => m.claimed
               /\ DeviceFrame(d) = Nothing => m = d
<1> DEFINE m == DeviceSent(d)
<1>1. m \in Devices
  BY DeviceChanges
<1>2. /\ m.key = d.key /\ m.server = d.server /\ m.challenge = d.challenge
      /\ m.registered = d.registered /\ m.got = d.got /\ m.reply = d.reply
      /\ DeviceFrame(d) # Nothing => m.claimed
      /\ DeviceFrame(d) = Nothing => m = d
      /\ d.claimed => m.claimed
  BY DEF DeviceSent, Devices, DeviceRecord
<1> HIDE DEF m
<1>3. Pair(h, m)
  BY <1>2 DEF Pair
<1> QED
  BY <1>1, <1>2, <1>3 DEF m

\* The record of a handler whose delivery is over.
LEMMA OverType ==
    ASSUME NEW op \in Operations, NEW moved \in BOOLEAN,
           op.route \in {DownUp, UpDown, <<"down">>, <<"up">>}
    PROVE  LET next == [op EXCEPT !.route = Tail(@), !.moved = @ \/ moved,
                                  !.step = IF Len(op.route) = 1 THEN "settle" ELSE "send"]
           IN  /\ next \in Operations
               /\ next.step = IF op.route \in {DownUp, UpDown} THEN "send" ELSE "settle"
               /\ next.moved <=> op.moved \/ moved
               /\ next.stage = op.stage /\ next.pass = op.pass
               /\ op.route = DownUp => next.route = <<"up">>
               /\ op.route = UpDown => next.route = <<"down">>
<1> DEFINE route == Tail(op.route)
           goes  == op.moved \/ moved
           step  == IF Len(op.route) = 1 THEN "settle" ELSE "send"
           next  == [op EXCEPT !.route = route, !.moved = goes, !.step = step]
<1>1. route \in Routes
  BY RouteFacts
<1>2. goes \in BOOLEAN
  <2>1. op.moved \in BOOLEAN
    BY DEF Operations
  <2>2. CASE op.moved
    BY <2>2
  <2>3. CASE ~op.moved
    BY <2>3
  <2> QED
    BY <2>2, <2>3
<1>3. /\ step \in Steps
      /\ step = IF op.route \in {DownUp, UpDown} THEN "send" ELSE "settle"
  <2>1. CASE op.route \in {DownUp, UpDown}
    <3>1. Len(op.route) = 2
      BY <2>1, RouteFacts
    <3> QED
      BY <2>1, <3>1 DEF Steps
  <2>2. CASE op.route \in {<<"down">>, <<"up">>}
    <3>1. Len(op.route) = 1
      BY <2>2, RouteFacts
    <3>2. Len(DownUp) = 2 /\ Len(UpDown) = 2
      BY RouteFacts
    <3>3. op.route \notin {DownUp, UpDown}
      BY <3>1, <3>2
    <3> QED
      BY <3>1, <3>3 DEF Steps
  <2> QED
    BY <2>1, <2>2
<1>4. /\ op.route = DownUp => route = <<"up">>
      /\ op.route = UpDown => route = <<"down">>
  BY RouteFacts
<1>5. goes <=> op.moved \/ moved
  OBVIOUS
<1> HIDE DEF step, goes, route
<1>6. /\ next \in Operations /\ next.step = step /\ next.moved = goes
      /\ next.stage = op.stage /\ next.pass = op.pass /\ next.route = route
  BY <1>1, <1>2, <1>3 DEF Operations
<1> HIDE DEF next
<1>7. /\ next \in Operations
      /\ next.step = IF op.route \in {DownUp, UpDown} THEN "send" ELSE "settle"
      /\ next.moved <=> op.moved \/ moved
      /\ next.stage = op.stage /\ next.pass = op.pass
      /\ op.route = DownUp => next.route = <<"up">>
      /\ op.route = UpDown => next.route = <<"down">>
  BY <1>3, <1>4, <1>5, <1>6
<1> QED
  BY <1>7 DEF next, step, goes, route

LEMMA InvSend == ASSUME Inv, NEW t \in Task, Send(t) PROVE Inv'
<1> DEFINE op == tasks[t]
           h == disk.server
           d == disk.device
           due == entry.due
           f == IF Down(t) THEN HostFrame(h, due) ELSE DeviceFrame(d)
           over == [op EXCEPT !.route = Tail(@), !.moved = @ \/ FALSE,
                              !.step = IF Len(op.route) = 1 THEN "settle" ELSE "send"]
           handed == [op EXCEPT !.step = "receive", !.frame = f]
<1>1. op.step = "send" /\ op.step \in Working /\ UNCHANGED <<known, queue, posts, ids, refused, acked>>
  BY DEF Send, Working
<1>2. op # Idle /\ op \in Operations /\ Knows(op, disk, entry)
  BY <1>1, AtStep DEF Steps
<1>3. /\ Agrees(disk, entry) /\ InStage(op, h, d) /\ AtSend(op, h, d, due)
      /\ op.pass \in Nat /\ op.moved \in BOOLEAN
  BY <1>1, <1>2, Numbers DEF Knows, Operations
<1>4. CASE Reply(t) /\ UNCHANGED <<disk, entry, faults>>
  BY <1>1, <1>4, WorkingEnds, Unrefused, Shapes DEF Inv
<1>5. CASE Fault /\ Break(Down(t)) /\ Reply(t) /\ UNCHANGED disk
  <2>1. /\ entry' \in Entries /\ entry'.phase = entry.phase /\ entry'.row = entry.row
        /\ entry'.device = entry.device
    BY <1>5, Shapes DEF Inv, Entries, Break
  <2> QED
    BY <1>1, <1>5, <2>1, WorkingEnds, FaultType, Unrefused
<1>6. CASE /\ disk' = IF Down(t) THEN [disk EXCEPT !.server = HostSent(@, entry.due)]
                      ELSE [disk EXCEPT !.device = DeviceSent(@)]
           /\ entry' = [entry EXCEPT !.due = @ /\ ~Down(t)]
           /\ IF f = Nothing THEN Delivered(t, FALSE)
              ELSE Becomes(t, [tasks[t] EXCEPT !.step = "receive", !.frame = f])
           /\ UNCHANGED faults
  <2>1. /\ h \in Hosts /\ d \in Devices /\ due \in BOOLEAN /\ HostSound(h) /\ Pair(h, d)
        /\ h.registered \in BOOLEAN /\ h.pending \in BOOLEAN /\ h.receipt \in BOOLEAN
        /\ h.request \in Nat /\ d.registered \in BOOLEAN /\ d.reply \in BOOLEAN
        /\ entry \in Entries
    BY Fields
  <2>2. /\ disk.row.phase = "ready" /\ h # NoHost /\ h.id # 0 /\ d # NoDevice /\ d.key # 0
        /\ h.id = disk.row.serverKey /\ disk.row # NoRow /\ d.server = h.id
        /\ NoHost.id = 0 /\ NoDevice.key = 0
    BY <1>3, FreshRecords DEF Inv, DiskSound, RowSound, Agrees, NoHost, NewHost, NoDevice, NewDevice
  <2>3. /\ \/ op.stage = "enroll" /\ op.route \in {DownUp, <<"up">>}
           \/ op.stage = "confirm" /\ op.route \in {UpDown, <<"down">>}
           \/ op.stage = "loop" /\ op.route \in {DownUp, <<"up">>}
        /\ Down(t) <=> op.route \in {DownUp, <<"down">>}
        /\ op.route \in {DownUp, UpDown, <<"down">>, <<"up">>}
    <3>1. \/ op.stage = "enroll" /\ op.route \in {DownUp, <<"up">>}
          \/ op.stage = "confirm" /\ op.route \in {UpDown, <<"down">>}
          \/ op.stage = "loop" /\ op.route \in {DownUp, <<"up">>}
      BY <1>3 DEF InStage, AtSend
    <3>2. Down(t) <=> op.route \in {DownUp, <<"down">>}
      BY <3>1, RouteFacts DEF Down
    <3> QED
      BY <3>1, <3>2
  <2>4. /\ entry' \in Entries /\ entry'.phase = entry.phase /\ entry'.row = entry.row
        /\ entry'.device = entry.device /\ entry'.due = (due /\ ~Down(t))
    BY <1>6, <2>1 DEF Entries
  <2>5. /\ disk' \in Disks /\ disk'.row = disk.row
        /\ Down(t) => disk'.server = HostSent(h, due) /\ disk'.device = d
        /\ ~Down(t) => disk'.server = h /\ disk'.device = DeviceSent(d)
    BY <1>6, <2>1, HostChanges, DeviceChanges, Shapes DEF Inv, Disks
  <2>6. HostFrame(h, due) \in Frames /\ DeviceFrame(d) \in Frames
    BY <2>1, HostFrameFacts, DeviceFrameFacts
  <2>7. handed \in Operations /\ handed.step = "receive" /\ handed.frame = f
        /\ handed.stage = op.stage /\ handed.route = op.route /\ handed.pass = op.pass
        /\ handed.moved = op.moved
    BY <1>2, <2>6 DEF Operations, Steps
  <2>8. /\ over \in Operations /\ over.step = IF op.route \in {DownUp, UpDown} THEN "send" ELSE "settle"
        /\ over.moved <=> op.moved
        /\ over.stage = op.stage /\ over.pass = op.pass
        /\ op.route = DownUp => over.route = <<"up">>
    BY <1>2, <1>3, <2>3, OverType
  <2>9. Becomes(t, IF f = Nothing THEN over ELSE handed)
    BY <1>6 DEF Delivered
  <2> DEFINE n == HostSent(h, due)
             m == DeviceSent(d)
  <2>14. /\ n \in Hosts /\ HostSound(n) /\ Pair(n, d) /\ n.id = h.id /\ n.peer = h.peer
         /\ n.registered = h.registered /\ n.challenge = h.challenge
         /\ n.candidate = h.candidate /\ n.request = h.request /\ n.pending = h.pending
         /\ HostFrame(h, due).kind = "receipt" => ~n.receipt
         /\ HostFrame(h, due).kind # "receipt" => n = h
    BY <2>1, HostSentFacts
  <2>15. /\ m \in Devices /\ Pair(h, m)
         /\ m.key = d.key /\ m.server = d.server /\ m.challenge = d.challenge
         /\ m.registered = d.registered /\ m.got = d.got /\ m.reply = d.reply
         /\ DeviceFrame(d) # Nothing => m.claimed
         /\ DeviceFrame(d) = Nothing => m = d
    BY <2>1, DeviceSentFacts
  <2>10. DiskSound(disk') /\ Worth(disk'.server) <= Worth(disk.server)
    <3>1. CASE Down(t)
      <4>1. /\ n.id = h.id /\ n # NoHost /\ HostSound(n) /\ Pair(n, d) /\ n \in Hosts
            /\ n.registered = h.registered /\ n.challenge = h.challenge /\ n.request = h.request
        BY <2>2, <2>14
      <4>2. Worth(n) <= Worth(h)
        <5>1. Worth(h) \in Nat
          BY <2>1, WorthFacts
        <5> QED
          BY <2>2, <4>1, <5>1 DEF Worth
      <4>3. disk'.server = n /\ disk'.device = d /\ disk'.row = disk.row
        BY <2>5, <3>1
      <4> HIDE DEF n, h, d
      <4>4. RowSound(disk')
        BY <2>2, <4>1, <4>3 DEF RowSound
      <4> QED
        BY <2>2, <4>1, <4>2, <4>3, <4>4 DEF DiskSound, h
    <3>2. CASE ~Down(t)
      <4>1. Pair(h, m) /\ m.key = d.key /\ m.server = d.server /\ m # NoDevice
        BY <2>2, <2>15
      <4>2. Worth(h) \in Nat
        BY <2>1, WorthFacts
      <4>3. disk'.server = h /\ disk'.device = m /\ disk'.row = disk.row
        BY <2>5, <3>2
      <4> HIDE DEF m, h, d
      <4>4. RowSound(disk')
        BY <2>2, <4>1, <4>3 DEF RowSound
      <4> QED
        BY <2>1, <2>2, <4>1, <4>2, <4>3, <4>4 DEF DiskSound, h
    <3> QED
      BY <3>1, <3>2
  <2>11. Agrees(disk', entry') /\ InStage(op, disk'.server, disk'.device)
    <3>1. /\ n.registered = h.registered /\ n.challenge = h.challenge
          /\ m.registered = d.registered
      BY <2>14, <2>15
    <3>2. /\ disk'.server.registered = h.registered /\ disk'.server.challenge = h.challenge
          /\ disk'.device.registered = d.registered
      BY <2>5, <3>1
    <3> QED
      BY <1>3, <2>4, <2>5, <3>2 DEF Agrees, InStage
  <2>12. CASE f # Nothing
    <3>1. CASE Down(t)
      <4>1. AtDevice(handed, n, d, FALSE)
        <5>1. /\ f.kind \in DownKinds
              /\ f.from = h.id /\ f.to = h.peer /\ f.challenge = h.challenge /\ f.id = h.request
              /\ f.kind = "invitation"   <=> ~h.registered /\ h.challenge # 0
              /\ f.kind = "confirmation" <=> h.registered /\ due
              /\ f.kind = "request"      <=> h.registered /\ ~due /\ h.pending
              /\ f.kind = "receipt"      <=> h.registered /\ ~due /\ ~h.pending /\ h.receipt
          BY <2>1, <2>12, <3>1, HostFrameFacts
        <5>2. /\ n.id = h.id /\ n.peer = h.peer
              /\ n.challenge = h.challenge /\ n.request = h.request /\ n.pending = h.pending
              /\ f.kind = "receipt" => ~n.receipt
          BY <2>14, <3>1
        <5>3. op.route \in {DownUp, <<"down">>}
          BY <2>3, <3>1
        <5> HIDE DEF f, n, handed, op, h, d, due
        <5>4. op.stage = "enroll" => handed.route = DownUp /\ f.kind = "invitation"
          BY <1>3, <2>3, <2>7, <5>1, <5>3, RouteFacts DEF InStage
        <5>5. op.stage = "confirm" => handed.route = <<"down">> /\ f.kind = "confirmation"
          BY <1>3, <2>3, <2>7, <5>1, <5>3, RouteFacts DEF InStage, AtSend
        <5>6. op.stage = "loop" =>
                 /\ handed.route = DownUp
                 /\ f.kind # "invitation"
                 /\ f.kind = "confirmation" => op.pass = 0
                 /\ f.kind = "request" => h.pending /\ op.pass < 2
                 /\ f.kind = "receipt" => ~h.pending /\ 0 < h.request /\ op.pass < 3
          <6> SUFFICES ASSUME op.stage = "loop"
                       PROVE  /\ handed.route = DownUp
                              /\ f.kind # "invitation"
                              /\ f.kind = "confirmation" => op.pass = 0
                              /\ f.kind = "request" => h.pending /\ op.pass < 2
                              /\ f.kind = "receipt" => ~h.pending /\ 0 < h.request /\ op.pass < 3
            OBVIOUS
          <6>1. op.route = DownUp /\ h.registered
            BY <1>3, <2>3, <5>3, RouteFacts DEF InStage
          <6>2. PassStarts(op, h, d, due)
            BY <1>3, <6>1, RouteFacts DEF AtSend
          <6> QED
            BY <1>3, <2>1, <2>7, <5>1, <6>1, <6>2 DEF PassStarts, Quiet, HostSound
        <5> QED
          BY <2>7, <5>1, <5>2, <5>4, <5>5, <5>6 DEF AtDevice
      <4>2. Knows(handed, disk', entry')
        <5>1. entry'.due = FALSE /\ disk'.server = n /\ disk'.device = d
          BY <2>4, <2>5, <3>1
        <5> HIDE DEF handed, n, d
        <5>2. InStage(handed, disk'.server, disk'.device)
          BY <2>7, <2>11 DEF InStage
        <5> QED
          BY <2>7, <2>11, <4>1, <5>1, <5>2 DEF Knows, Creating
      <4> QED
        BY <1>1, <1>6, <2>4, <2>5, <2>7, <2>9, <2>10, <2>12, <4>2, WorkingStep, Unrefused DEF Working
    <3>2. CASE ~Down(t)
      <4>1. AtHost(handed, h, m, due)
        <5>1. /\ f.from = d.key /\ f.to = d.server /\ f.challenge = d.challenge /\ f.id = d.got
              /\ f.kind = "claim"  <=> ~d.registered /\ d.challenge # 0
              /\ f.kind = "report" <=> d.registered /\ d.reply
              /\ f.kind \in {"claim", "report"}
          BY <2>1, <2>12, <3>2, DeviceFrameFacts DEF UpKinds
        <5>2. /\ m.key = d.key /\ m.server = d.server /\ m.challenge = d.challenge
              /\ m.registered = d.registered /\ m.got = d.got /\ m.reply = d.reply /\ m.claimed
          BY <2>12, <2>15, <3>2
        <5>3. op.route \in {UpDown, <<"up">>}
          BY <2>3, <3>2
        <5> HIDE DEF f, m, handed, op, h, d, due
        <5>4. d.challenge # 0
          BY <2>1, <5>1 DEF Pair, HostSound
        <5>5. op.stage = "enroll" =>
                 handed.route = <<"up">> /\ f.kind = "claim" /\ d.challenge = h.challenge
          BY <1>3, <2>1, <2>3, <2>7, <5>1, <5>3, RouteFacts DEF InStage, AtSend, Pair
        <5>6. op.stage = "confirm" => handed.route = UpDown /\ f.kind = "claim" /\ ~d.registered
          BY <1>3, <2>3, <2>7, <5>1, <5>3, RouteFacts DEF InStage, AtSend
        <5>7. op.stage = "loop" =>
                 /\ handed.route = <<"up">> /\ f.kind = "report" /\ d.reply /\ ~due
                 /\ 0 < op.pass => h.pending /\ d.got = h.request /\ op.pass < 2
          <6> SUFFICES ASSUME op.stage = "loop"
                       PROVE  /\ handed.route = <<"up">> /\ f.kind = "report" /\ d.reply /\ ~due
                              /\ 0 < op.pass => h.pending /\ d.got = h.request /\ op.pass < 2
            OBVIOUS
          <6>1. op.route = <<"up">> /\ d.registered
            BY <1>3, <2>3, <5>3, RouteFacts DEF InStage
          <6>2. PassHalf(op, h, d, due)
            BY <1>3, <6>1, RouteFacts DEF AtSend
          <6> QED
            BY <1>3, <2>1, <2>7, <5>1, <6>1, <6>2 DEF PassHalf, Quiet
        <5> QED
          BY <2>7, <5>1, <5>2, <5>4, <5>5, <5>6, <5>7 DEF AtHost
      <4>2. Knows(handed, disk', entry')
        <5>1. entry'.due = due /\ disk'.server = h /\ disk'.device = m
          BY <2>1, <2>4, <2>5, <3>2
        <5> HIDE DEF handed, m, h, due
        <5>2. InStage(handed, disk'.server, disk'.device)
          BY <2>7, <2>11 DEF InStage
        <5> QED
          BY <2>7, <2>11, <4>1, <5>1, <5>2 DEF Knows, Creating
      <4> QED
        BY <1>1, <1>6, <2>4, <2>5, <2>7, <2>9, <2>10, <2>12, <4>2, WorkingStep, Unrefused DEF Working
    <3> QED
      BY <3>1, <3>2
  <2>13. CASE f = Nothing
    <3>1. op.stage = "loop"
      <4>1. CASE Down(t)
        <5>1. /\ ~(~h.registered /\ h.challenge # 0) /\ ~(h.registered /\ due)
          BY <2>1, <2>13, <4>1, HostFrameFacts
        <5> QED
          BY <1>3, <2>3, <4>1, <5>1, RouteFacts DEF InStage, AtSend
      <4>2. CASE ~Down(t)
        <5>1. ~(~d.registered /\ d.challenge # 0)
          BY <2>1, <2>13, <4>2, DeviceFrameFacts
        <5> QED
          BY <1>3, <2>1, <2>3, <4>2, <5>1, RouteFacts DEF InStage, AtSend, Pair, HostSound
      <4> QED
        BY <4>1, <4>2
    <3>2. Knows(over, disk', entry')
      <4>1. CASE Down(t)
        <5>1. op.route = DownUp /\ over.step = "send" /\ over.route = <<"up">>
          BY <2>3, <2>8, <3>1, <4>1, RouteFacts
        <5>2. h.registered /\ ~due /\ ~h.pending /\ ~h.receipt
          <6>1. h.registered
            BY <1>3, <3>1 DEF InStage
          <6> QED
            BY <2>1, <2>13, <4>1, <6>1, HostFrameFacts
        <5>3. PassStarts(op, h, d, due)
          BY <1>3, <3>1, <5>1, RouteFacts DEF AtSend
        <5>4. entry'.due = FALSE /\ disk'.server = h /\ disk'.device = d
          <6>1. HostFrame(h, due).kind # "receipt"
            BY <2>13, <4>1 DEF Nothing
          <6>2. HostSent(h, due) = h
            BY <2>14, <6>1
          <6> QED
            BY <2>4, <2>5, <4>1, <6>2
        <5> HIDE DEF over, op, h, d, due
        <5>5. PassHalf(over, h, d, FALSE)
          <6>1. ~over.moved /\ over.pass = op.pass
            BY <2>8, <5>3 DEF PassStarts
          <6>2. 0 < op.pass => Quiet(h, d, FALSE)
            BY <2>1, <5>2, <5>3 DEF PassStarts, Quiet
          <6>3. 1 < op.pass => 0 < op.pass
            BY <1>3
          <6> QED
            BY <5>2, <6>1, <6>2, <6>3 DEF PassHalf
        <5>6. InStage(over, disk'.server, disk'.device)
          BY <2>8, <2>11 DEF InStage
        <5>7. AtSend(over, h, d, FALSE)
          BY <2>8, <3>1, <5>1, <5>5 DEF AtSend
        <5> QED
          BY <2>11, <5>1, <5>4, <5>6, <5>7 DEF Knows, Creating
      <4>2. CASE ~Down(t)
        <5>1. op.route = <<"up">> /\ over.step = "settle"
          BY <2>3, <2>8, <3>1, <4>2, RouteFacts
        <5>2. d.registered /\ ~d.reply
          <6>1. d.registered
            BY <1>3, <3>1 DEF InStage
          <6> QED
            BY <2>1, <2>13, <4>2, <6>1, DeviceFrameFacts
        <5>3. PassHalf(op, h, d, due)
          BY <1>3, <3>1, <5>1, RouteFacts DEF AtSend
        <5>4. entry'.due = due /\ disk'.server = h /\ disk'.device = d
          BY <2>1, <2>4, <2>5, <2>13, <2>15, <4>2
        <5> HIDE DEF over, op, h, d, due
        <5>5. PassOver(over, h, d, due)
          BY <2>1, <2>8, <5>2, <5>3 DEF PassOver, PassHalf, Quiet
        <5>6. InStage(over, disk'.server, disk'.device)
          BY <2>8, <2>11 DEF InStage
        <5> QED
          BY <2>11, <5>1, <5>4, <5>5, <5>6 DEF Knows, Creating
      <4> QED
        BY <4>1, <4>2
    <3>3. over.step \in Working \ {"host"}
      BY <2>8 DEF Working
    <3> QED
      BY <1>1, <1>6, <2>4, <2>5, <2>8, <2>9, <2>10, <2>13, <3>2, <3>3, WorkingStep, Unrefused
  <2> QED
    BY <2>12, <2>13
<1> QED
  BY <1>4, <1>5, <1>6 DEF Send

\* The device accepts what the host hands it, and has then heard it.
LEMMA DeviceTakes ==
    ASSUME NEW op \in Operations, NEW h \in Hosts, NEW d \in Devices, NEW due \in BOOLEAN,
           HostSound(h), Pair(h, d), d.server = h.id, InStage(op, h, d), AtDevice(op, h, d, due)
    PROVE  LET m == DeviceReceived(d, op.frame)
           IN  /\ DeviceAccepts(d, op.frame)
               /\ m \in Devices /\ Pair(h, m) /\ m.key = d.key /\ m.server = d.server
               /\ InStage(op, h, m)
               /\ op.stage = "enroll" => m.challenge = h.challenge
               /\ op.stage = "loop" =>
                     /\ op.pass < 3
                     /\ 0 < op.pass => Quiet(h, m, FALSE) \/ (h.pending /\ m.reply /\ m.got = h.request)
                     /\ 1 < op.pass => Quiet(h, m, FALSE)
<1> DEFINE f == op.frame
           m == DeviceReceived(d, f)
<1>1. /\ h.registered \in BOOLEAN /\ h.pending \in BOOLEAN /\ h.receipt \in BOOLEAN
      /\ h.request \in Nat /\ d.registered \in BOOLEAN /\ d.reply \in BOOLEAN /\ d.claimed \in BOOLEAN
      /\ d.got \in Nat
  BY Numbers DEF Hosts, HostRecord, Devices, DeviceRecord
<1>2. f \in Frames /\ f.kind \in DownKinds /\ op.pass \in Nat
  BY Numbers DEF Operations, AtDevice
<1>3. m \in Devices
  BY <1>2, DeviceChanges
<1>4. /\ f.from = h.id /\ f.to = h.peer /\ f.challenge = h.challenge /\ f.id = h.request
  BY DEF AtDevice
<1>5. /\ f.kind = "invitation" => m = [d EXCEPT !.challenge = f.challenge]
      /\ f.kind = "confirmation" => m = [d EXCEPT !.registered = TRUE]
      /\ f.kind = "request" /\ f.id >= d.got => m = [d EXCEPT !.got = f.id, !.reply = TRUE]
      /\ f.kind = "receipt" /\ f.id = d.got => m = [d EXCEPT !.reply = FALSE]
  BY DEF DeviceReceived
<1> HIDE DEF f, m
<1>6. CASE op.stage = "enroll"
  <2>1. f.kind = "invitation" /\ ~h.registered /\ h.challenge # 0 /\ ~d.registered
    BY <1>6 DEF AtDevice, InStage, Pair, f
  <2>2. /\ m.key = d.key /\ m.server = d.server /\ m.challenge = h.challenge
        /\ m.registered = d.registered /\ m.claimed = d.claimed
        /\ m.got = d.got /\ m.reply = d.reply
    BY <1>4, <1>5, <2>1 DEF Devices, DeviceRecord
  <2>3. Pair(h, m)
    BY <2>1, <2>2 DEF Pair
  <2>4. DeviceAccepts(d, f)
    BY <1>2, <1>4, <2>1 DEF DeviceAccepts
  <2>5. InStage(op, h, m)
    BY <1>6 DEF InStage
  <2> QED
    BY <1>3, <1>6, <2>2, <2>3, <2>4, <2>5 DEF f, m
<1>7. CASE op.stage = "confirm"
  <2>1. f.kind = "confirmation" /\ h.registered
    BY <1>7 DEF AtDevice, InStage, f
  <2>2. /\ m.key = d.key /\ m.server = d.server /\ m.challenge = d.challenge
        /\ m.registered = TRUE /\ m.claimed = d.claimed
        /\ m.got = d.got /\ m.reply = d.reply
    BY <1>5, <2>1 DEF Devices, DeviceRecord
  <2>3. Pair(h, m)
    BY <2>1, <2>2 DEF Pair
  <2>4. DeviceAccepts(d, f)
    BY <1>2, <1>4, <2>1 DEF DeviceAccepts, Pair, HostSound
  <2>5. InStage(op, h, m)
    BY <1>7 DEF InStage
  <2> QED
    BY <1>3, <1>7, <2>2, <2>3, <2>4, <2>5 DEF f, m
<1>8. CASE op.stage = "loop"
  <2>1. /\ h.registered /\ d.registered
        /\ f.kind # "invitation"
        /\ f.kind = "confirmation" => op.pass = 0
        /\ f.kind = "request" => h.pending /\ op.pass < 2
        /\ f.kind = "receipt" => ~h.pending /\ ~h.receipt /\ 0 < h.request /\ op.pass < 3
    BY <1>8 DEF AtDevice, InStage, f
  <2>2. /\ h.peer = d.key /\ d.challenge = h.challenge /\ d.claimed /\ h.challenge # 0
        /\ d.got <= h.request
        /\ f.kind = "receipt" => d.got = h.request
        /\ f.kind = "request" => 0 < h.request
    BY <1>1, <2>1 DEF Pair, HostSound
  <2>3. DeviceAccepts(d, f)
    BY <1>1, <1>2, <1>4, <2>1, <2>2 DEF DeviceAccepts
  <2>4. /\ m.key = d.key /\ m.server = d.server /\ m.challenge = d.challenge
        /\ m.registered = TRUE /\ m.claimed = d.claimed
        /\ f.kind = "confirmation" => m.got = d.got /\ m.reply = d.reply
        /\ f.kind = "request" => m.got = h.request /\ m.reply
        /\ f.kind = "receipt" => m.got = d.got /\ ~m.reply
    <3>1. CASE f.kind = "confirmation"
      BY <1>5, <2>1, <3>1 DEF Devices, DeviceRecord
    <3>2. CASE f.kind = "request"
      BY <1>1, <1>4, <1>5, <2>1, <2>2, <3>2 DEF Devices, DeviceRecord
    <3>3. CASE f.kind = "receipt"
      BY <1>4, <1>5, <2>1, <2>2, <3>3 DEF Devices, DeviceRecord
    <3> QED
      BY <1>2, <2>1, <3>1, <3>2, <3>3 DEF DownKinds
  <2>5. Pair(h, m)
    <3>1. CASE f.kind = "confirmation"
      BY <2>1, <2>4, <3>1 DEF Pair
    <3>2. CASE f.kind = "request"
      BY <1>1, <2>1, <2>2, <2>4, <3>2 DEF Pair
    <3>3. CASE f.kind = "receipt"
      BY <1>1, <2>1, <2>2, <2>4, <3>3 DEF Pair
    <3> QED
      BY <1>2, <2>1, <3>1, <3>2, <3>3 DEF DownKinds
  <2>6. InStage(op, h, m)
    BY <1>8, <2>1, <2>4 DEF InStage
  <2>7. op.pass < 3
    BY <1>2, <2>1 DEF DownKinds
  <2>8. /\ 0 < op.pass => Quiet(h, m, FALSE) \/ (h.pending /\ m.reply /\ m.got = h.request)
        /\ 1 < op.pass => Quiet(h, m, FALSE)
    <3>1. CASE f.kind = "confirmation"
      <4>1. ~(0 < op.pass) /\ ~(1 < op.pass)
        BY <2>1, <3>1
      <4> QED
        BY <4>1
    <3>2. CASE f.kind = "request"
      <4>1. ~(1 < op.pass)
        BY <1>2, <2>1, <3>2
      <4>2. h.pending /\ m.reply /\ m.got = h.request
        BY <2>1, <2>4, <3>2
      <4> QED
        BY <4>1, <4>2
    <3>3. CASE f.kind = "receipt"
      BY <2>1, <2>4, <3>3 DEF Quiet
    <3> QED
      BY <1>2, <2>1, <3>1, <3>2, <3>3 DEF DownKinds
  <2> QED
    BY <1>3, <1>8, <2>3, <2>4, <2>5, <2>6, <2>7, <2>8 DEF f, m
<1> QED
  BY <1>6, <1>7, <1>8 DEF InStage

\* The host accepts what the device hands it, and has then heard it.
LEMMA HostTakes ==
    ASSUME NEW op \in Operations, NEW h \in Hosts, NEW d \in Devices, NEW due \in BOOLEAN,
           HostSound(h), Pair(h, d), d.server = h.id, d.key # 0,
           InStage(op, h, d), AtHost(op, h, d, due)
    PROVE  LET n == HostReceived(h, op.frame)
           IN  /\ HostAccepts(h, op.frame)
               /\ n \in Hosts /\ HostSound(n) /\ Pair(n, d) /\ n.id = h.id
               /\ n.registered = h.registered /\ n.challenge = h.challenge /\ n.request = h.request
               /\ InStage(op, n, d)
               /\ op.stage = "confirm" => MakesDue(h, op.frame)
               /\ op.stage = "loop" =>
                     /\ ~MakesDue(h, op.frame)
                     /\ d.reply => n.receipt \/ n.pending
                     /\ 0 < op.pass => ~n.pending /\ op.pass < 2
<1> DEFINE f == op.frame
           n == HostReceived(h, f)
<1>1. /\ h.registered \in BOOLEAN /\ h.pending \in BOOLEAN /\ h.receipt \in BOOLEAN
      /\ h.request \in Nat /\ d.registered \in BOOLEAN /\ d.reply \in BOOLEAN /\ d.claimed \in BOOLEAN
      /\ d.got \in Nat
  BY Numbers DEF Hosts, HostRecord, Devices, DeviceRecord
<1>2. f \in Frames /\ op.pass \in Nat
  BY Numbers DEF Operations
<1>3. n \in Hosts
  BY <1>2, HostChanges
<1>4. /\ f.from = d.key /\ f.to = h.id /\ f.challenge = d.challenge /\ f.id = d.got
      /\ d.claimed /\ d.challenge # 0
  BY DEF AtHost
<1>5. /\ ~h.registered => n = [h EXCEPT !.candidate = f.from]
      /\ h.registered /\ f.kind = "report" /\ f.id = h.request =>
            n = [h EXCEPT !.pending = FALSE, !.receipt = TRUE]
      /\ h.registered /\ ~(f.kind = "report" /\ f.id = h.request) => n = h
  BY DEF HostReceived
<1> HIDE DEF f, n
<1>6. CASE op.stage = "enroll"
  <2>1. f.kind = "claim" /\ ~h.registered /\ h.challenge = d.challenge /\ h.challenge # 0
    BY <1>6 DEF AtHost, InStage, f
  <2>2. /\ n.id = h.id /\ n.registered = h.registered /\ n.peer = h.peer /\ n.candidate = d.key
        /\ n.challenge = h.challenge /\ n.request = h.request
        /\ n.pending = h.pending /\ n.receipt = h.receipt
    BY <1>4, <1>5, <2>1 DEF Hosts, HostRecord
  <2>3. HostSound(n) /\ Pair(n, d)
    BY <1>4, <2>1, <2>2 DEF Pair, HostSound
  <2>4. HostAccepts(h, f)
    BY <1>4, <2>1 DEF HostAccepts, UpKinds, Pair
  <2>5. InStage(op, n, d)
    BY <1>6, <2>2 DEF InStage
  <2> QED
    BY <1>3, <1>6, <2>2, <2>3, <2>4, <2>5 DEF f, n
<1>7. CASE op.stage = "confirm"
  <2>1. f.kind = "claim" /\ h.registered
    BY <1>7 DEF AtHost, InStage, f
  <2>2. n = h
    BY <1>5, <2>1
  <2>3. HostAccepts(h, f)
    BY <1>4, <2>1 DEF HostAccepts, UpKinds, Pair, HostSound
  <2>4. MakesDue(h, f)
    BY <2>1 DEF MakesDue
  <2> QED
    BY <1>3, <1>7, <2>2, <2>3, <2>4 DEF f, n
<1>8. CASE op.stage = "loop"
  <2>1. /\ h.registered /\ d.registered /\ f.kind = "report" /\ d.reply
        /\ 0 < op.pass => h.pending /\ d.got = h.request /\ op.pass < 2
    BY <1>8 DEF AtHost, InStage, f
  <2>2. /\ h.peer = d.key /\ d.challenge = h.challenge /\ d.got <= h.request /\ 0 < h.request
        /\ ~h.pending => d.got = h.request
    BY <1>1, <2>1 DEF Pair
  <2>3. HostAccepts(h, f)
    BY <1>4, <2>1, <2>2 DEF HostAccepts, UpKinds
  <2>4. ~MakesDue(h, f)
    BY <2>1 DEF MakesDue
  <2>5. CASE d.got = h.request
    <3>1. /\ n.id = h.id /\ n.registered = h.registered /\ n.peer = h.peer
          /\ n.candidate = h.candidate /\ n.challenge = h.challenge /\ n.request = h.request
          /\ n.pending = FALSE /\ n.receipt = TRUE
      BY <1>4, <1>5, <2>1, <2>5 DEF Hosts, HostRecord
    <3>2. HostSound(n) /\ Pair(n, d)
      BY <1>1, <2>1, <2>2, <2>5, <3>1 DEF HostSound, Pair
    <3>3. InStage(op, n, d)
      BY <3>1 DEF InStage
    <3> QED
      BY <1>3, <1>8, <2>1, <2>3, <2>4, <3>1, <3>2, <3>3 DEF f, n
  <2>6. CASE d.got # h.request
    <3>1. n = h
      BY <1>4, <1>5, <2>1, <2>6
    <3>2. h.pending /\ op.pass = 0
      BY <1>2, <2>1, <2>2, <2>6
    <3> QED
      BY <1>3, <1>8, <2>3, <2>4, <3>1, <3>2 DEF f, n
  <2> QED
    BY <2>5, <2>6
<1> QED
  BY <1>6, <1>7, <1>8 DEF InStage

LEMMA InvReceive == ASSUME Inv, NEW t \in Task, Receive(t) PROVE Inv'
<1> DEFINE op == tasks[t]
           h == disk.server
           d == disk.device
           due == entry.due
           f == op.frame
           over == [op EXCEPT !.route = Tail(@), !.moved = @ \/ TRUE,
                              !.step = IF Len(op.route) = 1 THEN "settle" ELSE "send"]
           n == HostReceived(h, f)
           m == DeviceReceived(d, f)
<1>1. op.step = "receive" /\ op.step \in Working /\ UNCHANGED <<known, queue, posts, ids, acked>>
  BY DEF Receive, Working
<1>2. op # Idle /\ op \in Operations /\ Knows(op, disk, entry)
  BY <1>1, AtStep DEF Steps
<1>3. /\ Agrees(disk, entry) /\ InStage(op, h, d)
      /\ AtDevice(op, h, d, due) \/ AtHost(op, h, d, due)
      /\ op.pass \in Nat /\ op.moved \in BOOLEAN
  BY <1>1, <1>2, Numbers DEF Knows, Operations
<1>4. /\ h \in Hosts /\ d \in Devices /\ due \in BOOLEAN /\ HostSound(h) /\ Pair(h, d)
      /\ entry \in Entries
  BY Fields
<1>5. /\ disk.row.phase = "ready" /\ h # NoHost /\ h.id # 0 /\ d # NoDevice /\ d.key # 0
      /\ h.id = disk.row.serverKey /\ disk.row # NoRow /\ d.server = h.id
      /\ NoHost.id = 0 /\ NoDevice.key = 0
  BY <1>3, FreshRecords DEF Inv, DiskSound, RowSound, Agrees, NoHost, NewHost, NoDevice, NewDevice
<1>6. CASE Reply(t) /\ UNCHANGED <<disk, entry, refused, faults>>
  BY <1>1, <1>6, WorkingEnds, Unrefused, Shapes DEF Inv
<1>7. CASE Fault /\ Break(~Down(t)) /\ Reply(t) /\ UNCHANGED <<disk, refused>>
  <2>1. /\ entry' \in Entries /\ entry'.phase = entry.phase /\ entry'.row = entry.row
        /\ entry'.device = entry.device
    BY <1>4, <1>7 DEF Entries, Break
  <2> QED
    BY <1>1, <1>7, <2>1, WorkingEnds, FaultType, Unrefused
<1>8. /\ AtDevice(op, h, d, due) => Down(t) /\ op.route \in {DownUp, <<"down">>}
      /\ AtHost(op, h, d, due) => ~Down(t) /\ op.route \in {UpDown, <<"up">>}
  <2>1. op.stage \in {"enroll", "confirm", "loop"}
    BY <1>3 DEF InStage
  <2>2. /\ AtDevice(op, h, d, due) => op.route \in {DownUp, <<"down">>}
        /\ AtHost(op, h, d, due) => op.route \in {UpDown, <<"up">>}
    BY <2>1 DEF AtDevice, AtHost
  <2>3. /\ op.route \in {DownUp, <<"down">>} => Down(t)
        /\ op.route \in {UpDown, <<"up">>} => ~Down(t)
    BY RouteFacts DEF Down
  <2> QED
    BY <2>2, <2>3
<1>9. /\ over \in Operations
      /\ over.step = IF op.route \in {DownUp, UpDown} THEN "send" ELSE "settle"
      /\ over.moved
      /\ over.stage = op.stage /\ over.pass = op.pass
      /\ op.route = DownUp => over.route = <<"up">>
      /\ op.route = UpDown => over.route = <<"down">>
  <2>1. op.route \in {DownUp, UpDown, <<"down">>, <<"up">>}
    BY <1>3, <1>8
  <2> QED
    BY <1>2, <2>1, OverType
<1>10. over.step \in Working \ {"host"}
  BY <1>9 DEF Working
<1>11. CASE AtDevice(op, h, d, due)
  <2>1. /\ DeviceAccepts(d, f)
        /\ m \in Devices /\ Pair(h, m) /\ m.key = d.key /\ m.server = d.server
        /\ InStage(op, h, m)
        /\ op.stage = "enroll" => m.challenge = h.challenge
        /\ op.stage = "loop" =>
              /\ op.pass < 3
              /\ 0 < op.pass => Quiet(h, m, FALSE) \/ (h.pending /\ m.reply /\ m.got = h.request)
              /\ 1 < op.pass => Quiet(h, m, FALSE)
    BY <1>2, <1>3, <1>4, <1>5, <1>11, DeviceTakes
  <2>2. Accepts(t) /\ Down(t)
    BY <1>8, <1>11, <2>1 DEF Accepts
  <2>3. CASE /\ disk' = Received(t)
             /\ entry' = [entry EXCEPT !.due = @ \/ (~Down(t) /\ MakesDue(disk.server, tasks[t].frame))]
             /\ Delivered(t, TRUE)
             /\ UNCHANGED <<refused, faults>>
    <3>1. Becomes(t, over)
      BY <2>3 DEF Delivered
    <3>2. /\ disk' \in Disks /\ disk'.row = disk.row /\ disk'.server = h /\ disk'.device = m
      BY <2>1, <2>2, <2>3, Shapes DEF Inv, Received, Disks
    <3>3. /\ entry' \in Entries /\ entry'.phase = entry.phase /\ entry'.row = entry.row
          /\ entry'.device = entry.device /\ entry'.due = due
      BY <1>4, <2>2, <2>3 DEF Entries
    <3>4. m # NoDevice
      BY <1>5, <2>1
    <3> HIDE DEF over, m
    <3>5. DiskSound(disk') /\ Worth(disk'.server) <= Worth(disk.server)
      <4>1. RowSound(disk')
        BY <1>5, <3>2, <3>4 DEF RowSound
      <4>2. Worth(h) \in Nat
        BY <1>4, WorthFacts
      <4> QED
        BY <1>4, <1>5, <2>1, <3>2, <4>1, <4>2 DEF DiskSound
    <3>6. Agrees(disk', entry')
      BY <1>3, <3>2, <3>3 DEF Agrees
    <3> HIDE DEF op, h, d, due, f
    <3>7. InStage(over, h, m)
      BY <1>9, <2>1 DEF InStage
    <3>8. CASE op.stage = "enroll"
      <4>1. op.route = DownUp
        BY <1>11, <3>8 DEF AtDevice
      <4>2. over.step = "send" /\ over.route = <<"up">>
        BY <1>9, <4>1
      <4>3. AtSend(over, h, m, due)
        BY <1>9, <2>1, <3>8, <4>2 DEF AtSend
      <4>4. Knows(over, disk', entry')
        BY <3>2, <3>3, <3>6, <3>7, <4>2, <4>3 DEF Knows, Creating
      <4> QED
        BY <1>1, <1>9, <1>10, <2>3, <3>1, <3>2, <3>3, <3>5, <4>4, WorkingStep, Unrefused DEF op
    <3>9. CASE op.stage = "confirm"
      <4>1. op.route = <<"down">>
        BY <1>11, <3>9 DEF AtDevice
      <4>2. over.step = "settle"
        BY <1>9, <4>1, RouteFacts
      <4>3. Knows(over, disk', entry')
        BY <1>9, <3>2, <3>3, <3>6, <3>7, <3>9, <4>2 DEF Knows, Creating
      <4> QED
        BY <1>1, <1>9, <1>10, <2>3, <3>1, <3>2, <3>3, <3>5, <4>3, WorkingStep, Unrefused DEF op
    <3>10. CASE op.stage = "loop"
      <4>1. op.route = DownUp /\ ~due
        BY <1>11, <3>10 DEF AtDevice
      <4>2. over.step = "send" /\ over.route = <<"up">>
        BY <1>9, <4>1
      <4>3. due = FALSE
        BY <1>4, <4>1
      <4>4. ~(2 < over.pass)
        BY <1>3, <1>9, <2>1, <3>10
      <4>5. PassHalf(over, h, m, due)
        BY <1>9, <2>1, <3>10, <4>1, <4>3, <4>4 DEF PassHalf
      <4>6. AtSend(over, h, m, due)
        BY <1>9, <3>10, <4>2, <4>5 DEF AtSend
      <4>7. Knows(over, disk', entry')
        BY <3>2, <3>3, <3>6, <3>7, <4>2, <4>6 DEF Knows, Creating
      <4> QED
        BY <1>1, <1>9, <1>10, <2>3, <3>1, <3>2, <3>3, <3>5, <4>7, WorkingStep, Unrefused DEF op
    <3> QED
      BY <1>3, <3>8, <3>9, <3>10 DEF InStage
  <2> QED
    BY <1>6, <1>7, <2>2, <2>3 DEF Receive
<1>12. CASE AtHost(op, h, d, due)
  <2>1. /\ HostAccepts(h, f)
        /\ n \in Hosts /\ HostSound(n) /\ Pair(n, d) /\ n.id = h.id
        /\ n.registered = h.registered /\ n.challenge = h.challenge /\ n.request = h.request
        /\ InStage(op, n, d)
        /\ op.stage = "confirm" => MakesDue(h, f)
        /\ op.stage = "loop" =>
              /\ ~MakesDue(h, f)
              /\ d.reply => n.receipt \/ n.pending
              /\ 0 < op.pass => ~n.pending /\ op.pass < 2
    BY <1>2, <1>3, <1>4, <1>5, <1>12, HostTakes
  <2>2. Accepts(t) /\ ~Down(t)
    BY <1>8, <1>12, <2>1 DEF Accepts
  <2>3. CASE /\ disk' = Received(t)
             /\ entry' = [entry EXCEPT !.due = @ \/ (~Down(t) /\ MakesDue(disk.server, tasks[t].frame))]
             /\ Delivered(t, TRUE)
             /\ UNCHANGED <<refused, faults>>
    <3>1. Becomes(t, over)
      BY <2>3 DEF Delivered
    <3>2. /\ disk' \in Disks /\ disk'.row = disk.row /\ disk'.server = n /\ disk'.device = d
      BY <2>1, <2>2, <2>3, Shapes DEF Inv, Received, Disks
    <3>3. /\ entry' \in Entries /\ entry'.phase = entry.phase /\ entry'.row = entry.row
          /\ entry'.device = entry.device /\ entry'.due \in BOOLEAN
          /\ entry'.due <=> due \/ MakesDue(h, f)
      BY <1>4, <2>2, <2>3 DEF Entries
    <3>4. n # NoHost
      BY <1>5, <2>1
    <3> HIDE DEF over, n
    <3>5. DiskSound(disk') /\ Worth(disk'.server) <= Worth(disk.server)
      <4>1. RowSound(disk')
        BY <1>5, <2>1, <3>2, <3>4 DEF RowSound
      <4>2. Worth(h) \in Nat
        BY <1>4, WorthFacts
      <4>3. Worth(n) = Worth(h)
        BY <1>5, <2>1, <3>4 DEF Worth
      <4> QED
        BY <1>4, <1>5, <2>1, <3>2, <4>1, <4>2, <4>3 DEF DiskSound
    <3>6. Agrees(disk', entry')
      BY <1>3, <3>2, <3>3 DEF Agrees
    <3> HIDE DEF op, h, d, due, f
    <3>7. InStage(over, n, d)
      BY <1>9, <2>1 DEF InStage
    <3>8. CASE op.stage = "enroll"
      <4>1. op.route = <<"up">>
        BY <1>12, <3>8 DEF AtHost
      <4>2. over.step = "settle"
        BY <1>9, <4>1, LastUp
      <4>3. Knows(over, disk', entry')
        BY <1>9, <3>2, <3>3, <3>6, <3>7, <3>8, <4>2 DEF Knows, Creating
      <4> QED
        BY <1>1, <1>9, <1>10, <2>3, <3>1, <3>2, <3>3, <3>5, <4>3, WorkingStep, Unrefused DEF op
    <3>9. CASE op.stage = "confirm"
      <4>1. op.route = UpDown
        BY <1>12, <3>9 DEF AtHost
      <4>2. over.step = "send" /\ over.route = <<"down">>
        BY <1>9, <4>1
      <4>3. AtSend(over, n, d, entry'.due)
        BY <1>9, <2>1, <3>3, <3>9, <4>2 DEF AtSend
      <4>4. Knows(over, disk', entry')
        BY <3>2, <3>6, <3>7, <4>2, <4>3 DEF Knows, Creating
      <4> QED
        BY <1>1, <1>9, <1>10, <2>3, <3>1, <3>2, <3>3, <3>5, <4>4, WorkingStep, Unrefused DEF op
    <3>10. CASE op.stage = "loop"
      <4>1. op.route = <<"up">> /\ ~due
        BY <1>12, <3>10 DEF AtHost
      <4>2. over.step = "settle"
        BY <1>9, <4>1, LastUp
      <4>3. ~entry'.due
        BY <2>1, <3>3, <3>10, <4>1
      <4>4. ~(1 < over.pass) /\ ~(2 < over.pass)
        BY <1>3, <1>9, <2>1, <3>10
      <4>5. PassOver(over, n, d, entry'.due)
        BY <1>9, <2>1, <3>10, <4>3, <4>4 DEF PassOver
      <4>6. Knows(over, disk', entry')
        BY <1>9, <3>2, <3>6, <3>7, <4>2, <4>5 DEF Knows, Creating
      <4> QED
        BY <1>1, <1>9, <1>10, <2>3, <3>1, <3>2, <3>3, <3>5, <4>6, WorkingStep, Unrefused DEF op
    <3> QED
      BY <1>3, <3>8, <3>9, <3>10 DEF InStage
  <2> QED
    BY <1>6, <1>7, <2>2, <2>3 DEF Receive
<1> QED
  BY <1>3, <1>11, <1>12

-----------------------------------------------------------------------------
(***************************************************************************)
(* The theorems.                                                           *)
(***************************************************************************)
LEMMA InvStep == Inv /\ [Next]_vars => Inv'
<1> SUFFICES ASSUME Inv, [Next]_vars PROVE Inv'
  OBVIOUS
<1>1. ASSUME NEW command \in Commands, Post(command) PROVE Inv'
  BY <1>1, InvPost
<1>2. ASSUME NEW t \in Task, Start(t) PROVE Inv'
  BY <1>2, InvStart
<1>3. ASSUME NEW t \in Task, Handler(t) PROVE Inv'
  <2>1. CASE CreateRow(t)
    BY <2>1, InvCreateRow
  <2>2. CASE CreateServer(t)
    BY <2>2, InvCreateServer
  <2>3. CASE CreateDevice(t)
    BY <2>3, InvCreateDevice
  <2>4. CASE CreateReady(t)
    BY <2>4, InvCreateReady
  <2>5. CASE Reset(t)
    BY <2>5, InvReset
  <2>6. CASE OpenDevice(t)
    BY <2>6, InvOpenDevice
  <2>7. CASE SaveRow(t)
    BY <2>7, InvSaveRow
  <2>8. CASE HostCommand(t)
    BY <2>8, InvHostCommand
  <2>9. CASE Exchange(t)
    BY <2>9, InvExchange
  <2>10. CASE Send(t)
    BY <2>10, InvSend
  <2>11. CASE Receive(t)
    BY <2>11, InvReceive
  <2>12. CASE Settle(t)
    BY <2>12, InvSettle
  <2> QED
    BY <1>3, <2>1, <2>2, <2>3, <2>4, <2>5, <2>6, <2>7, <2>8, <2>9, <2>10, <2>11, <2>12
       DEF Handler
<1>4. CASE Reload
  BY <1>4, InvReload
<1>5. CASE UNCHANGED vars
  BY <1>5 DEF vars, Inv, Shape, TypeOK, OneHandler, EntryInv, CommandsStick, TasksKnow, Work
<1> QED
  BY <1>1, <1>2, <1>3, <1>4, <1>5 DEF Next

LEMMA Invariant == Spec => []Inv
BY InvInit, InvStep, PTL DEF Spec

(***************************************************************************)
(* What is saved stays whole after every step: a tab closed between two of *)
(* its transactions (worker.mjs create, clearFleet) leaves no checkpoint   *)
(* without a row and no ready row without the two checkpoints it names; it *)
(* says what the user last asked for; and between messages the worker's    *)
(* entry is what is saved.                                                 *)
(***************************************************************************)
LEMMA SavedStateFollows == Inv => SavedStateSound
<1> SUFFICES ASSUME Inv PROVE SavedStateSound
  OBVIOUS
<1>1. RowAccountsForCheckpoints
  BY DEF Inv, DiskSound, RowSound, RowAccountsForCheckpoints
<1>2. CommandsStick
  BY DEF Inv
<1>3. EntryIsSaved
  <2> SUFFICES ASSUME \A t \in Task : tasks[t] = Idle, entry.phase = "ok"
               PROVE  entry.row = disk.row /\ entry.device = disk.row.running
    BY DEF EntryIsSaved
  <2>1. \A t \in Task : tasks[t].step = "idle"
    BY IdleType
  <2>2. Agrees(disk, entry)
    BY <2>1 DEF Inv, EntryInv
  <2> QED
    BY <2>2 DEF Agrees
<1> QED
  BY <1>1, <1>2, <1>3 DEF SavedStateSound

THEOREM FleetSavedStateSound == Spec => []SavedStateSound
BY Invariant, SavedStateFollows, PTL

(***************************************************************************)
(* Whatever was interrupted before, no endpoint refuses what the exchange  *)
(* brings it, and the loop of transport.mjs ends with its fourth pass at   *)
(* the latest: it never comes near its bound of 8.  A handler counts the   *)
(* passes that delivered something, and MaxPasses is where it stops        *)
(* counting, so it has to lie above three.                                 *)
(***************************************************************************)
LEMMA PassesFollow ==
    ASSUME Inv, NEW t \in Task
    PROVE  tasks[t].pass \in Nat /\ tasks[t].pass <= 3
<1>1. tasks[t].pass \in Nat /\ Knows(tasks[t], disk, entry)
  BY Shapes, Numbers DEF Inv, TasksKnow, Operations
<1>2. CASE tasks[t].step \in {"send", "receive", "settle"}
  BY <1>1, <1>2 DEF Knows, InStage
<1>3. CASE tasks[t].step \notin {"send", "receive", "settle"}
  BY <1>1, <1>3 DEF Knows
<1> QED
  BY <1>1, <1>2, <1>3

THEOREM FleetExchangeSettles ==
    ASSUME MaxPasses > 3
    PROVE  Spec => []ExchangeSettles
<1>1. Inv => ExchangeSettles
  BY PassesFollow, Numbers DEF ExchangeSettles, Inv, Shape
<1> QED
  BY <1>1, Invariant, PTL

-----------------------------------------------------------------------------
\* A frame that the host takes does not register a device, nor does a frame
\* that it sends.
LEMMA OnlyCallsRegister ==
    ASSUME NEW h \in Hosts
    PROVE  /\ \A due \in BOOLEAN : HostSent(h, due).registered = h.registered
           /\ \A f \in Frames : HostReceived(h, f).registered = h.registered
           /\ \A c \in Ids : Begun(h, c).registered = h.registered
           /\ Cancelled(h).registered = h.registered
           /\ Requested(h).registered = h.registered
BY DEF Hosts, HostRecord, HostSent, HostReceived, Begun, Cancelled, Requested

\* An approval that goes through registers what its message displayed.
LEMMA ApprovalRegistersDisplayed ==
    ASSUME Inv, NEW t \in Task, HostCommand(t),
           disk.server # NoHost, disk'.server # NoHost,
           disk'.server.registered, ~disk.server.registered
    PROVE  /\ tasks[t].command = "approve"
           /\ tasks[t].shown = [challenge |-> disk'.server.challenge, key |-> disk'.server.peer]
<1> DEFINE op == tasks[t]
           h == disk.server
<1>1. op \in Operations /\ h \in Hosts /\ disk \in Disks /\ ids \in Nat
  BY Shapes DEF Inv
<1>2. disk'.server = Commanded(op) /\ Commanded(op) # NoHost
  BY <1>1 DEF HostCommand, Disks
<1>3. op.command = "approve" /\ MayApprove(h, op.shown.challenge, op.shown.key)
      /\ Commanded(op) = Approved(h, op.shown.key)
  <2>1. CASE op.command = "begin"
    BY <1>1, <1>2, <2>1 DEF Commanded, Begun, Hosts, HostRecord
  <2>2. CASE op.command = "cancel"
    BY <1>1, <1>2, <2>2 DEF Commanded, Cancelled, Hosts, HostRecord
  <2>3. CASE op.command = "request"
    BY <1>1, <1>2, <2>3 DEF Commanded
  <2>4. CASE op.command \notin {"begin", "cancel", "request"}
    BY <1>2, <2>4 DEF Commanded
  <2> QED
    BY <2>1, <2>2, <2>3, <2>4
<1>4. op.shown \in [challenge : Ids, key : Ids]
  BY <1>1 DEF Operations
<1>5. disk'.server.challenge = op.shown.challenge /\ disk'.server.peer = op.shown.key
  BY <1>1, <1>2, <1>3 DEF MayApprove, Approved, Hosts, HostRecord
<1> QED
  BY <1>3, <1>4, <1>5

LEMMA ApprovalsKeep == Inv /\ Next => ApprovedWasDisplayed
<1> SUFFICES ASSUME Inv, Next, disk.server # NoHost, disk'.server # NoHost,
                    disk'.server.registered, ~disk.server.registered
             PROVE  \E t \in Task :
                        /\ tasks[t].command = "approve"
                        /\ tasks[t].shown = [challenge |-> disk'.server.challenge,
                                             key |-> disk'.server.peer]
  BY DEF ApprovedWasDisplayed
<1>1. disk \in Disks /\ disk.server \in Hosts /\ entry.due \in BOOLEAN
      /\ \A t \in Task : tasks[t].frame \in Frames
  BY Shapes, Fields DEF Inv, Operations
<1>2. disk'.server # disk.server
  OBVIOUS
<1>3. PICK t \in Task : Handler(t)
  BY <1>2 DEF Next, Post, Start, Reload
<1>4. CASE HostCommand(t)
  BY <1>4, ApprovalRegistersDisplayed
<1>5. CASE CreateServer(t)
  BY <1>1, <1>2, <1>5 DEF CreateServer, CreateFails
<1>6. CASE Reset(t)
  BY <1>2, <1>6 DEF Reset, Cleared
<1>7. CASE Send(t)
  <2>1. disk' = [disk EXCEPT !.server = HostSent(@, entry.due)]
    BY <1>1, <1>2, <1>7 DEF Send, Disks
  <2> QED
    BY <1>1, <2>1, OnlyCallsRegister DEF Disks
<1>8. CASE Receive(t)
  <2>1. disk' = [disk EXCEPT !.server = HostReceived(@, tasks[t].frame)]
    BY <1>1, <1>2, <1>8 DEF Receive, Received, Disks
  <2> QED
    BY <1>1, <2>1, OnlyCallsRegister DEF Disks
<1>9. CASE CreateRow(t) \/ CreateDevice(t) \/ CreateReady(t) \/ OpenDevice(t) \/ SaveRow(t)
           \/ Exchange(t) \/ Settle(t)
  BY <1>1, <1>2, <1>9
     DEF Disks, CreateRow, CreateDevice, CreateFails, CreateReady, OpenDevice, SaveRow, Exchange, Settle
<1> QED
  BY <1>3, <1>4, <1>5, <1>6, <1>7, <1>8, <1>9 DEF Handler

\* Only its own handler ends an exchange without a fault.
LEMMA ExchangesEnd == Inv /\ Next => Synchronized
<1> SUFFICES ASSUME Inv, Next, NEW t \in Task,
                    tasks[t].step = "settle", tasks[t].stage = "loop",
                    tasks'[t] = Idle, faults' = faults
             PROVE  /\ disk.device.registered /\ ~disk.device.reply
                    /\ ~disk.server.pending /\ ~disk.server.receipt /\ ~entry.due
  BY DEF Synchronized
<1>1. /\ tasks[t] # Idle /\ tasks[t] \in Operations /\ Knows(tasks[t], disk, entry)
      /\ \A u \in Task : u # t => tasks[u].step = "idle"
  BY AtStep, IdleType DEF Steps
<1>2. faults \in Nat /\ tasks \in [Task -> Operations]
  BY Shapes, Numbers DEF Inv
<1>3. PICK u \in Task : Handler(u)
  <2>1. ~Reload
    BY <1>2 DEF Reload, Fault
  <2>2. \A command \in Commands : ~Post(command)
    BY <1>1 DEF Post
  <2>3. \A u \in Task : ~Start(u)
    BY <1>1 DEF Start, MayStart
  <2> QED
    BY <2>1, <2>2, <2>3 DEF Next
<1>4. tasks[u].step # "idle"
  BY <1>3 DEF Handler, CreateRow, CreateServer, CreateDevice, CreateReady, Reset, OpenDevice,
              SaveRow, HostCommand, Exchange, Send, Receive, Settle
<1>5. u = t
  BY <1>1, <1>4
<1>6. Settle(t)
  BY <1>3, <1>5 DEF Handler, CreateRow, CreateServer, CreateDevice, CreateReady, Reset, OpenDevice,
                    SaveRow, HostCommand, Exchange, Send, Receive
<1>7. ~tasks[t].moved
  <2> SUFFICES ASSUME tasks[t].moved PROVE FALSE
    OBVIOUS
  <2> DEFINE next == [tasks[t] EXCEPT !.step = "send", !.route = <<"down", "up">>, !.moved = FALSE,
                                      !.pass = IF tasks[t].pass < MaxPasses THEN @ + 1 ELSE @]
  <2>1. Becomes(t, next)
    BY <1>6 DEF Settle, GoesOn
  <2>2. next.step = "send"
    BY <1>1 DEF Operations
  <2> HIDE DEF next
  <2>3. tasks'[t] = next
    BY <1>2, <2>1 DEF Becomes
  <2> QED
    BY <2>2, <2>3, IdleType
<1>8. InStage(tasks[t], disk.server, disk.device)
      /\ PassOver(tasks[t], disk.server, disk.device, entry.due)
  BY <1>1 DEF Knows
<1> QED
  BY <1>7, <1>8 DEF InStage, PassOver, Quiet

(***************************************************************************)
(* What the worker reports as done was done: an approval registers the key *)
(* that the page displayed, in the session that it displayed, and an       *)
(* exchange that ends without an error leaves host and device with nothing *)
(* to say to each other.                                                   *)
(***************************************************************************)
THEOREM FleetSuccessIsReal == Spec => SuccessIsReal
<1>1. Inv /\ [Next]_vars => [ApprovedWasDisplayed /\ Synchronized]_vars
  BY ApprovalsKeep, ExchangesEnd
<1> QED
  BY <1>1, Invariant, PTL DEF Spec, SuccessIsReal
=============================================================================
