----------------------------- MODULE FleetWorker -----------------------------
(***************************************************************************)
(* The simulated fleet: worker.mjs with transport.mjs, and the storage of  *)
(* examples/common (endpoint.mjs, storage.mjs).  One worker owns the saved *)
(* fleet; for a serial it keeps a row, and the checkpoints of a host and a *)
(* device endpoint, each written by a transaction of its own.  Messages of *)
(* the page wait in a queue; a handler runs from one await to the next in  *)
(* a step.  A device's serial does not interact with another's, so one     *)
(* serial is modelled.                                                     *)
(*                                                                         *)
(* A storage transaction happens or fails as a whole.  Closing the tab     *)
(* loses all but the storage.  A definition named X_Y is X with a          *)
(* plausible mistake Y; only the mutation runs use it.                     *)
(***************************************************************************)
EXTENDS ManagedPair, Sequences

CONSTANTS
    MaxPosts,   \* bound on the messages of the page
    MaxQueue,   \* bound on the messages waiting
    MaxFaults,  \* bound on tab closings and failed transactions
    MaxPasses   \* the passes counted in an exchange

ASSUME BoundsAssumption ==
    /\ MaxPosts \in Nat /\ MaxQueue \in Nat /\ MaxFaults \in Nat /\ MaxPasses \in Nat

\* Public keys and challenges: a message creates at most two of them.
Ids      == 0 .. 2 * MaxPosts
\* A host is created, begun and approved before its first request.
Requests == 0 .. (IF MaxPosts > 3 THEN MaxPosts - 3 ELSE 0)
Hosts    == HostRecord(Ids, Ids, Ids, Requests)
Devices  == DeviceRecord(Ids, Ids, Ids, Requests)
NoHost   == NewHost(0)
NoDevice == NewDevice(0, 0)

\* serverKey is 0 until the row is ready.
Row    == [phase : {"none", "creating", "ready"}, serverKey : Ids, running : BOOLEAN, connected : BOOLEAN]
NewRow == [phase |-> "creating", serverKey |-> 0, running |-> TRUE, connected |-> TRUE]
NoRow  == [NewRow EXCEPT !.phase = "none"]

ServerCommands == {"begin", "cancel", "approve", "request"}
Commands == ServerCommands \cup
            {"create", "reset", "connect", "disconnect", "start", "stop", "quit", "sync"}

\* A message; shown is the binding that the page displayed with an approval.
Unshown == [challenge |-> 0, key |-> 0]
Message == [command : Commands, shown : [challenge : Ids, key : Ids]]

\* A handler: its message, its step, the row it is about to save, the
\* deliveries left in this round, the frame in hand, and what it delivered.
Steps == {"idle", "row", "server", "device", "ready", "clear", "save", "open", "host",
          "exchange", "send", "receive", "settle"}
Idle  == [command |-> "none", shown |-> Unshown, step |-> "idle", next |-> NewRow,
          stage |-> "none", route |-> <<>>, frame |-> Nothing, moved |-> FALSE, pass |-> 0]

Task  == 1 .. 2   \* a second handler never runs; the queue sees to that

\* phase "error" is an entry that only a reset removes; device is whether the
\* device runs, due the host's volatile ctx->receipt_pending, and the broken
\* flags the endpoints' `failed`.
NoEntry == [phase |-> "absent", row |-> NewRow, device |-> FALSE, due |-> FALSE,
            host_broken |-> FALSE, device_broken |-> FALSE]

VARIABLES
    disk,     \* the saved row, host and device checkpoints
    entry,    \* the worker's fleet entry
    known,    \* the serial is in savedSerials
    queue,    \* messages that no handler has taken
    tasks,    \* the running handlers
    posts,    \* messages posted
    ids,      \* keys and challenges created
    refused,  \* history: an endpoint refused a frame of the other
    acked,    \* history: what the last row command that succeeded asked for
    faults    \* faults so far

vars == <<disk, entry, known, queue, tasks, posts, ids, refused, acked, faults>>

Becomes(t, op) == tasks' = [tasks EXCEPT ![t] = op]
To(t, step)    == Becomes(t, [tasks[t] EXCEPT !.step = step])
Reply(t)       == Becomes(t, Idle)

\* A transaction fails, and the handler with it.
Fault == faults < MaxFaults /\ faults' = faults + 1

-----------------------------------------------------------------------------
(***************************************************************************)
(* Opening the saved fleet (initialize), and the queue.                    *)
(***************************************************************************)
\* The entry that initialize makes of what is saved.
Restored ==
    LET ok == /\ disk.row.phase = "ready"
              /\ disk.server # NoHost /\ disk.server.id = disk.row.serverKey
              /\ disk.row.running => disk.device # NoDevice
    IN  IF disk.row = NoRow THEN NoEntry
        ELSE [NoEntry EXCEPT !.row = disk.row, !.phase = IF ok THEN "ok" ELSE "error",
                             !.device = ok /\ disk.row.running]

\* The tab is closed, whatever runs, and opened again.  A device that runs
\* is synchronized before the first message is handled.
Reload ==
    /\ Fault
    /\ entry' = Restored
    /\ known' = (disk.row # NoRow)
    /\ queue' = <<>>
    /\ tasks' = [t \in Task |->
                    IF t = 1 /\ entry'.phase = "ok" /\ entry'.device
                    THEN [Idle EXCEPT !.command = "initialize", !.step = "exchange"] ELSE Idle]
    /\ UNCHANGED <<disk, posts, ids, refused, acked>>

Post(command) ==
    /\ posts < MaxPosts /\ Len(queue) < MaxQueue
    /\ posts' = posts + 1
    /\ queue' = Append(queue,
                    [command |-> command,
                     shown |-> IF command = "approve" /\ disk.server # NoHost
                               THEN [challenge |-> disk.server.challenge,
                                     key |-> disk.server.candidate]
                               ELSE Unshown])
    /\ UNCHANGED <<disk, entry, known, tasks, ids, refused, acked, faults>>

MayStart_AtOnce == \E t \in Task : tasks[t] = Idle

\* queue.then: a handler starts when the last one has ended.
MayStart == \A t \in Task : tasks[t] = Idle

\* dispatch, up to its first await.
Dispatched(m) ==
    LET op(step)   == [Idle EXCEPT !.command = m.command, !.shown = m.shown, !.step = step]
        save(row)  == [op("save") EXCEPT !.next = row]
        usable     == entry.phase = "ok"
    IN  CASE m.command = "create" /\ ~known -> op("row")
          [] m.command = "reset" -> op("clear")
          [] usable /\ m.command = "connect"    -> save([entry.row EXCEPT !.connected = TRUE])
          [] usable /\ m.command = "disconnect" -> save([entry.row EXCEPT !.connected = FALSE])
          [] usable /\ m.command = "stop"       -> save([entry.row EXCEPT !.running = FALSE])
          [] usable /\ m.command = "quit" /\ entry.device -> save([entry.row EXCEPT !.running = FALSE])
          [] usable /\ m.command = "sync" /\ entry.device -> op("exchange")
          [] usable /\ m.command = "start" -> op(IF entry.device THEN "exchange" ELSE "open")
          [] usable /\ m.command \in ServerCommands -> op("host")
          [] OTHER -> Idle   \* an error is the answer

Start(t) ==
    /\ MayStart /\ tasks[t] = Idle /\ \A u \in Task : tasks[u] = Idle => t <= u
    /\ queue # <<>>
    /\ Becomes(t, Dispatched(Head(queue)))
    /\ queue' = Tail(queue)
    /\ UNCHANGED <<disk, entry, known, posts, ids, refused, acked, faults>>

-----------------------------------------------------------------------------
(***************************************************************************)
(* Rows: create, stop, start, connection and reset.                        *)
(***************************************************************************)
CreateRow(t) ==
    /\ tasks[t].step = "row"
    /\ \/ /\ disk.row = NoRow
          /\ disk' = [disk EXCEPT !.row = NewRow]
          /\ known' = TRUE
          /\ entry' = [NoEntry EXCEPT !.phase = "ok", !.row = NewRow]
          /\ To(t, "server")
          /\ UNCHANGED faults
       \/ Fault /\ Reply(t) /\ UNCHANGED <<disk, entry, known>>
    /\ UNCHANGED <<queue, posts, ids, refused, acked>>

\* The rest of create fails into an entry that stays in error.
CreateFails(t) ==
    /\ entry' = [entry EXCEPT !.phase = "error"]
    /\ Reply(t)
    /\ UNCHANGED <<disk, ids>>

\* endpointStorage adds the record of a fresh endpoint: none may exist.
CreateServer(t) ==
    /\ tasks[t].step = "server"
    /\ \/ /\ IF disk.server = NoHost
             THEN /\ ids' = ids + 1
                  /\ disk' = [disk EXCEPT !.server = NewHost(ids')]
                  /\ To(t, "device")
                  /\ UNCHANGED entry
             ELSE CreateFails(t)
          /\ UNCHANGED faults
       \/ Fault /\ CreateFails(t)
    /\ UNCHANGED <<known, queue, posts, refused, acked>>

CreateDevice(t) ==
    /\ tasks[t].step = "device"
    /\ \/ /\ IF disk.device = NoDevice
             THEN /\ ids' = ids + 1
                  /\ disk' = [disk EXCEPT !.device = NewDevice(ids', disk.server.id)]
                  /\ To(t, "ready")
                  /\ UNCHANGED entry
             ELSE CreateFails(t)
          /\ UNCHANGED faults
       \/ Fault /\ CreateFails(t)
    /\ UNCHANGED <<known, queue, posts, refused, acked>>

CreateReady(t) ==
    LET ready == [NewRow EXCEPT !.phase = "ready", !.serverKey = disk.server.id]
    IN  /\ tasks[t].step = "ready"
        /\ \/ /\ disk' = [disk EXCEPT !.row = ready]
              /\ entry' = [entry EXCEPT !.row = ready, !.device = TRUE]
              /\ acked' = [running |-> TRUE, connected |-> TRUE]
              /\ Reply(t)
              /\ UNCHANGED <<ids, faults>>
           \/ Fault /\ CreateFails(t) /\ UNCHANGED acked
        /\ UNCHANGED <<known, queue, posts, refused>>

\* clearFleet: both object stores in one transaction.
Cleared == [row |-> NoRow, server |-> NoHost, device |-> NoDevice]

Reset(t) ==
    /\ tasks[t].step = "clear"
    /\ \/ disk' = Cleared /\ entry' = NoEntry /\ known' = FALSE /\ UNCHANGED faults
       \/ Fault /\ UNCHANGED <<disk, entry, known>>
    /\ Reply(t)
    /\ UNCHANGED <<queue, posts, ids, refused, acked>>

\* start opens the device before it saves the row.
OpenDevice(t) ==
    /\ tasks[t].step = "open"
    /\ IF disk.device = NoDevice THEN Reply(t)
       ELSE Becomes(t, [tasks[t] EXCEPT !.step = "save", !.next = [entry.row EXCEPT !.running = TRUE]])
    /\ UNCHANGED <<disk, entry, known, queue, posts, ids, refused, acked, faults>>

\* start runs a new device instance, stop drops the one there is.
SavedEntry(op) ==
    CASE op.command = "start" ->
            [entry EXCEPT !.row = op.next, !.device = TRUE, !.device_broken = FALSE]
      [] op.command \in {"stop", "quit"} ->
            [entry EXCEPT !.row = op.next, !.device = FALSE, !.device_broken = FALSE]
      [] OTHER -> [entry EXCEPT !.row = op.next]

\* What was asked for last, of power or of connection.
Asked(command) ==
    CASE command \in {"stop", "quit"} -> [acked EXCEPT !.running = FALSE]
      [] command = "start"            -> [acked EXCEPT !.running = TRUE]
      [] command = "connect"          -> [acked EXCEPT !.connected = TRUE]
      [] command = "disconnect"       -> [acked EXCEPT !.connected = FALSE]

\* The row is saved first; the entry follows once it is.
SaveRow(t) ==
    LET op == tasks[t]
    IN  /\ op.step = "save"
        /\ \/ /\ disk' = [disk EXCEPT !.row = op.next]
              /\ entry' = SavedEntry(op)
              /\ acked' = Asked(op.command)
              /\ IF op.command \in {"connect", "start"} THEN To(t, "exchange") ELSE Reply(t)
              /\ UNCHANGED faults
           \/ Fault /\ Reply(t) /\ UNCHANGED <<disk, entry, acked>>
        /\ UNCHANGED <<known, queue, posts, ids, refused>>

-----------------------------------------------------------------------------
(***************************************************************************)
(* Server commands.  An endpoint whose store has failed refuses every call *)
(* until it is opened again.                                               *)
(***************************************************************************)
\* What a command makes of the host record; NoHost when the core refuses it.
Commanded(op) ==
    LET h == disk.server
    IN  CASE op.command = "begin"   /\ ~h.registered -> Begun(h, ids + 1)
          [] op.command = "cancel"  /\ ~h.registered -> Cancelled(h)
          [] op.command = "request" /\ h.registered  -> Requested(h)
          [] op.command = "approve" /\ MayApprove(h, op.shown.challenge, op.shown.key) ->
                Approved(h, op.shown.key)
          [] OTHER -> NoHost

HostCommand(t) ==
    LET op   == tasks[t]
        next == Commanded(op)
    IN  /\ op.step = "host"
        /\ \/ /\ next # NoHost /\ ~entry.host_broken
              /\ disk' = [disk EXCEPT !.server = next]
              /\ ids' = IF op.command = "begin" THEN ids + 1 ELSE ids
              /\ entry' = [entry EXCEPT !.due = @ \/ op.command = "approve"]
              /\ IF op.command = "cancel" THEN Reply(t) ELSE To(t, "exchange")
              /\ UNCHANGED faults
           \/ /\ next = NoHost \/ entry.host_broken \/ op.command = "approve"   \* or expired
              /\ Reply(t)
              /\ UNCHANGED <<disk, entry, ids, faults>>
           \/ /\ Fault /\ next # NoHost
              /\ entry' = [entry EXCEPT !.host_broken = TRUE]
              /\ Reply(t)
              /\ UNCHANGED <<disk, ids>>
        /\ UNCHANGED <<known, queue, posts, refused, acked>>

-----------------------------------------------------------------------------
(***************************************************************************)
(* exchange (transport.mjs): the deliveries of a round, each an outbound   *)
(* of one endpoint and a receive of the other.                             *)
(***************************************************************************)
Round(t, stage, route) ==
    Becomes(t, [tasks[t] EXCEPT !.step = "send", !.stage = stage, !.route = route, !.moved = FALSE])

Exchanges == entry.row.connected /\ entry.device

FirstRound_Loop(t) ==
    LET h == disk.server
    IN  IF ~h.registered
        THEN IF h.challenge # 0 /\ h.candidate = 0 THEN Round(t, "enroll", <<"down", "up">>) ELSE Reply(t)
        ELSE Round(t, "loop", <<"down", "up">>)

\* An unregistered host waits for authorization, or for approval, or offers
\* its invitation; a registered one first confirms an unregistered device.
FirstRound(t) ==
    LET h == disk.server
    IN  CASE ~h.registered /\ h.challenge # 0 /\ h.candidate = 0 -> Round(t, "enroll", <<"down", "up">>)
          [] ~h.registered /\ ~(h.challenge # 0 /\ h.candidate = 0) -> Reply(t)
          [] h.registered /\ ~disk.device.registered -> Round(t, "confirm", <<"up", "down">>)
          [] h.registered /\ disk.device.registered  -> Round(t, "loop", <<"down", "up">>)

Exchange(t) ==
    /\ tasks[t].step = "exchange"
    /\ \/ IF Exchanges THEN FirstRound(t) ELSE Reply(t)
       \/ /\ Exchanges /\ ~disk.server.registered /\ disk.server.challenge # 0   \* expired
          /\ Reply(t)
    /\ UNCHANGED <<disk, entry, known, queue, posts, ids, refused, acked, faults>>

Down(t) == Head(tasks[t].route) = "down"

SenderBroken(t)   == IF Down(t) THEN entry.host_broken ELSE entry.device_broken
ReceiverBroken(t) == IF Down(t) THEN entry.device_broken ELSE entry.host_broken

Break(host) ==
    entry' = IF host THEN [entry EXCEPT !.host_broken = TRUE]
             ELSE [entry EXCEPT !.device_broken = TRUE]

Delivered_WaitsForFrame(t, moved) ==
    LET op == tasks[t]
    IN  IF ~moved THEN UNCHANGED tasks
        ELSE Becomes(t, [op EXCEPT !.route = Tail(@), !.moved = TRUE,
                                   !.step = IF Len(op.route) = 1 THEN "settle" ELSE "send"])

\* A delivery is over: the next one of the round, or the round is.
Delivered(t, moved) ==
    LET op == tasks[t]
    IN  Becomes(t, [op EXCEPT !.route = Tail(@), !.moved = @ \/ moved,
                              !.step = IF Len(op.route) = 1 THEN "settle" ELSE "send"])

Send(t) ==
    LET f == IF Down(t) THEN HostFrame(disk.server, entry.due) ELSE DeviceFrame(disk.device)
    IN  /\ tasks[t].step = "send"
        /\ \/ /\ ~SenderBroken(t)
              /\ disk' = IF Down(t) THEN [disk EXCEPT !.server = HostSent(@, entry.due)]
                         ELSE [disk EXCEPT !.device = DeviceSent(@)]
              /\ entry' = [entry EXCEPT !.due = @ /\ ~Down(t)]
              /\ IF f = Nothing THEN Delivered(t, FALSE)
                 ELSE Becomes(t, [tasks[t] EXCEPT !.step = "receive", !.frame = f])
              /\ UNCHANGED faults
           \/ SenderBroken(t) /\ Reply(t) /\ UNCHANGED <<disk, entry, faults>>
           \/ Fault /\ Break(Down(t)) /\ Reply(t) /\ UNCHANGED disk
        /\ UNCHANGED <<known, queue, posts, ids, refused, acked>>

Accepts(t) ==
    LET f == tasks[t].frame
    IN  IF Down(t) THEN DeviceAccepts(disk.device, f) ELSE HostAccepts(disk.server, f)

Received(t) ==
    LET f == tasks[t].frame
    IN  IF Down(t) THEN [disk EXCEPT !.device = DeviceReceived(@, f)]
        ELSE [disk EXCEPT !.server = HostReceived(@, f)]

Receive(t) ==
    /\ tasks[t].step = "receive"
    /\ \/ /\ ~ReceiverBroken(t)
          /\ IF Accepts(t)
             THEN /\ disk' = Received(t)
                  /\ entry' = [entry EXCEPT !.due = @ \/ (~Down(t) /\ MakesDue(disk.server, tasks[t].frame))]
                  /\ Delivered(t, TRUE)
                  /\ UNCHANGED refused
             ELSE refused' = TRUE /\ Reply(t) /\ UNCHANGED <<disk, entry>>
          /\ UNCHANGED faults
       \/ ReceiverBroken(t) /\ Reply(t) /\ UNCHANGED <<disk, entry, refused, faults>>
       \/ Fault /\ Break(~Down(t)) /\ Reply(t) /\ UNCHANGED <<disk, refused>>
    /\ UNCHANGED <<known, queue, posts, ids, acked>>

GoesOn_UntilSent(op) == FALSE

\* The loop ends with a pass that delivers nothing.
GoesOn(op) == op.moved

Settle(t) ==
    LET op == tasks[t]
    IN  /\ op.step = "settle"
        /\ CASE op.stage = "enroll" -> Reply(t)
             [] op.stage = "confirm" ->
                   IF disk.device.registered THEN Round(t, "loop", <<"down", "up">>) ELSE Reply(t)
             [] op.stage = "loop" ->
                   IF GoesOn(op)
                   THEN Becomes(t, [op EXCEPT !.step = "send", !.route = <<"down", "up">>, !.moved = FALSE,
                                              !.pass = IF op.pass < MaxPasses THEN @ + 1 ELSE @])
                   ELSE Reply(t)
        /\ UNCHANGED <<disk, entry, known, queue, posts, ids, refused, acked, faults>>

-----------------------------------------------------------------------------
Init ==
    /\ disk = Cleared
    /\ entry = NoEntry
    /\ known = FALSE
    /\ queue = <<>>
    /\ tasks = [t \in Task |-> Idle]
    /\ posts = 0 /\ ids = 0 /\ faults = 0
    /\ refused = FALSE
    /\ acked = [running |-> TRUE, connected |-> TRUE]

Handler(t) ==
    \/ CreateRow(t) \/ CreateServer(t) \/ CreateDevice(t) \/ CreateReady(t)
    \/ Reset(t) \/ OpenDevice(t) \/ SaveRow(t) \/ HostCommand(t)
    \/ Exchange(t) \/ Send(t) \/ Receive(t) \/ Settle(t)

Next ==
    \/ \E command \in Commands : Post(command)
    \/ \E t \in Task : Start(t) \/ Handler(t)
    \/ Reload

Spec == Init /\ [][Next]_vars

\* The event loop runs what is ready; the user need not do anything.
FairSpec == Spec /\ \A t \in Task : WF_vars(Handler(t) \/ Start(t))

-----------------------------------------------------------------------------
(***************************************************************************)
(* Properties.                                                             *)
(***************************************************************************)

\* Every variable keeps its shape.
TypeOK ==
    /\ disk.row \in Row
    /\ disk.server \in Hosts /\ disk.device \in Devices
    /\ entry.phase \in {"absent", "ok", "error"} /\ entry.row \in Row
    /\ {entry.device, entry.due, entry.host_broken, entry.device_broken, known, refused} \subseteq BOOLEAN
    /\ queue \in Seq(Message) /\ Len(queue) <= MaxQueue
    /\ \A t \in Task : tasks[t].step \in Steps /\ tasks[t].next \in Row /\ tasks[t].pass \in 0 .. MaxPasses
    /\ posts \in 0 .. MaxPosts /\ ids \in Ids /\ faults \in 0 .. MaxFaults

\* The row and the two checkpoints are written by separate transactions, and
\* the tab may be closed between them: there is never a checkpoint without a
\* row, which would make the serial unusable for good, and a row that says
\* ready has both, of the host it names and of a device pinned to it.
RowAccountsForCheckpoints ==
    /\ disk.row = NoRow => disk.server = NoHost /\ disk.device = NoDevice
    /\ disk.row # NoRow /\ disk.row.phase = "ready" =>
           /\ disk.server # NoHost /\ disk.server.id = disk.row.serverKey
           /\ disk.device # NoDevice /\ disk.device.server = disk.row.serverKey

\* A power or connection command that succeeded stays in force until another
\* one succeeds, across the commands handled meanwhile and across reloads.
CommandsStick ==
    disk.row # NoRow /\ disk.row.phase = "ready" =>
        disk.row.running = acked.running /\ disk.row.connected = acked.connected

\* Between handlers the worker's entry says what is saved.
EntryIsSaved ==
    (\A t \in Task : tasks[t] = Idle) /\ entry.phase = "ok" =>
        entry.row = disk.row /\ entry.device = disk.row.running

\* What is saved is whole after every step, whatever was interrupted, says
\* what the user last asked for, and is what the worker works from.
SavedStateSound == RowAccountsForCheckpoints /\ CommandsStick /\ EntryIsSaved

\* Whatever a closed tab, a failed transaction, a stopped device or a closed
\* connection interrupted, neither endpoint refuses what the exchange brings,
\* and the exchange settles long before its bound of 8 passes.
ExchangeSettles ==
    /\ TypeOK
    /\ ~refused
    /\ \A t \in Task : tasks[t].pass < MaxPasses

\* An approval registers the key that the page displayed, in the session that
\* it displayed, whatever was handled while the approval waited.
ApprovedWasDisplayed ==
    disk.server # NoHost /\ disk'.server # NoHost =>
        (disk'.server.registered /\ ~disk.server.registered =>
            \E t \in Task :
                /\ tasks[t].command = "approve"
                /\ tasks[t].shown = [challenge |-> disk'.server.challenge,
                                     key |-> disk'.server.peer])

\* An exchange that ends well leaves nothing to say on either side.
Synchronized ==
    \A t \in Task :
        tasks[t].step = "settle" /\ tasks[t].stage = "loop" /\ tasks'[t] = Idle /\ faults' = faults =>
            /\ disk.device.registered /\ ~disk.device.reply
            /\ ~disk.server.pending /\ ~disk.server.receipt /\ ~entry.due

\* What the worker reports as done was done: the displayed device approved,
\* the two endpoints synchronized.
SuccessIsReal == [][ApprovedWasDisplayed /\ Synchronized]_vars

\* Every message is answered: once the user stops, the worker comes to rest.
EveryMessageAnswered == []<>(queue = <<>> /\ \A t \in Task : tasks[t] = Idle)
=============================================================================
