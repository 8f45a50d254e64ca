--------------------------- MODULE HardwareSession ---------------------------
(***************************************************************************)
(* A physical board managed from a browser page: HardwareSession           *)
(* (qtpy-session.mjs) under the fleet page's HardwareFleet (qtpy-fleet.mjs *)
(* and app.mjs), with the firmware's commands (app.c) at the other end.    *)
(* The page keeps one host identity, called a session, per row; a row, and *)
(* the host endpoint's checkpoint, survive a reload, everything else of    *)
(* the page is lost.  The board keeps its snapshot; a reboot loses its     *)
(* entropy and ends the USB connection.                                    *)
(*                                                                         *)
(* One operation of the page runs at a time, and each step is what happens *)
(* between two awaits.  A serial command behaves as SerialCalls promises   *)
(* while no answer is borrowed: it is run and answered, or its call is     *)
(* rejected and it may have run.                                           *)
(* A definition named X_Y is X with a plausible mistake Y; only the        *)
(* mutation runs use it.                                                   *)
(***************************************************************************)
EXTENDS ManagedPair

CONSTANTS
    MaxSessions,   \* bound on the host identities the page creates
    MaxKeys,       \* bound on the identities the board creates
    MaxChallenges, \* bound on the enrollment sessions begun
    MaxRequests,   \* bound on the group requests of a host
    MaxFaults,     \* bound on reloads, lost calls, reboots and resets
    MaxPasses      \* the passes counted in an exchange

ASSUME BoundsAssumption ==
    /\ MaxSessions \in Nat /\ MaxKeys \in Nat /\ MaxChallenges \in Nat
    /\ MaxRequests \in Nat /\ MaxFaults \in Nat /\ MaxPasses \in Nat

Sessions == 1 .. MaxSessions
Other    == MaxSessions + 1      \* a host in another browser profile
Keys     == 0 .. MaxKeys         \* 0: no identity
Rounds   == 0 .. MaxChallenges   \* 0: the zero challenge

Requests == 0 .. MaxRequests
Host     == HostRecord(0 .. MaxSessions, Keys, Rounds, Requests)
NoHost   == NewHost(0)

\* core is the endpoint in the snapshot; crypto_ready and ready are RAM.
Board ==
    [crypto_ready : BOOLEAN, ready : BOOLEAN, provisioned : BOOLEAN,
     core : DeviceRecord(0 .. Other, Keys, Rounds, Requests)]

EmptyBoard ==
    [crypto_ready |-> FALSE, ready |-> FALSE, provisioned |-> FALSE, core |-> NewDevice(0, 0)]

\* status(): registered is reported by a restored core only.
View(b) ==
    [provisioned |-> b.provisioned, server |-> b.core.server, key |-> b.core.key,
     crypto_ready |-> b.crypto_ready, registered |-> b.ready /\ b.core.registered]

Parties  == (0 .. Other) \cup Keys
Frame ==
    [kind : DownKinds \cup UpKinds \cup {"none"}, from : Parties, to : Parties,
     challenge : Rounds, id : Requests]

Controls == {"register", "approve", "update", "inspect"}
Kinds == {"none", "connect"} \cup Controls
Steps ==
    {"idle", "inspect", "restore", "identity", "row", "begin", "setup", "check", "entropy",
     "approve", "update", "send", "forward", "collect", "take", "decide", "last"}

\* The running operation: what it was called for, where it is, the candidate
\* displayed when it was called, the frame in hand and what passed so far.
Idle == [kind |-> "none", step |-> "idle", resume |-> FALSE, shown |-> 0, created |-> 0,
         frame |-> Nothing, quiet |-> TRUE, pass |-> 0]

VARIABLES
    board,     \* the board
    store,     \* the host checkpoints in IndexedDB, by session
    row,       \* the session of the saved row, 0 without a row
    port,      \* "closed", "open" or "failed"
    server,    \* the session the connected entry's server runs, or 0
    due,       \* that server's volatile ctx->receipt_pending
    problem,   \* the entry's error, or the session's problem
    device,    \* the board's state as the page last inspected it
    op,        \* the running operation
    keys,      \* identities the board has created
    rounds,    \* enrollment sessions begun
    refused,   \* the last refusal: who refused which frame or command
    faults     \* faults so far

page == <<port, server, due, problem, device, op>>
vars == <<board, store, row, page, keys, rounds, refused, faults>>

host == store[server]

\* The step after this one; the rest of the operation is kept.
To(step) == op' = [op EXCEPT !.step = step]

\* action(): the operation is over, well or badly.  An error disconnects.
Finish == op' = Idle /\ UNCHANGED <<port, problem>>

Fail_StaysBusy == op' = op /\ port' = "closed" /\ problem' = TRUE

Fail == op' = Idle /\ port' = "closed" /\ problem' = TRUE

Refusal(who, what) == refused' = [by |-> who, of |-> what]

-----------------------------------------------------------------------------
(***************************************************************************)
(* The serial command in a step.  Run(next) is what the board does with it *)
(* and Then the page's continuation with the answer.                       *)
(***************************************************************************)
Answered == port = "open"

\* The call is rejected; the board became b if the command was run.
Rejected(b) ==
    /\ port = "failed" \/ faults < MaxFaults
    /\ faults' = IF port = "failed" THEN faults ELSE faults + 1
    /\ board' \in IF port = "failed" THEN {board} ELSE {board, b}
    /\ Fail
    /\ UNCHANGED <<store, row, server, due, device, rounds, refused>>

-----------------------------------------------------------------------------
(***************************************************************************)
(* The firmware: start, setup, receive and outbound of app.c.              *)
(***************************************************************************)
Restored(b) == [b EXCEPT !.crypto_ready = TRUE, !.ready = b.provisioned]

\* setup: a new identity, pinned to the host that signed the invitation f.
Provisioned(f) ==
    [crypto_ready |-> TRUE, ready |-> TRUE, provisioned |-> TRUE,
     core |-> DeviceReceived(NewDevice(keys + 1, f.from), f)]

\* A loss of power after setup saved the snapshot and before it received
\* the invitation.
HalfProvisioned(f) ==
    [EmptyBoard EXCEPT !.provisioned = TRUE, !.core = NewDevice(keys + 1, f.from)]

BoardAccepts(f)  == board.ready /\ DeviceAccepts(board.core, f)
BoardReceived(f) ==
    IF BoardAccepts(f) THEN [board EXCEPT !.core = DeviceReceived(@, f)] ELSE board
BoardFrame       == DeviceFrame(board.core)
BoardSent        == [board EXCEPT !.core = DeviceSent(@)]

-----------------------------------------------------------------------------
(***************************************************************************)
(* Connecting: HardwareFleet.connect and HardwareSession.connect.          *)
(***************************************************************************)
\* The bounds that a registration needs.
Room == rounds < MaxChallenges /\ keys < MaxKeys /\ \E s \in Sessions : store[s] = NoHost

\* The user picks a port, for the saved row or ("Register QT Py") for none.
Connect(expected) ==
    /\ op = Idle /\ port # "open"
    /\ IF expected THEN row # 0 ELSE Room
    /\ op' = [Idle EXCEPT !.kind = "connect", !.step = "inspect", !.resume = ~expected]
    /\ port' = "open" /\ problem' = FALSE /\ server' = 0 /\ due' = FALSE
    /\ device' = View(EmptyBoard)
    /\ UNCHANGED <<board, store, row, keys, rounds, refused, faults>>

\* link.inspect() at the start of an operation.
AfterInspect == IF op.kind = "connect" THEN "restore" ELSE "identity"

Inspect ==
    /\ op.step = "inspect"
    /\ \/ /\ Answered
          /\ device' = View(board)
          /\ To(AfterInspect)
          /\ UNCHANGED <<board, store, row, port, server, due, problem, rounds, refused, faults>>
       \/ Rejected(board)
    /\ UNCHANGED keys

Foreign == device.provisioned /\ row # device.server

\* Restore the row's host, unless the board trusts another one; then the
\* page goes on to register a board it connected without a row in mind.
Restore ==
    /\ op.step = "restore"
    /\ IF Foreign
       THEN op' = Idle /\ problem' = TRUE /\ UNCHANGED <<server, due>>
       ELSE /\ server' = row /\ due' = FALSE
            /\ op' = IF op.resume /\ ~device.registered
                     THEN [op EXCEPT !.kind = "register", !.step = "inspect"] ELSE Idle
            /\ UNCHANGED problem
    /\ UNCHANGED <<board, store, row, port, device, keys, rounds, refused, faults>>

-----------------------------------------------------------------------------
(***************************************************************************)
(* The controls of a connected row, and HardwareSession.register.          *)
(***************************************************************************)
Usable == op = Idle /\ port = "open" /\ ~problem

\* What either page, the fleet's row or qtpy.html, lets the user call.
Offered(kind) ==
    CASE kind = "register" -> server = 0 \/ ~host.registered \/ ~device.provisioned
      [] kind = "approve"  -> server # 0 /\ ~host.registered
      [] kind = "update"   -> server # 0 /\ host.registered
      [] kind = "inspect"  -> TRUE

FirstStep(kind) ==
    CASE kind = "register" -> "inspect" [] kind = "inspect" -> "last" [] OTHER -> "check"

Command(kind) ==
    /\ Usable /\ Offered(kind)
    /\ kind = "register" => Room
    /\ kind = "update"   => host.request < MaxRequests
    /\ op' = [Idle EXCEPT !.kind = kind, !.step = FirstStep(kind),
                          !.shown = IF kind = "approve" THEN host.candidate ELSE 0]
    /\ UNCHANGED <<board, store, row, port, server, due, problem, device, keys, rounds,
                   refused, faults>>

NeedsNewHost == ~device.provisioned /\ (server = 0 \/ host.registered)

\* A new host endpoint is created and saved before the row names it.
Identity ==
    /\ op.step = "identity"
    /\ IF NeedsNewHost
       THEN \E s \in Sessions :
                /\ store[s] = NoHost
                /\ \A r \in 1 .. s - 1 : store[r] # NoHost
                /\ store' = [store EXCEPT ![s] = NewHost(s)]
                /\ op' = [op EXCEPT !.step = "row", !.created = s]
       ELSE To("begin") /\ UNCHANGED store
    /\ UNCHANGED <<board, row, port, server, due, problem, device, keys, rounds, refused, faults>>

SaveRow_InMemoryOnly ==
    /\ op.step = "row"
    /\ server' = op.created /\ due' = FALSE
    /\ To("begin")
    /\ UNCHANGED <<board, store, row, port, problem, device, keys, rounds, refused, faults>>

SaveRow ==
    /\ op.step = "row"
    /\ row' = op.created
    /\ server' = op.created /\ due' = FALSE
    /\ To("begin")
    /\ UNCHANGED <<board, store, port, problem, device, keys, rounds, refused, faults>>

Begin_WhateverState ==
    /\ op.step = "begin"
    /\ rounds' = rounds + 1
    /\ store' = [store EXCEPT ![server] = Begun(@, rounds')]
    /\ To(IF device.provisioned THEN "check" ELSE "setup")
    /\ UNCHANGED <<board, row, port, server, due, problem, device, keys, refused, faults>>

\* A registered host only exchanges; any other begins a session, and sends
\* its invitation in a setup bundle when the board has no identity.
Begin ==
    /\ op.step = "begin"
    /\ IF host.registered
       THEN To("check") /\ UNCHANGED <<store, rounds>>
       ELSE /\ rounds' = rounds + 1
            /\ store' = [store EXCEPT ![server] = Begun(@, rounds')]
            /\ To(IF device.provisioned THEN "check" ELSE "setup")
    /\ UNCHANGED <<board, row, port, server, due, problem, device, keys, refused, faults>>

Setup ==
    LET f == HostFrame(host, FALSE)
    IN  /\ op.step = "setup"
        /\ keys' = keys + 1
        /\ \/ /\ Answered
              /\ IF ~board.provisioned
                 THEN /\ board' = Provisioned(f)
                      /\ To("send")
                      /\ UNCHANGED <<port, problem, refused>>
                 ELSE Refusal("board", "setup") /\ Fail /\ UNCHANGED board
              /\ UNCHANGED <<store, row, server, due, device, rounds, faults>>
           \/ Rejected(IF board.provisioned THEN board ELSE Provisioned(f))
           \/ Rejected(IF board.provisioned THEN board ELSE HalfProvisioned(f))

-----------------------------------------------------------------------------
(***************************************************************************)
(* HardwareSession.start, approve and update.                              *)
(***************************************************************************)
NextStep ==
    CASE op.kind = "register" -> "send" [] op.kind = "approve" -> "approve" [] OTHER -> "update"

Start(b) == IF b.crypto_ready THEN NextStep ELSE "entropy"

\* start(): inspect again, and refuse a board that does not belong here.
Check ==
    /\ op.step = "check"
    /\ \/ /\ Answered
          /\ device' = View(board)
          /\ IF board.provisioned /\ board.core.server = server
             THEN To(Start(board)) /\ UNCHANGED <<port, problem>>
             ELSE Fail
          /\ UNCHANGED <<board, store, row, server, due, rounds, refused, faults>>
       \/ Rejected(board)
    /\ UNCHANGED keys

Entropy ==
    /\ op.step = "entropy"
    /\ \/ /\ Answered
          /\ IF ~board.crypto_ready
             THEN /\ board' = Restored(board)
                  /\ To(NextStep)
                  /\ UNCHANGED <<port, problem, refused>>
             ELSE Refusal("board", "start") /\ Fail /\ UNCHANGED board
          /\ UNCHANGED <<store, row, server, due, device, rounds, faults>>
       \/ Rejected(IF board.crypto_ready THEN board ELSE Restored(board))
    /\ UNCHANGED keys

ApprovalMatches == MayApprove(host, host.challenge, op.shown) /\ op.shown = device.key

\* The candidate displayed must be the host's and the board's; the session
\* may have expired.
Approve ==
    /\ op.step = "approve"
    /\ \/ /\ ApprovalMatches
          /\ store' = [store EXCEPT ![server] = Approved(@, op.shown)] /\ due' = TRUE
          /\ To("send")
          /\ UNCHANGED <<port, problem>>
       \/ Fail /\ UNCHANGED <<store, due>>
    /\ UNCHANGED <<board, row, server, device, keys, rounds, refused, faults>>

\* request and issue differ in the values of the group request only.
Update ==
    /\ op.step = "update"
    /\ store' = [store EXCEPT ![server] = Requested(@)]
    /\ To("send")
    /\ UNCHANGED <<board, row, port, server, due, problem, device, keys, rounds, refused, faults>>

-----------------------------------------------------------------------------
(***************************************************************************)
(* HardwareSession.exchange: one pass is a frame to the board, if any, and *)
(* a frame from it, if any.                                                *)
(***************************************************************************)
Send ==
    LET f == HostFrame(host, due)
    IN  /\ op.step = "send"
        /\ op' = [op EXCEPT !.step = IF f = Nothing THEN "collect" ELSE "forward",
                            !.frame = f, !.quiet = (f = Nothing)]
        /\ store' = [store EXCEPT ![server] = HostSent(@, due)]
        /\ due' = FALSE
        /\ UNCHANGED <<board, row, port, server, problem, device, keys, rounds, refused, faults>>

Forward ==
    /\ op.step = "forward"
    /\ \/ /\ Answered
          /\ board' = BoardReceived(op.frame)
          /\ IF BoardAccepts(op.frame)
             THEN To("collect") /\ UNCHANGED <<port, problem, refused>>
             ELSE Refusal("board", op.frame.kind) /\ Fail
          /\ UNCHANGED <<store, row, server, due, device, rounds, faults>>
       \/ Rejected(BoardReceived(op.frame))
    /\ UNCHANGED keys

Collect ==
    /\ op.step = "collect"
    /\ \/ /\ Answered
          /\ board' = BoardSent
          /\ op' = [op EXCEPT !.step = IF BoardFrame = Nothing THEN "decide" ELSE "take",
                              !.frame = BoardFrame, !.quiet = @ /\ BoardFrame = Nothing]
          /\ UNCHANGED <<store, row, port, server, due, problem, device, rounds, refused, faults>>
       \/ Rejected(BoardSent)
    /\ UNCHANGED keys

\* A claim is refused, too, once the session has expired.
Take ==
    /\ op.step = "take"
    /\ \/ IF HostAccepts(host, op.frame)
          THEN /\ store' = [store EXCEPT ![server] = HostReceived(@, op.frame)]
               /\ due' = (due \/ MakesDue(host, op.frame))
               /\ To("decide")
               /\ UNCHANGED <<port, problem, refused>>
          ELSE Refusal("host", op.frame.kind) /\ Fail /\ UNCHANGED <<store, due>>
       \/ /\ HostAccepts(host, op.frame) /\ ~host.registered
          /\ Fail /\ UNCHANGED <<store, due, refused>>
    /\ UNCHANGED <<board, row, server, device, keys, rounds, faults>>

Done_NothingSent == ~host.registered \/ op.frame = Nothing \/ op.frame.kind = "report"

\* state() has no candidate_revision, so an unregistered host always ends
\* after the first pass, with or without a candidate.
Done == ~host.registered \/ op.quiet

Decide ==
    /\ op.step = "decide"
    /\ op' = IF Done THEN [op EXCEPT !.step = "last"]
             ELSE [op EXCEPT !.step = "send", !.frame = Nothing, !.pass =
                             IF op.pass < MaxPasses THEN @ + 1 ELSE @]
    /\ UNCHANGED <<board, store, row, port, server, due, problem, device, keys, rounds,
                   refused, faults>>

\* The inspection that ends an exchange, and the one the user asks for.
Last ==
    /\ op.step = "last"
    /\ \/ /\ Answered
          /\ device' = View(board)
          /\ Finish
          /\ UNCHANGED <<board, store, row, server, due, rounds, refused, faults>>
       \/ Rejected(board)
    /\ UNCHANGED keys

Operation ==
    \/ Inspect \/ Restore \/ Identity \/ SaveRow \/ Begin \/ Setup \/ Check \/ Entropy
    \/ Approve \/ Update \/ Send \/ Forward \/ Collect \/ Take \/ Decide \/ Last

-----------------------------------------------------------------------------
(***************************************************************************)
(* What happens to the page and the board.                                 *)
(***************************************************************************)
Disconnect ==
    /\ op = Idle /\ port = "open"
    /\ port' = "closed"
    /\ UNCHANGED <<board, store, row, server, due, problem, device, op, keys, rounds,
                   refused, faults>>

Fault == faults < MaxFaults /\ faults' = faults + 1

\* The disconnect event: an idle entry closes its port, a busy one fails.
UsbLoss ==
    /\ port' = IF port = "open" /\ op # Idle THEN "failed" ELSE IF op = Idle THEN "closed" ELSE port
    /\ problem' = (problem \/ port = "open")

UsbLost ==
    /\ Fault /\ port = "open"
    /\ UsbLoss
    /\ UNCHANGED <<board, store, row, server, due, device, op, keys, rounds, refused>>

BoardReboots ==
    /\ Fault
    /\ board' = [board EXCEPT !.crypto_ready = FALSE, !.ready = FALSE]
    /\ UsbLoss
    /\ UNCHANGED <<store, row, server, due, device, op, keys, rounds, refused>>

FactoryReset ==
    /\ Fault /\ board.provisioned
    /\ board' = EmptyBoard
    /\ UsbLoss
    /\ UNCHANGED <<store, row, server, due, device, op, keys, rounds, refused>>

\* Another browser profile, or the Python operator, registers the board.
RegisteredElsewhere ==
    /\ Fault /\ port = "closed" /\ ~board.provisioned /\ keys < MaxKeys
    /\ keys' = keys + 1
    /\ board' = [EmptyBoard EXCEPT !.provisioned = TRUE, !.core =
                    [NewDevice(keys + 1, Other) EXCEPT !.claimed = TRUE, !.registered = TRUE]]
    /\ UNCHANGED <<store, row, page, rounds, refused>>

Reload ==
    /\ Fault
    /\ op' = Idle /\ port' = "closed" /\ server' = 0 /\ due' = FALSE /\ problem' = FALSE
    /\ device' = View(EmptyBoard)
    /\ UNCHANGED <<board, store, row, keys, rounds, refused>>

Init ==
    /\ board = EmptyBoard
    /\ store = [s \in Sessions |-> NoHost]
    /\ row = 0
    /\ port = "closed" /\ server = 0 /\ due = FALSE /\ problem = FALSE
    /\ device = View(EmptyBoard)
    /\ op = Idle
    /\ keys = 0 /\ rounds = 0 /\ faults = 0
    /\ refused = [by |-> "nobody", of |-> "none"]

Next ==
    \/ \E expected \in BOOLEAN : Connect(expected)
    \/ \E kind \in Controls : Command(kind)
    \/ Operation
    \/ Disconnect \/ UsbLost \/ BoardReboots \/ FactoryReset \/ RegisteredElsewhere \/ Reload

Spec == Init /\ [][Next]_vars

\* Every step of an operation runs; what the user does is the user's.
FairSpec == Spec /\ WF_vars(Operation)

-----------------------------------------------------------------------------
(***************************************************************************)
(* Properties.                                                             *)
(***************************************************************************)

\* Every variable keeps its shape.
TypeOK ==
    /\ board \in Board
    /\ store \in [Sessions -> Host]
    /\ row \in 0 .. MaxSessions /\ server \in 0 .. MaxSessions
    /\ port \in {"closed", "open", "failed"}
    /\ due \in BOOLEAN /\ problem \in BOOLEAN
    /\ device.key \in Keys /\ device.server \in 0 .. Other
    /\ op.kind \in Kinds /\ op.step \in Steps /\ op.shown \in Keys
    /\ op.created \in 0 .. MaxSessions /\ op.frame \in Frame
    /\ keys \in Keys /\ rounds \in Rounds /\ faults \in 0 .. MaxFaults

\* However a registration is interrupted, the host that the board pinned is
\* the one that the saved row restores, so that it can be resumed.
PinnedHostIsSaved ==
    board.core.server \in Sessions =>
        row = board.core.server /\ store[row] # NoHost

\* A board that believes it is enrolled here is right: the saved host is
\* registered to the board's present identity under the same session.
RegisteredTogether ==
    board.core.registered /\ board.core.server \in Sessions =>
        LET h == store[board.core.server]
        IN  h.registered /\ h.peer = board.core.key /\ h.challenge = board.core.challenge

\* A group request in hand for a board that waits for its confirmation: the
\* confirmation was lost, and the user selected "Request report".
EarlyRequest == op.frame.kind = "request" /\ ~board.core.registered

\* No operation has met another refusal, by the board or by the host.
RefusesOnlyEarlyRequests ==
    refused.by # "nobody" => refused = [by |-> "board", of |-> "request"]

AcceptsTheRest ==
    op.step = "forward" /\ port = "open" => (BoardAccepts(op.frame) <=> ~EarlyRequest)

\* When an exchange ends in an error.  From every state that a restart or a
\* lost call leaves behind, the two sides fall silent long before exchange()
\* gives up at 32 passes, and nothing they say is refused but an early
\* request; that one always is, so an exchange that meets it fails instead of
\* falling silent.  Each later exchange forwards the pending request first
\* (qtpy-session.mjs:152-153), so only a factory reset ends this.  The run
\* report_refused shows that examples/fleet_manager/README.md:135-137 says
\* otherwise.
ExchangeSettles ==
    TypeOK /\ op.pass < MaxPasses /\ RefusesOnlyEarlyRequests /\ AcceptsTheRest

\* What examples/fleet_manager/README.md:135-137 says: after a reboot or a page
\* reload, reconnect with the same profile, "then select **Request report**.
\* This supplies fresh per-boot entropy and restores the existing host/device
\* relationship."  The code refuses an early request.
RequestReportRestores ==
    op.kind = "update" /\ op.step = "forward" /\ port = "open" => BoardAccepts(op.frame)

Succeeds == op # Idle /\ op' = Idle /\ port' = "open" /\ ~problem'

ReportsWhatIsDone ==
    LET d == board.core
    IN  /\ op.kind = "approve" => host.registered /\ host.peer = d.key /\ d.registered
        /\ op.kind = "update"  => ~host.pending /\ d.got = host.request /\ ~d.reply
        /\ op.kind = "register" =>
              IF host.registered THEN d.registered ELSE host.candidate = d.key

ApprovesWhatWasDisplayed ==
    \A s \in Sessions : store'[s].registered /\ ~store[s].registered =>
        /\ op.kind = "approve" /\ op.step = "approve"
        /\ store'[s].peer = op.shown /\ store'[s].peer = device.key
        /\ device.server = s

\* What the page reports as done is done: after an approval both sides are
\* registered to each other, after an update the host has its report, and
\* after a registration there is a candidate to approve or nothing to do.  And
\* the approval of an identity is the approval of the one that was displayed
\* and inspected in the same operation.
SuccessIsReal == [][(Succeeds => ReportsWhatIsDone) /\ ApprovesWhatWasDisplayed]_vars

\* Every operation comes to an end.
OperationEnds == (op # Idle) ~> (op = Idle)

=============================================================================
