------------------------ MODULE HardwareSessionProofs ------------------------
(***************************************************************************)
(* A page and a board, for any number of host identities, board            *)
(* identities, requests and faults.                                        *)
(*                                                                         *)
(* Pair relates a host's record to the record of the board that is pinned  *)
(* to it.  It survives every interruption, because a page pins a board     *)
(* only to a host that has begun a new session, and so has no candidate.   *)
(* What an operation has learned about the board holds while the port is   *)
(* open: a board that reboots or is reset takes the port with it.          *)
(***************************************************************************)
EXTENDS HardwareSession, TLAPS

core == board.core
Open == port = "open"

Views ==
    [provisioned : BOOLEAN, server : 0 .. Other, key : Keys, crypto_ready : BOOLEAN,
     registered : BOOLEAN]
Operations ==
    [kind : Kinds, step : Steps, resume : BOOLEAN, shown : Keys, created : 0 .. MaxSessions,
     frame : Frame, quiet : BOOLEAN, pass : 0 .. MaxPasses]

Shape == TypeOK /\ device \in Views /\ op \in Operations

-----------------------------------------------------------------------------
(***************************************************************************)
(* What the two sides keep.                                                *)
(***************************************************************************)
HostSound(h) ==
    /\ h.registered => h.challenge # 0 /\ h.candidate = 0
    /\ 0 < h.request => h.registered
    /\ h.pending \/ h.receipt => 0 < h.request

\* d is the record of a board that is pinned to the host with the record h.
Pair(h, d) ==
    /\ d.registered => h.registered
    /\ h.registered \/ h.candidate # 0 => d.challenge = h.challenge /\ d.claimed
    /\ h.registered => h.peer = d.key
    /\ h.candidate # 0 => h.candidate = d.key /\ h.challenge # 0
    /\ d.got <= h.request
    /\ d.reply => d.registered /\ 0 < d.got
    /\ 0 < h.request /\ ~h.pending => d.registered /\ d.got = h.request

HostsInv ==
    /\ \A s \in Sessions : HostSound(store[s])
    /\ \A s \in Sessions : store[s] # NoHost => store[s].id = s
    /\ row # 0 => store[row] # NoHost
    /\ server \in {0, row}

BoardSound(b) ==
    /\ b.provisioned <=> b.core.server # 0
    /\ ~b.provisioned => b.core = NewDevice(0, 0)
    /\ b.provisioned => b.core.key # 0
    /\ b.ready <=> b.crypto_ready /\ b.provisioned

BoardInv ==
    /\ BoardSound(board)
    /\ core.server \in Sessions => row = core.server /\ Pair(store[row], core)

-----------------------------------------------------------------------------
(***************************************************************************)
(* What an operation knows in each of its steps.                           *)
(***************************************************************************)
Registering == {"identity", "row", "begin", "setup"}
Exchanging  == {"send", "forward", "collect", "take", "decide"}
Checking    == {"check", "entropy"}
Hosted      == Exchanging \cup Checking \cup {"begin", "setup", "approve", "update"}

KindFits(kind, step) ==
    /\ step = "idle" => kind = "none"
    /\ step = "inspect" => kind \in {"connect", "register"}
    /\ step = "restore" => kind = "connect"
    /\ step \in Registering => kind = "register"
    /\ step \in Exchanging \cup Checking => kind \in {"register", "approve", "update"}
    /\ step \in {"approve", "update"} => kind = step
    /\ step = "last" => kind \in Controls

PortInv ==
    /\ KindFits(op.kind, op.step)
    /\ op.step = "idle" => op = Idle
    /\ op # Idle => port # "closed"
    /\ due => op.step \in {"send", "decide"} \/ port = "closed"

\* A registration in progress has the room that it asked for.
RoomInv ==
    /\ op.step \in {"inspect", "restore", "identity", "row", "begin"}
          /\ (op.kind = "connect" => op.resume) => rounds < MaxChallenges /\ keys < MaxKeys
    /\ op.step = "setup" => keys < MaxKeys

\* What the page last saw of the board: one that had no identity has none yet.
ViewInv ==
    /\ device.provisioned => device.server # 0
    /\ op.step \in Registering \cup {"restore"} /\ ~device.provisioned => ~board.provisioned
    /\ op.step \in Registering /\ server = 0 => ~device.provisioned
    /\ op.kind \in Controls \/ (op = Idle /\ Open /\ ~problem) =>
          (server = 0 => ~board.provisioned)
    /\ op.kind = "approve" /\ op.step \in {"entropy", "approve"} => device.server = server

\* Host and board have nothing left to say, or one frame and its answer.
Quiescent ==
    ~due /\ ~host.pending /\ ~host.receipt /\ (Open => core.registered /\ ~core.reply)

OneLeft ==
    /\ ~host.pending
    /\ IF due THEN ~host.receipt /\ (Open => ~core.reply) ELSE host.receipt

AtSend ==
    /\ op.pass = 2 => Quiescent
    /\ op.pass = 1 \/ due => Quiescent \/ OneLeft

\* The frame in hand is the host's, and says what the host says now.
AtForward ==
    LET f == op.frame
    IN  /\ f.from = server /\ f.to = host.peer
        /\ f.challenge = host.challenge /\ f.id = host.request
        /\ f.kind \in DownKinds /\ (f.kind = "invitation" <=> ~host.registered)
        /\ f.kind \in {"confirmation", "receipt"} => ~host.receipt /\ ~host.pending
        /\ f.kind = "confirmation" => (Open => ~core.reply)
        /\ f.kind = "receipt" => 0 < host.request
        /\ f.kind = "request" => host.pending
        /\ op.pass # 2 /\ ~op.quiet
        /\ op.pass = 1 => f.kind \in {"confirmation", "receipt"}

AtCollect ==
    /\ op.pass = 2 => op.quiet
    /\ 0 < op.pass => Quiescent
    /\ op.quiet => host.registered /\ ~host.pending /\ ~host.receipt
    /\ host.registered =>
          \/ host.pending /\ (Open => core.reply /\ core.got = host.request)
          \/ ~host.pending /\ ~host.receipt
    /\ ~host.registered /\ Open => core.challenge = host.challenge

\* The frame in hand is the board's, unless the board is no longer what it was.
AtTake ==
    LET f == op.frame
    IN  /\ HostAccepts(host, f) /\ f.from \in Keys
        /\ f.kind = "report" => f.id = host.request /\ 0 < host.request
        /\ f.kind = "claim" /\ host.registered => ~host.pending /\ ~host.receipt
        /\ core.server = server =>
              /\ f.from = core.key /\ f.challenge = core.challenge /\ core.claimed
              /\ IF f.kind = "report" THEN core.registered /\ core.got = f.id
                 ELSE ~core.registered
        /\ op.pass = 0 /\ ~op.quiet

AtDecide ==
    /\ op.pass = 2 => op.quiet
    /\ op.quiet \/ op.pass = 1 => host.registered /\ Quiescent
    /\ IF host.registered THEN Quiescent \/ OneLeft
       ELSE ~due /\ (Open => host.candidate = core.key)

InExchange ==
    /\ host.registered \/ host.challenge # 0
    /\ op.kind \in {"approve", "update"} \/ 0 < op.pass => host.registered
    /\ op.kind = "update" => 0 < host.request
    /\ Open => board.ready /\ core.server = server
    /\ op.pass <= 2

StepInv ==
    /\ op.step \in Hosted => server # 0
    /\ op.step = "row" => op.created # 0 /\ store[op.created] # NoHost /\ ~device.provisioned
    /\ op.step = "setup" =>
          ~host.registered /\ host.challenge # 0 /\ host.candidate = 0 /\ ~device.provisioned
    /\ op.step \in Checking \cup {"approve", "update"} =>
          CASE op.kind = "register" -> host.registered \/ host.challenge # 0
            [] op.kind = "approve"  -> ~host.registered
            [] op.kind = "update"   -> host.registered /\ host.request < MaxRequests
    /\ op.step = "entropy" /\ Open => ~board.crypto_ready /\ core.server = server
    /\ op.step \in {"approve", "update"} /\ Open => board.ready /\ core.server = server
    /\ op.step \notin Exchanging \cup {"last"} => op.pass = 0

ExchangeInv ==
    /\ op.step \in Exchanging => InExchange
    /\ op.step = "send"    => AtSend
    /\ op.step = "forward" => AtForward
    /\ op.step = "collect" => AtCollect
    /\ op.step = "take"    => AtTake
    /\ op.step = "decide"  => AtDecide
    /\ op.step = "last"    => op.pass <= 2 /\ (Open => ReportsWhatIsDone)

OpInv == PortInv /\ RoomInv /\ ViewInv /\ StepInv /\ ExchangeInv

Inv == Shape /\ HostsInv /\ BoardInv /\ OpInv /\ RefusesOnlyEarlyRequests

-----------------------------------------------------------------------------
(***************************************************************************)
(* The frames and records of ManagedPair, field by field.                  *)
(***************************************************************************)
LEMMA Numbers ==
    /\ MaxSessions \in Nat /\ MaxKeys \in Nat /\ MaxChallenges \in Nat
    /\ MaxRequests \in Nat /\ MaxFaults \in Nat /\ MaxPasses \in Nat
    /\ Other = MaxSessions + 1 /\ Other \notin Sessions /\ 0 \notin Sessions
    /\ Sessions = (0 .. MaxSessions) \ {0}
    /\ NoHost \in Host /\ NoHost.id = 0
BY BoundsAssumption
   DEF Other, Sessions, NoHost, NewHost, Host, HostRecord, Keys, Rounds, Requests

LEMMA HostFrameFacts ==
    ASSUME NEW h \in Host, NEW d \in BOOLEAN
    PROVE  LET f == HostFrame(h, d)
           IN  /\ f \in Frame
               /\ f = Nothing <=> f.kind = "none"
               /\ f.kind \in DownKinds \cup {"none"}
               /\ f.kind # "none" =>
                     /\ f.from = h.id /\ f.to = h.peer
                     /\ f.challenge = h.challenge /\ f.id = h.request
               /\ f.kind = "invitation"   <=> ~h.registered /\ h.challenge # 0
               /\ f.kind = "confirmation" <=> h.registered /\ d
               /\ f.kind = "request"      <=> h.registered /\ ~d /\ h.pending
               /\ f.kind = "receipt"      <=> h.registered /\ ~d /\ ~h.pending /\ h.receipt
<1> DEFINE F(kind) == [kind |-> kind, from |-> h.id, to |-> h.peer,
                       challenge |-> h.challenge, id |-> h.request]
           f == HostFrame(h, d)
<1>1. /\ h.id \in Parties /\ h.peer \in Parties /\ h.challenge \in Rounds
      /\ h.request \in Requests /\ h.registered \in BOOLEAN
      /\ h.pending \in BOOLEAN /\ h.receipt \in BOOLEAN
  BY Numbers DEF Host, HostRecord, Parties
<1> QED
  BY <1>1, Numbers DEF HostFrame, Frame, Parties, Nothing, DownKinds, Rounds, Requests

LEMMA BoardFrameFacts ==
    ASSUME NEW d \in DeviceRecord(0 .. Other, Keys, Rounds, Requests)
    PROVE  LET f == DeviceFrame(d)
           IN  /\ f \in Frame
               /\ f = Nothing <=> f.kind = "none"
               /\ f.kind \in UpKinds \cup {"none"}
               /\ f.kind # "none" =>
                     /\ f.from = d.key /\ f.to = d.server
                     /\ f.challenge = d.challenge /\ f.id = d.got
               /\ f.kind = "claim"  <=> ~d.registered /\ d.challenge # 0
               /\ f.kind = "report" <=> d.registered /\ d.reply
BY Numbers DEF DeviceRecord, DeviceFrame, Frame, Parties, Nothing, UpKinds, Rounds, Requests, Keys

LEMMA HostChanges ==
    ASSUME NEW h \in Host
    PROVE  /\ \A c \in Rounds : Begun(h, c) \in Host
           /\ \A k \in Keys : Approved(h, k) \in Host
           /\ h.request < MaxRequests => Requested(h) \in Host
           /\ \A d \in BOOLEAN : HostSent(h, d) \in Host
           /\ \A f \in Frame : HostAccepts(h, f) /\ f.from \in Keys => HostReceived(h, f) \in Host
<1>1. \A c \in Rounds : Begun(h, c) \in Host
  <2>1. 0 \in Keys
    BY Numbers DEF Keys
  <2> QED
    BY <2>1 DEF Host, HostRecord, Begun
<1>2. \A k \in Keys : Approved(h, k) \in Host
  <2>1. 0 \in Keys
    BY Numbers DEF Keys
  <2> QED
    BY <2>1 DEF Host, HostRecord, Approved
<1>3. h.request < MaxRequests => Requested(h) \in Host
  <2>1. h.request \in Requests
    BY DEF Host, HostRecord
  <2>2. h.request < MaxRequests => h.request + 1 \in Requests
    BY <2>1, Numbers DEF Requests
  <2> QED
    BY <2>2 DEF Host, HostRecord, Requested
<1>4. \A d \in BOOLEAN : HostSent(h, d) \in Host
  BY DEF Host, HostRecord, HostSent
<1>5. \A f \in Frame : HostAccepts(h, f) /\ f.from \in Keys => HostReceived(h, f) \in Host
  BY DEF Host, HostRecord, HostReceived
<1> QED
  BY <1>1, <1>2, <1>3, <1>4, <1>5

LEMMA BoardTypes ==
    ASSUME NEW b \in Board
    PROVE  /\ b.core \in DeviceRecord(0 .. Other, Keys, Rounds, Requests)
           /\ EmptyBoard \in Board
           /\ \A f \in Frame : DeviceReceived(b.core, f) \in DeviceRecord(0 .. Other, Keys, Rounds, Requests)
           /\ DeviceSent(b.core) \in DeviceRecord(0 .. Other, Keys, Rounds, Requests)
           /\ \A c \in DeviceRecord(0 .. Other, Keys, Rounds, Requests) : [b EXCEPT !.core = c] \in Board
           /\ View(b) \in Views
<1>1. b.core \in DeviceRecord(0 .. Other, Keys, Rounds, Requests)
  BY DEF Board
<1>2. EmptyBoard \in Board
  BY Numbers DEF EmptyBoard, Board, NewDevice, DeviceRecord, Keys, Rounds, Requests, Other
<1>3. \A f \in Frame : DeviceReceived(b.core, f) \in DeviceRecord(0 .. Other, Keys, Rounds, Requests)
  BY <1>1 DEF DeviceReceived, DeviceRecord, Frame
<1>4. DeviceSent(b.core) \in DeviceRecord(0 .. Other, Keys, Rounds, Requests)
  BY <1>1 DEF DeviceSent, DeviceRecord
<1>5. \A c \in DeviceRecord(0 .. Other, Keys, Rounds, Requests) : [b EXCEPT !.core = c] \in Board
  BY DEF Board
<1>6. View(b) \in Views
  BY <1>1 DEF View, Views, Board, DeviceRecord
<1> QED
  BY <1>1, <1>2, <1>3, <1>4, <1>5, <1>6

-----------------------------------------------------------------------------
(***************************************************************************)
(* What a step makes of the records.                                       *)
(***************************************************************************)
LEMMA DataKept ==
    ASSUME HostsInv, BoardInv, UNCHANGED <<board, store, row, server>>
    PROVE  HostsInv' /\ BoardInv'
BY DEF HostsInv, BoardInv, core

\* The host at work is the saved one, and its record may change as long as it
\* goes with the board pinned to it.
LEMMA StoreChange ==
    ASSUME Shape, HostsInv, BoardInv, server # 0,
           NEW h \in Host, HostSound(h), h.id = server,
           core.server = server => Pair(h, core),
           store' = [store EXCEPT ![server] = h], UNCHANGED <<board, row, server>>
    PROVE  /\ server \in Sessions /\ store' \in [Sessions -> Host]
           /\ host' = h /\ \A s \in Sessions : store[s] # NoHost => store'[s] # NoHost
           /\ HostsInv' /\ BoardInv'
<1>1. server \in Sessions /\ server = row
  BY Numbers DEF Shape, TypeOK, HostsInv
<1>2. store' \in [Sessions -> Host] /\ store'[server] = h
      /\ \A s \in Sessions : s # server => store'[s] = store[s]
  BY <1>1 DEF Shape, TypeOK
<1>3. h # NoHost
  BY <1>1, Numbers
<1>4. HostsInv'
  BY <1>1, <1>2, <1>3 DEF HostsInv
<1>5. BoardInv'
  BY <1>1, <1>2 DEF BoardInv, core
<1> QED
  BY <1>1, <1>2, <1>3, <1>4, <1>5 DEF host

LEMMA BoardChange ==
    ASSUME Shape, HostsInv, BoardSound(board'),
           core'.server \in Sessions => row = core'.server /\ Pair(store[row], core'),
           UNCHANGED <<store, row, server>>
    PROVE  HostsInv' /\ BoardInv'
BY DEF HostsInv, BoardInv, core

-----------------------------------------------------------------------------
(***************************************************************************)
(* The ways in which an operation ends, and what may befall it.            *)
(***************************************************************************)
LEMMA IdleOp ==
    ASSUME op' = Idle, ~device'.provisioned \/ device'.server # 0, ~due' \/ port' = "closed",
           port' = "open" /\ ~problem' => (server' = 0 => ~board'.provisioned)
    PROVE  OpInv'
<1>1. op'.kind = "none" /\ op'.step = "idle" /\ op'.pass = 0
  BY DEF Idle
<1>2. PortInv'
  BY <1>1 DEF PortInv, KindFits, Registering, Exchanging, Checking
<1>3. RoomInv' /\ StepInv' /\ ExchangeInv'
  BY <1>1 DEF RoomInv, StepInv, ExchangeInv, Hosted, Registering, Exchanging, Checking
<1>4. ViewInv'
  BY <1>1 DEF ViewInv, Registering, Controls, Open
<1> QED
  BY <1>2, <1>3, <1>4 DEF OpInv

LEMMA IdleShape == Idle \in Operations
BY Numbers DEF Idle, Operations, Kinds, Steps, Keys, Frame, Nothing, Parties, Rounds, Requests

LEMMA ShapeOf ==
    ASSUME board' \in Board, store' \in [Sessions -> Host], row' \in 0 .. MaxSessions,
           server' \in 0 .. MaxSessions, port' \in {"closed", "open", "failed"},
           due' \in BOOLEAN, problem' \in BOOLEAN, device' \in Views, op' \in Operations,
           keys' \in Keys, rounds' \in Rounds, faults' \in 0 .. MaxFaults
    PROVE  Shape'
<1>1. device'.key \in Keys /\ device'.server \in 0 .. Other
  BY DEF Views
<1>2. /\ op'.kind \in Kinds /\ op'.step \in Steps /\ op'.shown \in Keys
      /\ op'.created \in 0 .. MaxSessions /\ op'.frame \in Frame
  BY DEF Operations
<1> QED
  BY <1>1, <1>2 DEF Shape, TypeOK

\* fail() in the page: the records are kept, the operation is not.
LEMMA FailKeeps ==
    ASSUME Inv, Fail, UNCHANGED <<board, store, row, server, due, keys, rounds, faults>>,
           device' \in Views, device'.provisioned => device'.server # 0, RefusesOnlyEarlyRequests'
    PROVE  Inv'
<1>1. HostsInv' /\ BoardInv'
  BY DataKept DEF Inv
<1>2. Shape'
  BY IdleShape, ShapeOf DEF Inv, Shape, TypeOK, Fail
<1>3. OpInv'
  BY IdleOp DEF Fail
<1> QED
  BY <1>1, <1>2, <1>3 DEF Inv

\* A call that gives up: the board ran the command and became b, or did not.
LEMMA RejectedKeeps ==
    ASSUME Inv, NEW b \in Board, Rejected(b), keys' \in Keys, BoardSound(b),
           b.core.server \in Sessions => row = b.core.server /\ Pair(store[row], b.core)
    PROVE  Inv'
<1>1. /\ board' \in {board, b} /\ faults' \in 0 .. MaxFaults
      /\ op' = Idle /\ port' = "closed" /\ problem' = TRUE
      /\ UNCHANGED <<store, row, server, due, device, rounds, refused>>
  BY Numbers DEF Rejected, Fail, Inv, Shape, TypeOK
<1>2. HostsInv' /\ BoardInv'
  BY <1>1, BoardChange DEF Inv, BoardInv, core
<1>3. Shape'
  BY <1>1, IdleShape DEF Inv, Shape, TypeOK, Operations
<1>4. OpInv'
  BY <1>1, IdleOp DEF Inv, OpInv, ViewInv
<1>5. RefusesOnlyEarlyRequests'
  BY <1>1 DEF Inv, RefusesOnlyEarlyRequests
<1> QED
  BY <1>2, <1>3, <1>4, <1>5 DEF Inv

LEMMA RejectedUnchanged ==
    ASSUME Inv, Rejected(board), keys' = keys
    PROVE  Inv'
<1>1. board \in Board /\ keys' \in Keys
  BY DEF Inv, Shape, TypeOK
<1> QED
  BY <1>1, RejectedKeeps DEF Inv, BoardInv, core

\* The link goes, and the board keeps its records or loses them all: what the
\* operation knows of an open port is no longer claimed.
LEMMA LinkLost ==
    ASSUME Inv, UNCHANGED <<store, row, server, due, device, op, keys, rounds, refused>>,
           port' \in {"closed", "failed"}, (port' = "closed") <=> (op = Idle), problem' \in BOOLEAN,
           faults' \in 0 .. MaxFaults, board' \in Board, BoardSound(board'),
           board' = EmptyBoard \/ (core' = core /\ board'.provisioned = board.provisioned)
    PROVE  Inv'
<1>1. ~Open' /\ (board'.provisioned => board.provisioned /\ core' = core)
      /\ (core'.server # 0 => core' = core)
  BY DEF Open, EmptyBoard, core, NewDevice
<1>2. HostsInv' /\ BoardInv'
  BY <1>1, BoardChange, Numbers DEF Inv, BoardInv
<1>3. Shape'
  BY DEF Inv, Shape, TypeOK
<1>4. PortInv' /\ RoomInv'
  BY DEF Inv, OpInv, PortInv, RoomInv, KindFits, Idle, Registering, Exchanging, Checking
<1>5. ViewInv'
  BY <1>1 DEF Inv, OpInv, ViewInv, Open
<1>6. StepInv'
  BY <1>1 DEF Inv, OpInv, StepInv, host
<1>7. host' = host /\ UNCHANGED <<op, due, server>>
  BY DEF host
<1>8. Quiescent => Quiescent'
  BY <1>1, <1>7 DEF Quiescent
<1>9. OneLeft => OneLeft'
  BY <1>1, <1>7 DEF OneLeft
<1>10. ExchangeInv'
  <2>1. op.step \in Exchanging => InExchange'
    BY <1>1, <1>7 DEF Inv, OpInv, ExchangeInv, InExchange
  <2>2. op.step = "send" => AtSend'
    BY <1>7, <1>8, <1>9 DEF Inv, OpInv, ExchangeInv, AtSend
  <2>3. op.step = "forward" => AtForward'
    BY <1>1, <1>7 DEF Inv, OpInv, ExchangeInv, AtForward
  <2>4. op.step = "collect" => AtCollect'
    BY <1>1, <1>7, <1>8 DEF Inv, OpInv, ExchangeInv, AtCollect
  <2>5. op.step = "take" => AtTake'
    <3>1. op.step = "take" => server # 0
      BY DEF Inv, OpInv, StepInv, Hosted, Exchanging
    <3> QED
      BY <1>1, <1>7, <3>1 DEF Inv, OpInv, ExchangeInv, AtTake
  <2>6. op.step = "decide" => AtDecide'
    BY <1>1, <1>7, <1>8, <1>9 DEF Inv, OpInv, ExchangeInv, AtDecide
  <2> QED
    BY <1>1, <1>7, <2>1, <2>2, <2>3, <2>4, <2>5, <2>6 DEF Inv, OpInv, ExchangeInv
<1>11. RefusesOnlyEarlyRequests'
  BY DEF Inv, RefusesOnlyEarlyRequests
<1> QED
  BY <1>2, <1>3, <1>4, <1>5, <1>6, <1>10, <1>11 DEF Inv, OpInv

LEMMA WorldStep ==
    ASSUME Inv, Disconnect \/ UsbLost \/ BoardReboots \/ FactoryReset
    PROVE  Inv'
<1>1. /\ board \in Board /\ BoardSound(board) /\ EmptyBoard \in Board /\ BoardSound(EmptyBoard)
      /\ faults \in 0 .. MaxFaults /\ MaxFaults \in Nat /\ problem \in BOOLEAN
  BY BoardTypes, Numbers DEF Inv, Shape, TypeOK, BoardInv, BoardSound, EmptyBoard, NewDevice
<1>2. Fault => faults' \in 0 .. MaxFaults
  BY <1>1 DEF Fault
<1>3. op # Idle => port # "closed"
  BY DEF Inv, OpInv, PortInv
<1>4. port \in {"closed", "open", "failed"}
  BY DEF Inv, Shape, TypeOK
<1>5. CASE Disconnect
  BY <1>1, <1>5, LinkLost DEF Disconnect, core
<1>6. CASE UsbLost
  BY <1>1, <1>2, <1>3, <1>6, LinkLost DEF UsbLost, UsbLoss, core
<1>7. CASE BoardReboots
  <2>1. /\ board' \in Board /\ core' = core /\ board'.provisioned = board.provisioned
        /\ BoardSound(board')
    BY <1>1, <1>7 DEF BoardReboots, Board, BoardSound, core
  <2> QED
    BY <1>1, <1>2, <1>3, <1>4, <1>7, <2>1, LinkLost DEF BoardReboots, UsbLoss
<1>8. CASE FactoryReset
  BY <1>1, <1>2, <1>3, <1>4, <1>8, LinkLost DEF FactoryReset, UsbLoss
<1> QED
  BY <1>5, <1>6, <1>7, <1>8

LEMMA ElsewhereStep ==
    ASSUME Inv, RegisteredElsewhere
    PROVE  Inv'
<1>1. /\ op = Idle /\ port = "closed" /\ keys' \in Keys /\ keys + 1 \in Keys /\ keys + 1 # 0
      /\ faults' \in 0 .. MaxFaults
  BY Numbers DEF RegisteredElsewhere, Fault, Inv, Shape, TypeOK, OpInv, PortInv, Keys
<1>2. /\ board' \in Board /\ board'.core.server = Other /\ board'.core.key = keys + 1
      /\ board'.provisioned /\ ~board'.ready /\ ~board'.crypto_ready
  <2> DEFINE c == [NewDevice(keys + 1, Other) EXCEPT !.claimed = TRUE, !.registered = TRUE]
  <2>1. Other \in 0 .. Other /\ 0 \in Rounds /\ 0 \in Requests
    BY Numbers DEF Rounds, Requests
  <2>2. c \in DeviceRecord(0 .. Other, Keys, Rounds, Requests) /\ c.server = Other /\ c.key = keys + 1
    BY <1>1, <2>1 DEF NewDevice, DeviceRecord
  <2>3. board' = [EmptyBoard EXCEPT !.provisioned = TRUE, !.core = c]
    BY DEF RegisteredElsewhere
  <2> HIDE DEF c
  <2> QED
    BY <2>2, <2>3 DEF EmptyBoard, Board
<1>3. HostsInv' /\ BoardInv'
  BY <1>1, <1>2, Numbers, BoardChange
     DEF RegisteredElsewhere, BoardSound, Inv, core, page
<1>4. Shape'
  BY <1>1, <1>2 DEF RegisteredElsewhere, Inv, Shape, TypeOK, page
<1>5. OpInv'
  BY <1>1, IdleOp DEF RegisteredElsewhere, Inv, OpInv, ViewInv, page
<1> QED
  BY <1>3, <1>4, <1>5 DEF Inv, RefusesOnlyEarlyRequests, RegisteredElsewhere

LEMMA ReloadStep ==
    ASSUME Inv, Reload
    PROVE  Inv'
<1>1. View(EmptyBoard) \in Views /\ ~View(EmptyBoard).provisioned /\ View(EmptyBoard).key \in Keys
      /\ View(EmptyBoard).server \in 0 .. Other /\ faults' \in 0 .. MaxFaults
  <2>1. EmptyBoard \in Board
    BY BoardTypes DEF Inv, Shape, TypeOK
  <2>2. View(EmptyBoard) \in Views
    BY <2>1, BoardTypes
  <2> QED
    BY <2>2, Numbers DEF Reload, Fault, View, Views, EmptyBoard, NewDevice, Inv, Shape, TypeOK
<1>2. HostsInv' /\ BoardInv'
  BY DEF Reload, Inv, HostsInv, BoardInv, core
<1>3. Shape'
  <2>1. 0 \in 0 .. MaxSessions
    BY Numbers
  <2> QED
    BY <1>1, <2>1, IdleShape, ShapeOf DEF Reload, Inv, Shape, TypeOK
<1>4. OpInv'
  BY <1>1, IdleOp DEF Reload
<1> QED
  BY <1>2, <1>3, <1>4 DEF Inv, RefusesOnlyEarlyRequests, Reload

-----------------------------------------------------------------------------
(***************************************************************************)
(* Connecting and registering.                                             *)
(***************************************************************************)
LEMMA Moves ==
    ASSUME op \in Operations, NEW s \in Steps, To(s)
    PROVE  /\ op' \in Operations /\ op'.step = s /\ op'.kind = op.kind /\ op'.resume = op.resume
           /\ op'.shown = op.shown /\ op'.created = op.created /\ op'.frame = op.frame
           /\ op'.quiet = op.quiet /\ op'.pass = op.pass
BY DEF To, Operations

LEMMA NotExchanging ==
    ASSUME op'.step \notin Exchanging \cup {"last"}
    PROVE  ExchangeInv'
BY DEF ExchangeInv, Exchanging

LEMMA Sending ==
    ASSUME op'.step = "send", InExchange', AtSend'
    PROVE  ExchangeInv'
BY DEF ExchangeInv

LEMMA Facts ==
    ASSUME Inv
    PROVE  /\ op \in Operations /\ op.step \in Steps /\ op.kind \in Kinds /\ KindFits(op.kind, op.step)
           /\ board \in Board /\ BoardSound(board) /\ View(board) \in Views
           /\ (View(board)).provisioned = board.provisioned
           /\ (View(board)).server = core.server /\ (View(board)).key = core.key
           /\ (View(board)).crypto_ready = board.crypto_ready
           /\ server \in 0 .. MaxSessions /\ row \in 0 .. MaxSessions
           /\ keys \in Keys /\ rounds \in Rounds /\ faults \in 0 .. MaxFaults
           /\ device \in Views /\ problem \in BOOLEAN /\ due \in BOOLEAN
           /\ port \in {"closed", "open", "failed"} /\ store \in [Sessions -> Host]
BY BoardTypes
   DEF Inv, Shape, TypeOK, BoardInv, OpInv, PortInv, View, core, Operations, Board, BoardSound

\* Before it exchanges, an operation has a link and nothing to confirm.
LEMMA Early ==
    ASSUME Inv, op.step \in Registering \cup Checking \cup {"inspect", "restore", "approve", "update"}
    PROVE  op.pass = 0 /\ ~due /\ port # "closed" /\ op # Idle
<1>1. op.step \notin Exchanging \cup {"last", "idle"}
  BY DEF Registering, Checking, Exchanging
<1>2. op # Idle
  BY <1>1 DEF Idle
<1> QED
  BY <1>1, <1>2 DEF Inv, OpInv, PortInv, StepInv, Exchanging

LEMMA ConnectStep ==
    ASSUME Inv, NEW expected \in BOOLEAN, Connect(expected)
    PROVE  Inv'
<1>1. op' \in Operations /\ op'.step = "inspect" /\ op'.kind = "connect" /\ op'.pass = 0
      /\ op'.resume = ~expected
  BY IdleShape DEF Connect, Idle, Operations, Kinds, Steps
<1>2. View(EmptyBoard) \in Views /\ ~View(EmptyBoard).provisioned
  <2>1. EmptyBoard \in Board
    BY BoardTypes, Facts
  <2>2. View(EmptyBoard) \in Views
    BY <2>1, BoardTypes
  <2> QED
    BY <2>2 DEF View, EmptyBoard
<1>3. HostsInv' /\ BoardInv'
  BY DEF Connect, Inv, HostsInv, BoardInv, core
<1>4. Shape'
  <2>1. 0 \in 0 .. MaxSessions
    BY Numbers
  <2> QED
    BY <1>1, <1>2, <2>1, Facts, ShapeOf DEF Connect
<1>5. PortInv' /\ RoomInv'
  BY <1>1 DEF Connect, Room, PortInv, RoomInv, KindFits, Idle, Registering, Exchanging, Checking
<1>6. ViewInv' /\ StepInv'
  BY <1>1, <1>2 DEF Connect, ViewInv, StepInv, Hosted, Registering, Checking, Exchanging, Controls, Idle
<1>7. ExchangeInv'
  BY <1>1, NotExchanging DEF Exchanging
<1> QED
  BY <1>3, <1>4, <1>5, <1>6, <1>7 DEF Inv, OpInv, RefusesOnlyEarlyRequests, Connect

LEMMA InspectStep ==
    ASSUME Inv, Inspect
    PROVE  Inv'
<1>1. CASE Rejected(board)
  BY <1>1, RejectedUnchanged DEF Inspect
<1>2. CASE /\ Answered /\ device' = View(board) /\ To(AfterInspect)
           /\ UNCHANGED <<board, store, row, port, server, due, problem, rounds, refused, faults>>
  <2>1. op.step = "inspect" /\ keys' = keys /\ op.kind \in {"connect", "register"}
    BY Facts DEF Inspect, KindFits
  <2>2. AfterInspect \in Steps /\ AfterInspect = IF op.kind = "connect" THEN "restore" ELSE "identity"
    BY <2>1 DEF AfterInspect, Steps
  <2>3. op' \in Operations /\ op'.step = AfterInspect /\ op'.kind = op.kind
        /\ op'.resume = op.resume /\ op'.pass = op.pass
    BY <1>2, <2>2, Facts, Moves
  <2>4. HostsInv' /\ BoardInv'
    BY <1>2, DataKept DEF Inv
  <2>5. Shape'
    BY <1>2, <2>1, <2>3, Facts, ShapeOf
  <2>6. PortInv' /\ RoomInv'
    BY <1>2, <2>1, <2>2, <2>3
       DEF Inv, OpInv, PortInv, RoomInv, KindFits, Idle, Registering, Exchanging, Checking, Answered
  <2>7. ViewInv'
    BY <1>2, <2>1, <2>2, <2>3, Facts
       DEF Inv, OpInv, ViewInv, Registering, BoardSound, core, Controls, Idle
  <2>8. StepInv'
    BY <1>2, <2>1, <2>2, <2>3 DEF Inv, OpInv, StepInv, Hosted, Checking, Exchanging
  <2>9. ExchangeInv'
    BY <2>2, <2>3, NotExchanging DEF Exchanging
  <2> QED
    BY <1>2, <2>4, <2>5, <2>6, <2>7, <2>8, <2>9 DEF Inv, OpInv, RefusesOnlyEarlyRequests
<1> QED
  BY <1>1, <1>2 DEF Inspect

LEMMA RestoreStep ==
    ASSUME Inv, Restore
    PROVE  Inv'
<1>1. op.step = "restore" /\ op.kind = "connect" /\ op.pass = 0
      /\ UNCHANGED <<board, store, row, port, device, keys, rounds, refused, faults>>
  BY Facts DEF Restore, Inv, OpInv, StepInv, KindFits, Registering, Exchanging
<1>2. /\ device.provisioned => device.server # 0
      /\ ~device.provisioned => ~board.provisioned
      /\ due => port = "closed"
      /\ op # Idle /\ port # "closed"
  BY <1>1 DEF Inv, OpInv, ViewInv, PortInv, Idle
<1>3. CASE Foreign
  <2>1. op' = Idle /\ problem' = TRUE /\ UNCHANGED <<server, due>>
    BY <1>3 DEF Restore
  <2>2. HostsInv' /\ BoardInv'
    BY <1>1, <2>1, DataKept DEF Inv
  <2>3. Shape'
    BY <1>1, <2>1, IdleShape, Facts, ShapeOf
  <2>4. OpInv'
    BY <1>1, <1>2, <2>1, IdleOp
  <2> QED
    BY <1>1, <2>2, <2>3, <2>4 DEF Inv, RefusesOnlyEarlyRequests
<1>4. CASE ~Foreign /\ op.resume /\ ~device.registered
  <2>1. server' = row /\ due' = FALSE /\ problem' = problem
        /\ op' = [op EXCEPT !.kind = "register", !.step = "inspect"]
    BY <1>4 DEF Restore
  <2>2. op' \in Operations /\ op'.step = "inspect" /\ op'.kind = "register" /\ op'.pass = 0
    BY <1>1, <2>1, Facts DEF Operations, Kinds, Controls, Steps
  <2>3. HostsInv' /\ BoardInv'
    BY <1>1, <2>1 DEF Inv, HostsInv, BoardInv, core
  <2>4. Shape'
    BY <1>1, <2>1, <2>2, Facts, ShapeOf
  <2>5. PortInv' /\ RoomInv'
    BY <1>1, <1>2, <1>4, <2>1, <2>2 DEF Inv, OpInv, PortInv, RoomInv, KindFits, Idle, Registering, Exchanging, Checking
  <2>6. ViewInv' /\ StepInv'
    BY <1>1, <1>2, <1>4, <2>1, <2>2
       DEF ViewInv, StepInv, Foreign, Hosted, Registering, Checking, Exchanging
  <2>7. ExchangeInv'
    BY <2>2, NotExchanging DEF Exchanging
  <2> QED
    BY <1>1, <2>3, <2>4, <2>5, <2>6, <2>7 DEF Inv, OpInv, RefusesOnlyEarlyRequests
<1>5. CASE ~Foreign /\ ~(op.resume /\ ~device.registered)
  <2>1. op' = Idle /\ server' = row /\ due' = FALSE /\ problem' = problem
    BY <1>5 DEF Restore
  <2>2. HostsInv' /\ BoardInv'
    BY <1>1, <2>1 DEF Inv, HostsInv, BoardInv, core
  <2>3. Shape'
    BY <1>1, <2>1, IdleShape, Facts, ShapeOf
  <2>4. OpInv'
    BY <1>1, <1>2, <1>5, <2>1, IdleOp DEF Foreign
  <2> QED
    BY <1>1, <2>2, <2>3, <2>4 DEF Inv, RefusesOnlyEarlyRequests
<1> QED
  BY <1>3, <1>4, <1>5

LEMMA CommandStep ==
    ASSUME Inv, NEW kind \in Controls, Command(kind)
    PROVE  Inv'
<1>1. /\ op = Idle /\ port = "open" /\ ~problem /\ ~due /\ Offered(kind)
      /\ server = 0 => ~board.provisioned
      /\ UNCHANGED <<board, store, row, port, server, due, problem, device, keys, rounds,
                     refused, faults>>
  BY DEF Command, Usable, Inv, OpInv, PortInv, ViewInv, Idle, Open
<1>2. op' \in Operations /\ op'.kind = kind /\ op'.step = FirstStep(kind) /\ op'.pass = 0
  <2>1. FirstStep(kind) \in Steps /\ kind \in Kinds
    BY DEF FirstStep, Steps, Kinds, Controls
  <2>2. kind = "approve" => host.candidate \in Keys
    <3>1. kind = "approve" => server # 0 /\ server \in Sessions
      BY <1>1, Facts, Numbers DEF Offered
    <3> QED
      BY <3>1, Facts DEF host, Host, HostRecord
  <2>3. 0 \in Keys
    BY Numbers DEF Keys
  <2> QED
    BY <2>1, <2>2, <2>3, IdleShape DEF Command, Idle, Operations
<1>3. HostsInv' /\ BoardInv'
  BY <1>1, DataKept DEF Inv
<1>4. Shape'
  BY <1>1, <1>2, Facts, ShapeOf
<1>5. FirstStep(kind) = IF kind = "register" THEN "inspect" ELSE IF kind = "inspect" THEN "last"
                        ELSE "check"
  BY DEF FirstStep, Controls
<1>6. PortInv' /\ RoomInv'
  <2>1. kind = "register" => rounds < MaxChallenges /\ keys < MaxKeys
    BY DEF Command, Room
  <2>2. RoomInv'
    BY <1>1, <1>2, <1>5, <2>1 DEF RoomInv, Controls
  <2>3. PortInv'
    BY <1>1, <1>2, <1>5 DEF PortInv, KindFits, Controls, Registering, Exchanging, Checking
  <2> QED
    BY <2>2, <2>3
<1>7. ViewInv'
  BY <1>1, <1>2, <1>5 DEF Inv, OpInv, ViewInv, Registering
<1>8. StepInv'
  BY <1>1, <1>2, <1>5
     DEF StepInv, Offered, Command, Controls, Hosted, Registering, Exchanging, Checking, host
<1>9. ExchangeInv'
  BY <1>1, <1>2, <1>5 DEF ExchangeInv, Exchanging, ReportsWhatIsDone
<1> QED
  BY <1>1, <1>3, <1>4, <1>6, <1>7, <1>8, <1>9 DEF Inv, OpInv, RefusesOnlyEarlyRequests

LEMMA IdentityStep ==
    ASSUME Inv, Identity
    PROVE  Inv'
<1>1. /\ op.step = "identity" /\ op.kind = "register" /\ op.pass = 0 /\ port # "closed" /\ ~due
      /\ UNCHANGED <<board, row, port, server, due, problem, device, keys, rounds, refused, faults>>
  BY Facts, Early DEF Identity, KindFits, Registering
<1>2. CASE NeedsNewHost
  <2>1. PICK s \in Sessions : /\ store[s] = NoHost /\ store' = [store EXCEPT ![s] = NewHost(s)]
                              /\ op' = [op EXCEPT !.step = "row", !.created = s]
    BY <1>2 DEF Identity
  <2>2. s \in 0 .. MaxSessions /\ s # 0
    BY Numbers
  <2>3. NewHost(s) \in Host /\ HostSound(NewHost(s)) /\ NewHost(s).id = s /\ NewHost(s) # NoHost
    BY <2>2, Numbers
       DEF NewHost, NoHost, Host, HostRecord, HostSound, Keys, Rounds, Requests
  <2>4. op' \in Operations /\ op'.step = "row" /\ op'.kind = "register" /\ op'.created = s /\ op'.pass = 0
    BY <1>1, <2>1, <2>2, Facts DEF Operations, Steps
  <2>5. /\ store' \in [Sessions -> Host] /\ store'[s] = NewHost(s)
        /\ \A r \in Sessions : r # s => store'[r] = store[r]
    BY <2>1, <2>3, Facts
  <2>6. row # s
    BY <2>1, <2>2 DEF Inv, HostsInv
  <2>7. HostsInv'
    <3>1. row # 0 => row \in Sessions
      BY Facts, Numbers
    <3> QED
      BY <1>1, <2>3, <2>5, <2>6, <3>1 DEF Inv, HostsInv
  <2>8. BoardInv'
    BY <1>1, <2>5, <2>6 DEF Inv, BoardInv, core
  <2>9. Shape'
    BY <1>1, <2>4, <2>5, Facts, ShapeOf
  <2>10. PortInv' /\ RoomInv'
    BY <1>1, <2>4
       DEF Inv, OpInv, PortInv, RoomInv, KindFits, Registering, Exchanging, Checking, Idle
  <2>11. ViewInv'
    BY <1>1, <2>4 DEF Inv, OpInv, ViewInv, Registering, Controls, Idle
  <2>12. StepInv'
    BY <1>1, <1>2, <2>2, <2>3, <2>4, <2>5
       DEF StepInv, NeedsNewHost, Hosted, Exchanging, Checking
  <2>13. ExchangeInv'
    BY <2>4, NotExchanging DEF Exchanging
  <2> QED
    BY <1>1, <2>7, <2>8, <2>9, <2>10, <2>11, <2>12, <2>13 DEF Inv, OpInv, RefusesOnlyEarlyRequests
<1>3. CASE ~NeedsNewHost
  <2>1. To("begin") /\ store' = store
    BY <1>3 DEF Identity
  <2>2. op' \in Operations /\ op'.step = "begin" /\ op'.kind = "register" /\ op'.pass = 0
    BY <1>1, <2>1, Facts, Moves DEF Steps
  <2>3. server # 0
    BY <1>1, <1>3 DEF NeedsNewHost, Inv, OpInv, ViewInv, Registering
  <2>4. HostsInv' /\ BoardInv'
    BY <1>1, <2>1, DataKept DEF Inv
  <2>5. Shape'
    BY <1>1, <2>1, <2>2, Facts, ShapeOf
  <2>6. PortInv' /\ RoomInv'
    BY <1>1, <2>2
       DEF Inv, OpInv, PortInv, RoomInv, KindFits, Registering, Exchanging, Checking, Idle
  <2>7. ViewInv'
    BY <1>1, <2>2 DEF Inv, OpInv, ViewInv, Registering, Controls, Idle
  <2>8. StepInv'
    BY <1>1, <2>2, <2>3 DEF StepInv, Hosted, Exchanging, Checking
  <2>9. ExchangeInv'
    BY <2>2, NotExchanging DEF Exchanging
  <2> QED
    BY <1>1, <2>4, <2>5, <2>6, <2>7, <2>8, <2>9 DEF Inv, OpInv, RefusesOnlyEarlyRequests
<1> QED
  BY <1>2, <1>3

LEMMA SaveRowStep ==
    ASSUME Inv, SaveRow
    PROVE  Inv'
<1>1. /\ op.step = "row" /\ op.kind = "register" /\ op.pass = 0 /\ port # "closed"
      /\ op.created # 0 /\ store[op.created] # NoHost /\ ~device.provisioned /\ ~board.provisioned
      /\ row' = op.created /\ server' = op.created /\ due' = FALSE /\ To("begin")
      /\ UNCHANGED <<board, store, port, problem, device, keys, rounds, refused, faults>>
  BY Facts
     DEF SaveRow, Inv, OpInv, StepInv, PortInv, ViewInv, KindFits, Registering, Exchanging, Idle
<1>2. op' \in Operations /\ op'.step = "begin" /\ op'.kind = "register" /\ op'.pass = 0
  BY <1>1, Facts, Moves DEF Steps
<1>3. core.server = 0 /\ op.created \in 0 .. MaxSessions
  BY <1>1, Facts DEF BoardSound, core, Operations
<1>4. HostsInv' /\ BoardInv'
  BY <1>1, <1>3, Numbers DEF Inv, HostsInv, BoardInv, core
<1>5. Shape'
  BY <1>1, <1>2, <1>3, Facts, ShapeOf
<1>6. PortInv' /\ RoomInv'
  BY <1>1, <1>2
     DEF Inv, OpInv, PortInv, RoomInv, KindFits, Registering, Exchanging, Checking, Idle
<1>7. ViewInv'
  BY <1>1, <1>2 DEF Inv, OpInv, ViewInv, Registering, Controls, Idle
<1>8. StepInv'
  BY <1>1, <1>2 DEF StepInv, Hosted, Exchanging, Checking
<1>9. ExchangeInv'
  BY <1>2, NotExchanging DEF Exchanging
<1> QED
  BY <1>1, <1>4, <1>5, <1>6, <1>7, <1>8, <1>9 DEF Inv, OpInv, RefusesOnlyEarlyRequests

LEMMA HostAtWork ==
    ASSUME Inv, server # 0
    PROVE  /\ server \in Sessions /\ row = server /\ host \in Host /\ host.id = server
           /\ HostSound(host) /\ host.registered \in BOOLEAN /\ host.request \in Requests
           /\ (core.server = server => Pair(host, core))
<1>1. server \in Sessions /\ row = server /\ host \in Host
  BY Facts, Numbers DEF Inv, HostsInv, host
<1>2. host # NoHost /\ host.id = server /\ HostSound(host)
  BY <1>1 DEF Inv, HostsInv, host
<1> QED
  BY <1>1, <1>2 DEF Inv, BoardInv, host, Host, HostRecord

LEMMA BeginStep ==
    ASSUME Inv, Begin
    PROVE  Inv'
<1>1. /\ op.step = "begin" /\ op.kind = "register" /\ op.pass = 0 /\ ~due /\ port # "closed"
      /\ server # 0 /\ rounds < MaxChallenges /\ keys < MaxKeys
      /\ device.provisioned \/ ~board.provisioned
      /\ UNCHANGED <<board, row, port, server, due, problem, device, keys, refused, faults>>
  BY Facts, Early
     DEF Begin, KindFits, Registering, Inv, OpInv, RoomInv, StepInv, ViewInv, Hosted
<1>2. ASSUME NEW step \in {"check", "setup"}, To(step), rounds' \in Rounds,
             store' \in [Sessions -> Host], HostsInv', BoardInv',
             IF step = "check" THEN host'.registered \/ host'.challenge # 0
             ELSE /\ ~host'.registered /\ host'.challenge # 0 /\ host'.candidate = 0
                  /\ ~device.provisioned
      PROVE  Inv'
  <2>1. op' \in Operations /\ op'.step = step /\ op'.kind = "register" /\ op'.pass = 0
    BY <1>1, <1>2, Facts, Moves DEF Steps
  <2>2. Shape'
    BY <1>1, <1>2, <2>1, Facts, ShapeOf
  <2>3. PortInv' /\ RoomInv'
    BY <1>1, <2>1 DEF PortInv, RoomInv, KindFits, Registering, Exchanging, Checking, Idle
  <2>4. ViewInv'
    BY <1>1, <2>1 DEF Inv, OpInv, ViewInv, Registering
  <2>5. StepInv'
    BY <1>1, <1>2, <2>1 DEF StepInv, Hosted, Exchanging, Checking
  <2>6. ExchangeInv'
    BY <2>1, NotExchanging DEF Exchanging
  <2> QED
    BY <1>1, <1>2, <2>2, <2>3, <2>4, <2>5, <2>6 DEF Inv, OpInv, RefusesOnlyEarlyRequests
<1>3. CASE host.registered
  <2>1. To("check") /\ store' = store /\ rounds' = rounds
    BY <1>3 DEF Begin
  <2>2. HostsInv' /\ BoardInv' /\ host' = host
    BY <1>1, <2>1, DataKept DEF Inv, host
  <2> QED
    BY <1>2, <1>3, <2>1, <2>2, Facts
<1>4. CASE ~host.registered
  <2> DEFINE h == Begun(host, rounds + 1)
  <2>1. /\ rounds' = rounds + 1 /\ store' = [store EXCEPT ![server] = h]
        /\ To(IF device.provisioned THEN "check" ELSE "setup")
    BY <1>4 DEF Begin, host
  <2>2. rounds + 1 \in Rounds /\ rounds + 1 # 0
    BY <1>1, Facts, Numbers DEF Rounds
  <2>3. h \in Host /\ h.id = server /\ ~h.registered /\ h.challenge = rounds + 1 /\ h.candidate = 0
        /\ h.request = host.request /\ h.pending = host.pending /\ h.receipt = host.receipt
    BY <1>1, <1>4, <2>2, HostAtWork, HostChanges DEF Begun, Host, HostRecord
  <2>4. HostSound(h)
    BY <1>1, <1>4, <2>3, HostAtWork DEF HostSound
  <2>5. core.server = server => Pair(h, core)
    BY <1>1, <1>4, <2>3, HostAtWork DEF Pair
  <2>6. store' \in [Sessions -> Host] /\ host' = h /\ HostsInv' /\ BoardInv'
    <3> HIDE DEF h
    <3> QED
      BY <1>1, <2>1, <2>3, <2>4, <2>5, StoreChange DEF Inv
  <2> QED
    BY <1>2, <2>1, <2>2, <2>3, <2>6
<1> QED
  BY <1>3, <1>4

\* The snapshot that setup saves is pinned to a host without a candidate.
LEMMA Pinned ==
    ASSUME Inv, op.step = "setup"
    PROVE  LET f == HostFrame(host, FALSE)
           IN  /\ \A b \in {Provisioned(f), HalfProvisioned(f)} :
                     /\ b \in Board /\ BoardSound(b) /\ b.provisioned
                     /\ b.core.server = server /\ row = server /\ Pair(store[row], b.core)
               /\ Provisioned(f).ready
<1> DEFINE f == HostFrame(host, FALSE)
           n == NewDevice(keys + 1, server)
<1>1. /\ server # 0 /\ ~host.registered /\ host.challenge # 0 /\ host.candidate = 0
      /\ keys + 1 \in Keys /\ keys + 1 # 0
  <2>1. keys < MaxKeys /\ keys \in Keys
    BY Facts DEF Inv, OpInv, RoomInv
  <2>2. keys + 1 \in Keys /\ keys + 1 # 0
    BY <2>1, Numbers DEF Keys
  <2> QED
    BY <2>2 DEF Inv, OpInv, StepInv, Hosted
<1>2. /\ f \in Frame /\ f.kind = "invitation" /\ f.from = server /\ f.challenge = host.challenge
  BY <1>1, HostAtWork, HostFrameFacts DEF DownKinds
<1>3. /\ n \in DeviceRecord(0 .. Other, Keys, Rounds, Requests) /\ n.server = server
      /\ ~n.registered /\ n.got = 0 /\ ~n.reply /\ n.key = keys + 1
  <2>1. server \in 0 .. Other /\ 0 \in Rounds /\ 0 \in Requests
    BY Facts, Numbers DEF Rounds, Requests
  <2> QED
    BY <1>1, <2>1 DEF NewDevice, DeviceRecord
<1>4. ASSUME NEW d \in DeviceRecord(0 .. Other, Keys, Rounds, Requests),
             ~d.registered, d.got = 0, ~d.reply
      PROVE  Pair(host, d)
  BY <1>1, <1>4, HostAtWork DEF Pair, HostSound, Requests
<1>5. /\ DeviceReceived(n, f) \in DeviceRecord(0 .. Other, Keys, Rounds, Requests)
      /\ DeviceReceived(n, f) = [n EXCEPT !.challenge = f.challenge]
  BY <1>2, <1>3 DEF DeviceReceived, DeviceRecord, Frame
<1>6. /\ DeviceReceived(n, f).server = server /\ DeviceReceived(n, f).key = keys + 1
      /\ ~DeviceReceived(n, f).registered
      /\ DeviceReceived(n, f).got = 0 /\ ~DeviceReceived(n, f).reply
  BY <1>3, <1>5 DEF DeviceRecord
<1> HIDE DEF n, f
<1>7. Provisioned(f) = [crypto_ready |-> TRUE, ready |-> TRUE, provisioned |-> TRUE,
                        core |-> DeviceReceived(n, f)]
  BY <1>2 DEF Provisioned, n
<1>8. HalfProvisioned(f) = [EmptyBoard EXCEPT !.provisioned = TRUE, !.core = n]
  BY <1>2 DEF HalfProvisioned, n
<1>9. row = server /\ host = store[row]
  BY <1>1, HostAtWork DEF host
<1>10. Provisioned(f) \in Board /\ BoardSound(Provisioned(f)) /\ Provisioned(f).ready
       /\ Provisioned(f).provisioned /\ Provisioned(f).core = DeviceReceived(n, f)
  <2>1. ASSUME NEW c \in DeviceRecord(0 .. Other, Keys, Rounds, Requests), c.server # 0, c.key # 0
        PROVE  LET b == [crypto_ready |-> TRUE, ready |-> TRUE, provisioned |-> TRUE, core |-> c]
               IN  b \in Board /\ BoardSound(b) /\ b.ready /\ b.provisioned /\ b.core = c
    BY <2>1 DEF Board, BoardSound
  <2> QED
    BY <1>1, <1>5, <1>6, <1>7, <2>1
<1>11. HalfProvisioned(f) \in Board /\ BoardSound(HalfProvisioned(f))
       /\ HalfProvisioned(f).provisioned /\ HalfProvisioned(f).core = n
  BY <1>1, <1>3, <1>8 DEF Board, BoardSound, EmptyBoard
<1>12. Pair(store[row], Provisioned(f).core) /\ Provisioned(f).core.server = server
  BY <1>4, <1>5, <1>6, <1>9, <1>10
<1>13. Pair(store[row], HalfProvisioned(f).core) /\ HalfProvisioned(f).core.server = server
  BY <1>3, <1>4, <1>9, <1>11
<1> QED
  BY <1>9, <1>10, <1>11, <1>12, <1>13 DEF f

LEMMA SetupStep ==
    ASSUME Inv, Setup
    PROVE  Inv'
<1> DEFINE f == HostFrame(host, FALSE)
<1>1. /\ op.step = "setup" /\ op.kind = "register" /\ op.pass = 0 /\ ~due /\ port # "closed"
      /\ server # 0 /\ ~board.provisioned /\ ~host.registered /\ host.challenge # 0
      /\ keys' = keys + 1 /\ keys' \in Keys
  <2>1. op.step = "setup" /\ keys' = keys + 1
    BY DEF Setup
  <2>2. keys + 1 \in Keys
    BY <2>1, Facts, Numbers DEF Inv, OpInv, RoomInv, Keys
  <2> QED
    BY <2>1, <2>2, Facts, Early
       DEF KindFits, Registering, Inv, OpInv, StepInv, ViewInv, Hosted
<1>2. \A b \in {Provisioned(f), HalfProvisioned(f)} :
         /\ b \in Board /\ BoardSound(b) /\ b.provisioned
         /\ b.core.server = server /\ row = server /\ Pair(store[row], b.core)
  BY <1>1, Pinned
<1>3. CASE Rejected(IF board.provisioned THEN board ELSE Provisioned(f))
  BY <1>1, <1>2, <1>3, RejectedKeeps
<1>4. CASE Rejected(IF board.provisioned THEN board ELSE HalfProvisioned(f))
  BY <1>1, <1>2, <1>4, RejectedKeeps
<1>5. CASE /\ Answered /\ board' = Provisioned(f) /\ To("send") /\ UNCHANGED <<port, problem, refused>>
           /\ UNCHANGED <<store, row, server, due, device, rounds, faults>>
  <2>1. op' \in Operations /\ op'.step = "send" /\ op'.kind = "register" /\ op'.pass = 0
    BY <1>1, <1>5, Facts, Moves DEF Steps
  <2>2. /\ board' \in Board /\ BoardSound(board') /\ core'.server = server /\ row = server
        /\ Pair(store[row], core') /\ board'.ready
    BY <1>1, <1>2, <1>5, Pinned DEF core
  <2>3. HostsInv' /\ BoardInv'
    BY <1>5, <2>2, BoardChange DEF Inv
  <2>4. Shape'
    BY <1>1, <1>5, <2>1, <2>2, Facts, ShapeOf
  <2>5. PortInv' /\ RoomInv'
    BY <1>1, <1>5, <2>1
       DEF PortInv, RoomInv, KindFits, Registering, Exchanging, Checking, Idle
  <2>6. ViewInv' /\ StepInv'
    BY <1>1, <1>5, <2>1
       DEF Inv, OpInv, ViewInv, StepInv, Registering, Exchanging, Checking, Hosted
  <2>7. ExchangeInv'
    <3>1. host' = host
      BY <1>5 DEF host
    <3>2. server' = server /\ due' = due
      BY <1>5
    <3>3. InExchange'
      BY <1>1, <2>1, <2>2, <3>1, <3>2 DEF InExchange
    <3>4. AtSend'
      BY <1>1, <1>5, <2>1 DEF AtSend
    <3> QED
      BY <2>1, <3>3, <3>4, Sending
  <2> QED
    BY <1>5, <2>3, <2>4, <2>5, <2>6, <2>7 DEF Inv, OpInv, RefusesOnlyEarlyRequests
<1> QED
  BY <1>1, <1>3, <1>4, <1>5 DEF Setup

-----------------------------------------------------------------------------
(***************************************************************************)
(* The start of an operation on a registered row.                          *)
(***************************************************************************)
LEMMA AfterCheck ==
    ASSUME Inv, op.step \in Checking, To(NextStep), port = "open",
           UNCHANGED <<store, row, server, port, due, problem, keys, rounds, refused, faults>>,
           board' \in Board, HostsInv', BoardInv', board'.ready, core'.server = server,
           device' \in Views, device'.provisioned => device'.server # 0,
           op.kind = "approve" => device'.server = server
    PROVE  Inv'
<1>1. /\ server # 0 /\ ~due /\ op.pass = 0 /\ host' = host
      /\ op.kind \in {"register", "approve", "update"}
      /\ NextStep = IF op.kind = "register" THEN "send" ELSE op.kind
  BY Facts, Early DEF Inv, OpInv, StepInv, Hosted, Checking, host, NextStep, KindFits
<1>2. op' \in Operations /\ op'.step = NextStep /\ op'.kind = op.kind /\ op'.pass = 0
  BY <1>1, Facts, Moves DEF Steps
<1>3. Shape'
  BY <1>2, Facts, ShapeOf
<1>4. PortInv' /\ RoomInv'
  BY <1>1, <1>2 DEF PortInv, RoomInv, KindFits, Registering, Exchanging, Checking, Idle
<1>5. ViewInv'
  BY <1>1, <1>2 DEF ViewInv, Registering, Idle
<1>6. StepInv'
  BY <1>1, <1>2 DEF Inv, OpInv, StepInv, Exchanging, Checking, Hosted
<1>7. ExchangeInv'
  <2>1. CASE op.kind = "register"
    <3>1. host.registered \/ host.challenge # 0
      BY <2>1 DEF Inv, OpInv, StepInv
    <3>2. InExchange'
      BY <1>1, <1>2, <2>1, <3>1 DEF InExchange
    <3>3. AtSend'
      BY <1>1, <1>2 DEF AtSend
    <3> QED
      BY <1>1, <1>2, <2>1, <3>2, <3>3, Sending
  <2>2. CASE op.kind # "register"
    BY <1>1, <1>2, <2>2, NotExchanging DEF Exchanging
  <2> QED
    BY <2>1, <2>2
<1> QED
  BY <1>3, <1>4, <1>5, <1>6, <1>7 DEF Inv, OpInv, RefusesOnlyEarlyRequests

LEMMA CheckStep ==
    ASSUME Inv, Check
    PROVE  Inv'
<1>1. /\ op.step = "check" /\ keys' = keys /\ server # 0 /\ ~due /\ op.pass = 0 /\ op \in Operations
      /\ op.kind \in {"register", "approve", "update"}
      /\ port # "closed"
  BY Facts, Early DEF Check, Inv, OpInv, StepInv, Hosted, Checking, KindFits
<1>2. CASE Rejected(board)
  BY <1>1, <1>2, RejectedUnchanged
<1>3. CASE /\ Answered /\ device' = View(board)
           /\ UNCHANGED <<board, store, row, server, due, rounds, refused, faults>>
           /\ IF board.provisioned /\ board.core.server = server
              THEN To(Start(board)) /\ UNCHANGED <<port, problem>> ELSE Fail
  <2>1. device' \in Views /\ (device'.provisioned => device'.server # 0) /\ device'.server = core.server
    BY <1>3, Facts DEF BoardSound, core
  <2>2. HostsInv' /\ BoardInv'
    BY <1>3, DataKept DEF Inv
  <2>3. CASE ~(board.provisioned /\ board.core.server = server)
    <3>1. Fail
      BY <1>3, <2>3
    <3> QED
      BY <1>1, <1>3, <2>1, <3>1, FailKeeps DEF Inv, RefusesOnlyEarlyRequests
  <2>4. CASE board.provisioned /\ core.server = server /\ board.crypto_ready
    <3>1. To(NextStep) /\ UNCHANGED <<port, problem>> /\ board'.ready /\ core'.server = server
      BY <1>3, <2>4, Facts DEF Start, core, BoardSound
    <3> QED
      BY <1>1, <1>3, <2>1, <2>2, <2>4, <3>1, Facts, AfterCheck DEF Checking, Answered
  <2>5. CASE board.provisioned /\ core.server = server /\ ~board.crypto_ready
    <3>1. To("entropy") /\ UNCHANGED <<port, problem>>
      BY <1>3, <2>5 DEF Start, core
    <3>2. op' \in Operations /\ op'.step = "entropy" /\ op'.kind = op.kind /\ op'.pass = 0
      BY <1>1, <3>1, Moves DEF Steps
    <3>3. Shape'
      BY <1>1, <1>3, <2>1, <3>1, <3>2, Facts, ShapeOf
    <3>4. PortInv' /\ RoomInv'
      BY <1>1, <1>3, <3>1, <3>2
         DEF PortInv, RoomInv, KindFits, Registering, Exchanging, Checking, Idle
    <3>5. ViewInv'
      BY <1>1, <1>3, <2>1, <2>5, <3>2 DEF ViewInv, Registering, Idle
    <3>6. StepInv'
      BY <1>1, <1>3, <2>5, <3>2
         DEF Inv, OpInv, StepInv, Exchanging, Checking, Hosted, host, core
    <3>7. ExchangeInv'
      BY <3>2, NotExchanging DEF Exchanging
    <3> QED
      BY <1>3, <2>2, <3>3, <3>4, <3>5, <3>6, <3>7 DEF Inv, OpInv, RefusesOnlyEarlyRequests
  <2> QED
    BY <2>3, <2>4, <2>5 DEF core
<1> QED
  BY <1>2, <1>3 DEF Check

LEMMA EntropyStep ==
    ASSUME Inv, Entropy
    PROVE  Inv'
<1>1. op.step = "entropy" /\ keys' = keys /\ server # 0 /\ keys \in Keys
  BY Facts DEF Entropy, Inv, OpInv, StepInv, Hosted, Checking
<1>2. /\ Restored(board) \in Board /\ BoardSound(Restored(board)) /\ Restored(board).core = core
      /\ Restored(board).ready = board.provisioned
  BY Facts DEF Restored, Board, BoardSound, core
<1>3. core.server \in Sessions => row = core.server /\ Pair(store[row], core)
  BY DEF Inv, BoardInv
<1>4. CASE Rejected(IF board.crypto_ready THEN board ELSE Restored(board))
  BY <1>1, <1>2, <1>3, <1>4, RejectedKeeps, Facts DEF core
<1>5. CASE /\ Answered
           /\ IF ~board.crypto_ready
              THEN board' = Restored(board) /\ To(NextStep) /\ UNCHANGED <<port, problem, refused>>
              ELSE Refusal("board", "start") /\ Fail /\ UNCHANGED board
           /\ UNCHANGED <<store, row, server, due, device, rounds, faults>>
  <2>1. ~board.crypto_ready /\ core.server = server /\ port = "open"
    BY <1>1, <1>5 DEF Inv, OpInv, StepInv, Open, Answered
  <2>2. HostsInv' /\ BoardInv'
    BY <1>2, <1>3, <1>5, <2>1, BoardChange DEF Inv, core
  <2>3. board'.ready /\ core'.server = server
    BY <1>1, <1>2, <1>5, <2>1, Facts DEF BoardSound, core
  <2>4. op.kind = "approve" => device.server = server
    BY <1>1 DEF Inv, OpInv, ViewInv
  <2>5. device.provisioned => device.server # 0
    BY DEF Inv, OpInv, ViewInv
  <2> QED
    BY <1>1, <1>2, <1>5, <2>1, <2>2, <2>3, <2>4, <2>5, Facts, AfterCheck DEF Checking
<1> QED
  BY <1>4, <1>5 DEF Entropy

LEMMA ApproveStep ==
    ASSUME Inv, Approve
    PROVE  Inv'
<1>1. /\ op.step = "approve" /\ op.kind = "approve" /\ op.pass = 0 /\ port # "closed"
      /\ server # 0 /\ ~host.registered
      /\ UNCHANGED <<board, row, server, device, keys, rounds, refused, faults>>
  BY Facts, Early DEF Approve, KindFits, Inv, OpInv, StepInv, Hosted
<1>2. CASE Fail /\ UNCHANGED <<store, due>>
  BY <1>1, <1>2, FailKeeps, Facts DEF Inv, OpInv, ViewInv, RefusesOnlyEarlyRequests
<1>3. CASE /\ ApprovalMatches
           /\ store' = [store EXCEPT ![server] = Approved(@, op.shown)] /\ due' = TRUE
           /\ To("send") /\ UNCHANGED <<port, problem>>
  <2> DEFINE h == Approved(host, op.shown)
  <2>1. /\ host.challenge # 0 /\ host.candidate = op.shown /\ op.shown # 0 /\ op.shown \in Keys
    BY <1>1, <1>3, Facts DEF ApprovalMatches, MayApprove, Operations
  <2>2. /\ h \in Host /\ h.id = server /\ h.registered /\ h.peer = op.shown /\ h.candidate = 0
        /\ h.challenge = host.challenge /\ h.request = host.request
        /\ h.pending = host.pending /\ h.receipt = host.receipt
    BY <1>1, <2>1, HostAtWork, HostChanges DEF Approved, Host, HostRecord
  <2>3. host.request = 0 /\ ~host.pending /\ ~host.receipt
    BY <1>1, HostAtWork, Numbers DEF HostSound, Requests
  <2>4. HostSound(h)
    BY <2>1, <2>2, <2>3 DEF HostSound
  <2>5. core.server = server => Pair(h, core) /\ ~core.reply
    BY <1>1, <2>1, <2>2, <2>3, HostAtWork DEF Pair
  <2>6. store' = [store EXCEPT ![server] = h]
    BY <1>3 DEF host
  <2> HIDE DEF h
  <2>7. store' \in [Sessions -> Host] /\ host' = h /\ HostsInv' /\ BoardInv'
    BY <1>1, <2>2, <2>4, <2>5, <2>6, StoreChange DEF Inv
  <2>8. op' \in Operations /\ op'.step = "send" /\ op'.kind = "approve" /\ op'.pass = 0
    BY <1>1, <1>3, Facts, Moves DEF Steps
  <2>9. Shape'
    BY <1>1, <1>3, <2>7, <2>8, Facts, ShapeOf
  <2>10. PortInv' /\ RoomInv'
    BY <1>1, <1>3, <2>8
       DEF PortInv, RoomInv, KindFits, Registering, Exchanging, Checking, Idle
  <2>11. ViewInv' /\ StepInv'
    BY <1>1, <1>3, <2>8
       DEF Inv, OpInv, ViewInv, StepInv, Registering, Exchanging, Checking, Hosted
  <2>12. InExchange'
    BY <1>1, <1>3, <2>2, <2>7, <2>8 DEF Inv, OpInv, StepInv, InExchange, Open, core
  <2>13. AtSend'
    BY <1>1, <1>3, <2>2, <2>3, <2>5, <2>7, <2>8, <2>12 DEF AtSend, OneLeft, InExchange, Open, core
  <2> QED
    BY <1>1, <2>7, <2>8, <2>9, <2>10, <2>11, <2>12, <2>13, Sending
       DEF Inv, OpInv, RefusesOnlyEarlyRequests
<1> QED
  BY <1>2, <1>3 DEF Approve

LEMMA UpdateStep ==
    ASSUME Inv, Update
    PROVE  Inv'
<1> DEFINE h == Requested(host)
<1>1. /\ op.step = "update" /\ op.kind = "update" /\ op.pass = 0 /\ port # "closed" /\ ~due
      /\ server # 0 /\ host.registered /\ host.request < MaxRequests
      /\ store' = [store EXCEPT ![server] = h] /\ To("send")
      /\ UNCHANGED <<board, row, port, server, due, problem, device, keys, rounds, refused, faults>>
  BY Facts, Early DEF Update, KindFits, Inv, OpInv, StepInv, Hosted, host
<1>2. /\ h \in Host /\ h.id = server /\ h.registered /\ h.peer = host.peer
      /\ h.candidate = host.candidate /\ h.challenge = host.challenge
      /\ h.request = host.request + 1 /\ h.pending /\ host.request \in Nat
  <2>1. host.request \in Nat
    BY <1>1, HostAtWork, Numbers DEF Requests
  <2> QED
    BY <1>1, <2>1, HostAtWork, HostChanges DEF Requested, Host, HostRecord
<1>3. HostSound(h)
  BY <1>1, <1>2, HostAtWork DEF HostSound
<1>4. core.server = server => Pair(h, core)
  <2>1. core.got \in Nat
    BY Facts, BoardTypes, Numbers DEF core, DeviceRecord, Requests
  <2> QED
    BY <1>1, <1>2, <2>1, HostAtWork DEF Pair
<1> HIDE DEF h
<1>5. store' \in [Sessions -> Host] /\ host' = h /\ HostsInv' /\ BoardInv'
  BY <1>1, <1>2, <1>3, <1>4, StoreChange DEF Inv
<1>6. op' \in Operations /\ op'.step = "send" /\ op'.kind = "update" /\ op'.pass = 0
  BY <1>1, Facts, Moves DEF Steps
<1>7. Shape'
  BY <1>1, <1>5, <1>6, Facts, ShapeOf
<1>8. PortInv' /\ RoomInv'
  BY <1>1, <1>6 DEF PortInv, RoomInv, KindFits, Registering, Exchanging, Checking, Idle
<1>9. ViewInv' /\ StepInv'
  BY <1>1, <1>6
     DEF Inv, OpInv, ViewInv, StepInv, Registering, Exchanging, Checking, Hosted
<1>10. InExchange' /\ AtSend'
  BY <1>1, <1>2, <1>5, <1>6 DEF Inv, OpInv, StepInv, InExchange, AtSend, Open, core
<1> QED
  BY <1>1, <1>5, <1>6, <1>7, <1>8, <1>9, <1>10, Sending DEF Inv, OpInv, RefusesOnlyEarlyRequests

-----------------------------------------------------------------------------
(***************************************************************************)
(* The exchange.                                                           *)
(***************************************************************************)
LEMMA Advance ==
    ASSUME Inv, op.step \in Exchanging, op' \in Operations, op'.step \in Exchanging \cup {"last"},
           op'.kind = op.kind, due' => op'.step \in {"send", "decide"}, due' \in BOOLEAN,
           UNCHANGED <<row, server, port, problem, device, keys, rounds, refused, faults>>,
           board' \in Board, store' \in [Sessions -> Host], HostsInv', BoardInv', ExchangeInv'
    PROVE  Inv'
<1>1. /\ server # 0 /\ op.kind \in {"register", "approve", "update"} /\ port # "closed"
      /\ device.provisioned => device.server # 0
  BY Facts
     DEF Inv, OpInv, PortInv, ViewInv, StepInv, KindFits, Hosted, Exchanging, Registering, Idle
<1>2. Shape'
  BY Facts, ShapeOf
<1>3. PortInv' /\ RoomInv'
  BY <1>1 DEF PortInv, RoomInv, KindFits, Exchanging, Checking, Registering, Controls, Idle
<1>4. ViewInv' /\ StepInv'
  BY <1>1 DEF ViewInv, StepInv, Hosted, Exchanging, Checking, Registering, Idle
<1> QED
  BY <1>2, <1>3, <1>4 DEF Inv, OpInv, RefusesOnlyEarlyRequests

\* While it exchanges, the page is at work for a host and has a link.
LEMMA InTheExchange ==
    ASSUME Inv, op.step \in Exchanging
    PROVE  /\ InExchange /\ server # 0 /\ port # "closed"
           /\ op.step # "send" /\ op.step # "decide" => ~due
           /\ op.pass \in {0, 1, 2}
           /\ Open => board.ready /\ core.server = server /\ Pair(host, core)
<1>1. op # Idle /\ op.step # "idle"
  BY DEF Exchanging, Idle
<1>2. InExchange /\ server # 0 /\ port # "closed"
  BY <1>1 DEF Inv, OpInv, PortInv, StepInv, ExchangeInv, Hosted
<1>3. op.step # "send" /\ op.step # "decide" => ~due
  BY <1>2 DEF Inv, OpInv, PortInv
<1>4. op.pass \in {0, 1, 2}
  <2>1. op.pass \in 0 .. MaxPasses
    BY Facts DEF Operations
  <2> QED
    BY <1>2, <2>1, Numbers DEF InExchange
<1> QED
  BY <1>2, <1>3, <1>4, HostAtWork DEF InExchange

LEMMA SendStep ==
    ASSUME Inv, Send
    PROVE  Inv'
<1> DEFINE f == HostFrame(host, due)
           h == HostSent(host, due)
<1>1. /\ op.step = "send" /\ op.step \in Exchanging /\ due' = FALSE
      /\ op' = [op EXCEPT !.step = IF f = Nothing THEN "collect" ELSE "forward",
                          !.frame = f, !.quiet = (f = Nothing)]
      /\ store' = [store EXCEPT ![server] = h]
      /\ UNCHANGED <<board, row, port, server, problem, device, keys, rounds, refused, faults>>
  BY DEF Send, host, Exchanging
<1>2. InExchange /\ AtSend /\ server # 0 /\ op.pass \in {0, 1, 2}
  BY <1>1, InTheExchange DEF Inv, OpInv, ExchangeInv
<1>3. /\ host \in Host /\ host.id = server /\ HostSound(host) /\ due \in BOOLEAN
      /\ core.server = server => Pair(host, core)
  BY <1>2, Facts, HostAtWork
<1>4. /\ f \in Frame /\ (f = Nothing <=> f.kind = "none") /\ f.kind \in DownKinds \cup {"none"}
      /\ f.kind # "none" => /\ f.from = server /\ f.to = host.peer
                            /\ f.challenge = host.challenge /\ f.id = host.request
      /\ f.kind = "invitation"   <=> ~host.registered /\ host.challenge # 0
      /\ f.kind = "confirmation" <=> host.registered /\ due
      /\ f.kind = "request"      <=> host.registered /\ ~due /\ host.pending
      /\ f.kind = "receipt"      <=> host.registered /\ ~due /\ ~host.pending /\ host.receipt
  BY <1>3, HostFrameFacts
<1>5. h = IF f.kind = "receipt" THEN [host EXCEPT !.receipt = FALSE] ELSE host
  BY DEF HostSent
<1> HIDE DEF f, h
<1>6. /\ h \in Host /\ h.id = server /\ h.registered = host.registered /\ h.peer = host.peer
      /\ h.candidate = host.candidate /\ h.challenge = host.challenge
      /\ h.request = host.request /\ h.pending = host.pending
      /\ h.receipt = (host.receipt /\ f.kind # "receipt")
  BY <1>3, <1>5 DEF Host, HostRecord
<1>7. HostSound(h) /\ (core.server = server => Pair(h, core))
  BY <1>3, <1>6 DEF HostSound, Pair
<1>8. store' \in [Sessions -> Host] /\ host' = h /\ HostsInv' /\ BoardInv'
  BY <1>1, <1>2, <1>6, <1>7, StoreChange DEF Inv
<1>9. /\ op' \in Operations /\ op'.kind = op.kind /\ op'.pass = op.pass /\ op'.frame = f
      /\ op'.step = IF f = Nothing THEN "collect" ELSE "forward"
      /\ op'.quiet = (f = Nothing)
  BY <1>1, <1>4, Facts DEF Operations, Steps
<1>10. core' = core /\ Open' = Open
  BY <1>1 DEF core, Open
<1>11. InExchange'
  BY <1>1, <1>2, <1>6, <1>8, <1>9, <1>10 DEF InExchange
<1>12. op.pass = 2 => f = Nothing
  <2>1. ASSUME op.pass = 2
        PROVE  ~due /\ ~host.pending /\ ~host.receipt /\ host.registered
    BY <1>2, <2>1 DEF AtSend, Quiescent, InExchange
  <2> QED
    BY <1>4, <2>1 DEF DownKinds
<1>13. op.pass = 1 => f.kind \in {"none", "confirmation", "receipt"}
  <2>1. op.pass = 1 => ~host.pending /\ host.registered
    BY <1>2 DEF AtSend, Quiescent, OneLeft, InExchange
  <2> QED
    BY <1>4, <2>1 DEF DownKinds
<1>14. f.kind \in {"confirmation", "receipt"} => ~h.receipt /\ ~h.pending
  BY <1>2, <1>4, <1>6 DEF AtSend, Quiescent, OneLeft
<1>15. f.kind = "confirmation" => (Open => ~core.reply)
  BY <1>2, <1>4 DEF AtSend, Quiescent, OneLeft
<1>16. f.kind = "receipt" => 0 < host.request
  BY <1>3, <1>4 DEF HostSound
<1>17. CASE f = Nothing
  <2>1. host.registered /\ ~due /\ ~host.pending /\ ~host.receipt
    BY <1>2, <1>4, <1>17 DEF InExchange
  <2>2. 0 < op.pass => (Open => core.registered /\ ~core.reply)
    BY <1>2, <2>1 DEF AtSend, Quiescent, OneLeft
  <2>3. AtCollect'
    BY <1>1, <1>6, <1>8, <1>9, <1>10, <1>17, <2>1, <2>2 DEF AtCollect, Quiescent
  <2>4. ExchangeInv'
    BY <1>9, <1>11, <1>17, <2>3 DEF ExchangeInv
  <2> QED
    BY <1>1, <1>8, <1>9, <1>17, <2>4, Facts, Advance DEF Exchanging
<1>18. CASE f # Nothing
  <2>1. /\ f.kind \in DownKinds /\ f.from = server /\ f.to = h.peer
        /\ f.challenge = h.challenge /\ f.id = h.request
        /\ (f.kind = "invitation" <=> ~h.registered)
        /\ (f.kind = "request" => h.pending)
    BY <1>2, <1>4, <1>6, <1>18 DEF InExchange
  <2>2. AtForward'
    BY <1>1, <1>2, <1>6, <1>8, <1>9, <1>10, <1>12, <1>13, <1>14, <1>15, <1>16, <1>18, <2>1
       DEF AtForward, DownKinds
  <2>3. ExchangeInv'
    BY <1>9, <1>11, <1>18, <2>2 DEF ExchangeInv
  <2> QED
    BY <1>1, <1>8, <1>9, <1>18, <2>3, Facts, Advance DEF Exchanging
<1> QED
  BY <1>17, <1>18

\* A board that takes the frame in hand still goes with its host.
LEMMA Forwarded ==
    ASSUME Inv, op.step = "forward"
    PROVE  LET b == BoardReceived(op.frame)
           IN  /\ b \in Board /\ BoardSound(b) /\ b.core.server = core.server /\ b.ready = board.ready
               /\ b.core.server \in Sessions => row = b.core.server /\ Pair(store[row], b.core)
<1> DEFINE f == op.frame
           d == DeviceReceived(core, f)
<1>1. op.step \in Exchanging /\ f \in Frame
  BY Facts DEF Exchanging, Operations
<1>2. InExchange /\ AtForward /\ server # 0
  BY <1>1, InTheExchange DEF Inv, OpInv, ExchangeInv
<1>3. BoardInv /\ board \in Board /\ BoardSound(board)
  BY Facts DEF Inv
<1>4. CASE ~BoardAccepts(f)
  BY <1>3, <1>4 DEF BoardReceived, BoardInv, core
<1>5. CASE BoardAccepts(f)
  <2>1. board.ready /\ DeviceAccepts(core, f)
    BY <1>5 DEF BoardAccepts, core
  <2>2. /\ f.from = core.server /\ f.from = server
        /\ f.challenge = host.challenge /\ f.id = host.request
        /\ (f.kind = "invitation" => ~host.registered)
        /\ (f.kind # "invitation" => host.registered)
        /\ (f.kind = "request" => host.pending /\ core.registered)
        /\ (f.kind = "confirmation" => ~host.pending)
        /\ f.kind \in DownKinds
    BY <1>2, <2>1 DEF AtForward, DeviceAccepts
  <2>3. core.server = server /\ Pair(host, core) /\ HostSound(host) /\ host = store[row] /\ row = server
    BY <1>2, <2>2, HostAtWork DEF host
  <2>4. /\ core \in DeviceRecord(0 .. Other, Keys, Rounds, Requests)
        /\ d \in DeviceRecord(0 .. Other, Keys, Rounds, Requests)
        /\ [board EXCEPT !.core = d] \in Board
    BY <1>1, <1>3, BoardTypes DEF core
  <2>5. d = CASE f.kind = "invitation"   -> [core EXCEPT !.challenge = f.challenge]
              [] f.kind = "confirmation" -> [core EXCEPT !.registered = TRUE]
              [] f.kind = "request" /\ f.id >= core.got -> [core EXCEPT !.got = f.id, !.reply = TRUE]
              [] f.kind = "receipt" /\ f.id = core.got  -> [core EXCEPT !.reply = FALSE]
              [] OTHER -> core
    BY DEF DeviceReceived
  <2>6. d.key = core.key /\ d.server = core.server /\ d.claimed = core.claimed
    BY <2>4, <2>5 DEF DeviceRecord
  <2>7. Pair(host, d)
    <3>1. CASE f.kind = "invitation"
      <4>1. d = [core EXCEPT !.challenge = host.challenge]
        BY <2>2, <2>5, <3>1
      <4>2. /\ d.registered = core.registered /\ d.got = core.got /\ d.reply = core.reply
            /\ d.challenge = host.challenge
        BY <2>4, <4>1 DEF DeviceRecord
      <4> QED
        BY <2>3, <2>6, <4>2 DEF Pair
    <3>2. CASE f.kind = "confirmation"
      <4>1. d = [core EXCEPT !.registered = TRUE]
        BY <2>5, <3>2
      <4>2. /\ d.registered /\ d.got = core.got /\ d.reply = core.reply
            /\ d.challenge = core.challenge
        BY <2>4, <4>1 DEF DeviceRecord
      <4> QED
        BY <2>2, <2>3, <2>6, <3>2, <4>2 DEF Pair
    <3>3. CASE f.kind = "request"
      <4>1. CASE f.id >= core.got
        <5>1. d = [core EXCEPT !.got = host.request, !.reply = TRUE]
          BY <2>2, <2>5, <3>3, <4>1
        <5>2. /\ d.registered = core.registered /\ d.got = host.request /\ d.reply
              /\ d.challenge = core.challenge
          BY <2>4, <5>1 DEF DeviceRecord
        <5>3. 0 < host.request /\ host.request <= host.request
          BY <1>2, <2>2, <2>3, <3>3, HostAtWork, Numbers DEF HostSound, Requests
        <5> QED
          BY <2>2, <2>3, <2>6, <3>3, <5>2, <5>3 DEF Pair
      <4>2. CASE ~(f.id >= core.got)
        BY <2>3, <2>5, <3>3, <4>2
      <4> QED
        BY <4>1, <4>2
    <3>4. CASE f.kind = "receipt"
      <4>1. CASE f.id = core.got
        <5>1. d = [core EXCEPT !.reply = FALSE]
          BY <2>5, <3>4, <4>1
        <5>2. /\ d.registered = core.registered /\ d.got = core.got /\ ~d.reply
              /\ d.challenge = core.challenge
          BY <2>4, <5>1 DEF DeviceRecord
        <5> QED
          BY <2>3, <2>6, <5>2 DEF Pair
      <4>2. CASE f.id # core.got
        BY <2>3, <2>5, <3>4, <4>2
      <4> QED
        BY <4>1, <4>2
    <3> QED
      BY <2>2, <3>1, <3>2, <3>3, <3>4 DEF DownKinds
  <2>8. BoardReceived(f) = [board EXCEPT !.core = d]
    BY <1>5 DEF BoardReceived, core
  <2> HIDE DEF d
  <2>9. /\ BoardReceived(f).core = d /\ BoardReceived(f).ready = board.ready
        /\ BoardReceived(f).crypto_ready = board.crypto_ready
        /\ BoardReceived(f).provisioned = board.provisioned
    BY <1>3, <2>8 DEF Board
  <2>10. BoardSound(BoardReceived(f))
    BY <1>3, <2>1, <2>6, <2>9 DEF BoardSound, core
  <2> QED
    BY <2>3, <2>4, <2>6, <2>7, <2>8, <2>9, <2>10
<1> QED
  BY <1>4, <1>5

\* The board takes every frame that the page forwards but an early request.
LEMMA ForwardAccepts ==
    ASSUME Inv, op.step = "forward", port = "open"
    PROVE  BoardAccepts(op.frame) <=> ~EarlyRequest
<1> DEFINE f == op.frame
<1>1. /\ op.step \in Exchanging /\ InExchange /\ AtForward /\ server # 0
  BY InTheExchange DEF Exchanging, Inv, OpInv, ExchangeInv
<1>2. /\ Open /\ board.ready /\ core.server = server /\ Pair(host, core) /\ HostSound(host)
      /\ host.request \in Requests
  BY <1>1, InTheExchange, HostAtWork DEF Open
<1>3. core \in DeviceRecord(0 .. Other, Keys, Rounds, Requests) /\ core.got \in Nat
      /\ host.request \in Nat
  BY <1>2, Facts, BoardTypes, Numbers DEF core, DeviceRecord, Requests
<1>4. /\ f.from = core.server /\ f.to = host.peer /\ f.challenge = host.challenge
      /\ f.id = host.request /\ f.kind \in DownKinds
      /\ (f.kind = "invitation" <=> ~host.registered)
      /\ (f.kind = "receipt" => 0 < host.request /\ ~host.pending)
  BY <1>1, <1>2 DEF AtForward
<1>5. f.kind = "invitation" => ~core.registered
  BY <1>2, <1>4 DEF Pair
<1>6. f.kind # "invitation" =>
         f.to = core.key /\ f.challenge = core.challenge /\ core.challenge # 0 /\ core.claimed
  BY <1>2, <1>4 DEF Pair, HostSound
<1>7. f.kind = "receipt" => core.registered /\ f.id <= core.got
  BY <1>2, <1>3, <1>4 DEF Pair
<1>8. ~EarlyRequest => BoardAccepts(f)
  BY <1>2, <1>4, <1>5, <1>6, <1>7 DEF BoardAccepts, DeviceAccepts, EarlyRequest, core, DownKinds
<1>9. EarlyRequest => ~BoardAccepts(f)
  BY DEF BoardAccepts, DeviceAccepts, EarlyRequest
<1> QED
  BY <1>8, <1>9

LEMMA ForwardStep ==
    ASSUME Inv, Forward
    PROVE  Inv'
<1> DEFINE f == op.frame
<1>1. op.step = "forward" /\ op.step \in Exchanging /\ keys' = keys /\ f \in Frame
  BY Facts DEF Forward, Exchanging, Operations
<1>2. InExchange /\ AtForward /\ server # 0 /\ ~due /\ op.pass \in {0, 1, 2}
  BY <1>1, InTheExchange DEF Inv, OpInv, ExchangeInv
<1>3. /\ BoardReceived(f) \in Board /\ BoardSound(BoardReceived(f))
      /\ BoardReceived(f).core.server = core.server /\ BoardReceived(f).ready = board.ready
      /\ BoardReceived(f).core.server \in Sessions =>
            row = BoardReceived(f).core.server /\ Pair(store[row], BoardReceived(f).core)
  BY <1>1, Forwarded
<1>4. CASE Rejected(BoardReceived(f))
  BY <1>1, <1>3, <1>4, Facts, RejectedKeeps
<1>5. CASE /\ Answered /\ board' = BoardReceived(f)
           /\ IF BoardAccepts(f)
              THEN To("collect") /\ UNCHANGED <<port, problem, refused>>
              ELSE Refusal("board", f.kind) /\ Fail
           /\ UNCHANGED <<store, row, server, due, device, rounds, faults>>
  <2>1. /\ Open /\ board.ready /\ core.server = server /\ Pair(host, core) /\ HostSound(host)
        /\ host.request \in Requests
    BY <1>1, <1>2, <1>5, InTheExchange, HostAtWork DEF Open, Answered
  <2>2. core \in DeviceRecord(0 .. Other, Keys, Rounds, Requests) /\ core.got \in Nat
        /\ host.request \in Nat
    BY <2>1, Facts, BoardTypes, Numbers DEF core, DeviceRecord, Requests
  <2>3. BoardAccepts(f) <=> ~EarlyRequest
    BY <1>1, <2>1, ForwardAccepts DEF Open
  <2>4. CASE ~BoardAccepts(f)
    <3>1. f.kind = "request" /\ Refusal("board", f.kind) /\ Fail /\ board' = board
      BY <1>5, <2>3, <2>4 DEF BoardReceived, EarlyRequest
    <3>2. RefusesOnlyEarlyRequests'
      BY <3>1 DEF Refusal, RefusesOnlyEarlyRequests
    <3> QED
      BY <1>1, <1>5, <3>1, <3>2, Facts, FailKeeps DEF Inv, OpInv, ViewInv
  <2>5. CASE BoardAccepts(f)
    <3>1. To("collect") /\ UNCHANGED <<port, problem, refused>>
          /\ UNCHANGED <<store, row, server, due, device, rounds, faults>>
      BY <1>5, <2>5
    <3>2. /\ op' \in Operations /\ op'.step = "collect" /\ op'.kind = op.kind
          /\ op'.quiet = op.quiet /\ op'.pass = op.pass
      BY <3>1, Facts, Moves DEF Steps
    <3>3. HostsInv' /\ BoardInv'
      BY <1>3, <1>5, BoardChange DEF Inv, core
    <3>4. host' = host /\ Open' /\ board'.ready /\ core'.server = server
          /\ core' = DeviceReceived(core, f) /\ Pair(host, core') /\ ~due'
      <4>1. core' = BoardReceived(f).core
        BY <1>5 DEF core
      <4>2. core' = DeviceReceived(core, f)
        BY <1>3, <2>5, <4>1, Facts DEF BoardReceived, Board, core
      <4>3. Pair(host, core')
        BY <1>2, <1>3, <2>1, <4>1, HostAtWork DEF host
      <4>4. server' = server /\ store' = store /\ due' = due /\ port' = port
        BY <3>1
      <4>5. core'.server = server /\ board'.ready
        BY <1>3, <1>5, <2>1, <4>1
      <4> QED
        BY <1>2, <2>1, <4>2, <4>3, <4>4, <4>5 DEF host, Open
    <3>5. InExchange'
      BY <1>2, <3>1, <3>2, <3>4 DEF InExchange
    <3>6. f.kind = "invitation" => core'.challenge = host.challenge
      BY <1>2, <2>2, <3>4 DEF AtForward, DeviceReceived, DeviceRecord
    <3>7. f.kind = "confirmation" => core'.registered /\ ~core'.reply
      BY <1>2, <2>1, <2>2, <3>4 DEF AtForward, DeviceReceived, DeviceRecord
    <3>8. f.kind = "request" => core'.reply /\ core'.got = host.request
      <4>1. f.kind = "request" => f.id = host.request /\ f.id >= core.got
        BY <1>2, <2>1, <2>2 DEF AtForward, Pair
      <4> QED
        BY <2>2, <3>4, <4>1 DEF DeviceReceived, DeviceRecord
    <3>9. f.kind = "receipt" => core'.registered /\ ~core'.reply
      <4>1. f.kind = "receipt" => f.id = core.got /\ core.registered
        BY <1>2, <2>1 DEF AtForward, Pair
      <4> QED
        BY <2>2, <3>4, <4>1 DEF DeviceReceived, DeviceRecord
    <3>10. /\ f.kind \in DownKinds /\ (f.kind = "invitation" <=> ~host.registered)
           /\ f.kind \in {"confirmation", "receipt"} => ~host.receipt /\ ~host.pending
           /\ f.kind = "request" => host.pending
           /\ op.pass # 2 /\ ~op.quiet
           /\ op.pass = 1 => f.kind \in {"confirmation", "receipt"}
      BY <1>2 DEF AtForward
    <3>11. 0 < op.pass => Quiescent'
      BY <1>2, <3>4, <3>7, <3>9, <3>10 DEF Quiescent
    <3>12. AtCollect'
      <4>1. host'.registered =>
               \/ host'.pending /\ core'.reply /\ core'.got = host'.request
               \/ ~host'.pending /\ ~host'.receipt
        BY <3>4, <3>8, <3>10 DEF DownKinds
      <4>2. ~host'.registered => core'.challenge = host'.challenge
        BY <3>4, <3>6, <3>10
      <4> QED
        BY <3>2, <3>10, <3>11, <4>1, <4>2 DEF AtCollect
    <3>13. ExchangeInv'
      BY <3>2, <3>5, <3>12 DEF ExchangeInv
    <3>14. board' \in Board /\ store' \in [Sessions -> Host]
      BY <1>3, <1>5, Facts
    <3> QED
      BY <1>1, <1>2, <3>1, <3>2, <3>3, <3>13, <3>14, Facts, Advance DEF Exchanging
  <2> QED
    BY <2>4, <2>5
<1> QED
  BY <1>4, <1>5 DEF Forward

LEMMA Collected ==
    ASSUME Inv
    PROVE  /\ BoardSent \in Board /\ BoardSound(BoardSent) /\ BoardSent.ready = board.ready
           /\ BoardSent.core.server = core.server /\ BoardSent.core.key = core.key
           /\ BoardSent.core.challenge = core.challenge /\ BoardSent.core.got = core.got
           /\ BoardSent.core.registered = core.registered /\ BoardSent.core.reply = core.reply
           /\ BoardFrame # Nothing => BoardSent.core.claimed
           /\ BoardSent.core.server \in Sessions =>
                 row = BoardSent.core.server /\ Pair(store[row], BoardSent.core)
<1> DEFINE d == DeviceSent(core)
<1>1. /\ board \in Board /\ BoardSound(board) /\ BoardInv
      /\ core \in DeviceRecord(0 .. Other, Keys, Rounds, Requests)
      /\ d \in DeviceRecord(0 .. Other, Keys, Rounds, Requests)
      /\ [board EXCEPT !.core = d] \in Board
  BY Facts, BoardTypes DEF Inv, core
<1>2. BoardFrame = DeviceFrame(core) /\ BoardSent = [board EXCEPT !.core = d]
  BY DEF BoardFrame, BoardSent, core
<1>3. d = IF BoardFrame = Nothing THEN core ELSE [core EXCEPT !.claimed = TRUE]
  BY <1>2 DEF DeviceSent
<1>4. /\ d.server = core.server /\ d.key = core.key /\ d.challenge = core.challenge
      /\ d.got = core.got /\ d.registered = core.registered /\ d.reply = core.reply
      /\ BoardFrame # Nothing => d.claimed
      /\ core.claimed => d.claimed
  <2> HIDE DEF d
  <2> QED
    BY <1>1, <1>3 DEF DeviceRecord
<1>5. ~board.provisioned => BoardFrame = Nothing
  <2>1. ~board.provisioned => core = NewDevice(0, 0)
    BY <1>1 DEF BoardSound, core
  <2>2. ~board.provisioned => ~core.registered /\ core.challenge = 0
    BY <2>1 DEF NewDevice
  <2> QED
    BY <1>2, <2>2 DEF DeviceFrame
<1> HIDE DEF d
<1>6. /\ BoardSent.core = d /\ BoardSent.ready = board.ready
      /\ BoardSent.crypto_ready = board.crypto_ready /\ BoardSent.provisioned = board.provisioned
  BY <1>1, <1>2 DEF Board
<1>7. BoardSound(BoardSent)
  BY <1>1, <1>3, <1>4, <1>5, <1>6 DEF BoardSound, core
<1>8. ASSUME core.server \in Sessions PROVE Pair(store[row], d)
  BY <1>1, <1>4, <1>8 DEF BoardInv, Pair
<1> QED
  BY <1>1, <1>2, <1>4, <1>6, <1>7, <1>8 DEF BoardInv

LEMMA CollectStep ==
    ASSUME Inv, Collect
    PROVE  Inv'
<1> DEFINE f == BoardFrame
<1>1. op.step = "collect" /\ op.step \in Exchanging /\ keys' = keys
  BY DEF Collect, Exchanging
<1>2. InExchange /\ AtCollect /\ server # 0 /\ ~due /\ op.pass \in {0, 1, 2}
  BY <1>1, InTheExchange DEF Inv, OpInv, ExchangeInv
<1>3. CASE Rejected(BoardSent)
  BY <1>1, <1>3, Facts, Collected, RejectedKeeps
<1>4. CASE /\ Answered /\ board' = BoardSent
           /\ op' = [op EXCEPT !.step = IF f = Nothing THEN "decide" ELSE "take",
                               !.frame = f, !.quiet = @ /\ f = Nothing]
           /\ UNCHANGED <<store, row, port, server, due, problem, device, rounds, refused, faults>>
  <2>1. /\ Open /\ core.server = server /\ Pair(host, core) /\ HostSound(host)
        /\ host.id = server /\ host.registered \in BOOLEAN
    BY <1>1, <1>2, <1>4, InTheExchange, HostAtWork DEF Open, Answered
  <2>2. core \in DeviceRecord(0 .. Other, Keys, Rounds, Requests) /\ f = DeviceFrame(core)
    BY Facts, BoardTypes DEF core, BoardFrame
  <2>3. /\ f \in Frame /\ (f = Nothing <=> f.kind = "none") /\ f.kind \in UpKinds \cup {"none"}
        /\ f.kind # "none" => /\ f.from = core.key /\ f.to = core.server
                              /\ f.challenge = core.challenge /\ f.id = core.got
        /\ f.kind = "claim"  <=> ~core.registered /\ core.challenge # 0
        /\ f.kind = "report" <=> core.registered /\ core.reply
    BY <2>2, BoardFrameFacts
  <2> HIDE DEF f
  <2>4. /\ op' \in Operations /\ op'.kind = op.kind /\ op'.pass = op.pass /\ op'.frame = f
        /\ op'.step = IF f = Nothing THEN "decide" ELSE "take"
        /\ op'.quiet = (op.quiet /\ f = Nothing)
    BY <1>4, <2>3, Facts DEF Operations, Steps
  <2>5. HostsInv' /\ BoardInv'
    BY <1>4, Collected, BoardChange DEF Inv, core
  <2>6. /\ server' = server /\ host' = host /\ due' = due /\ Open' = Open
        /\ board'.ready = board.ready /\ core'.server = server
        /\ core'.key = core.key /\ core'.challenge = core.challenge /\ core'.got = core.got
        /\ core'.registered = core.registered /\ core'.reply = core.reply
        /\ f # Nothing => core'.claimed
    BY <1>4, <2>1, Collected DEF host, Open, core, f
  <2>7. InExchange'
    BY <1>2, <2>4, <2>6 DEF InExchange
  <2>8. /\ host.challenge # 0
        /\ core.challenge = host.challenge
        /\ core.key \in Keys /\ (core.reply => core.registered /\ 0 < core.got)
        /\ core.got <= host.request /\ (~host.registered => ~core.registered)
        /\ host.registered => host.peer = core.key
        /\ host.candidate \in {0, core.key}
        /\ 0 < host.request /\ ~host.pending => core.registered /\ core.got = host.request
    BY <1>2, <2>1, <2>2 DEF InExchange, AtCollect, Pair, HostSound, DeviceRecord
  <2>9. /\ host.registered => \/ host.pending /\ core.reply /\ core.got = host.request
                              \/ ~host.pending /\ ~host.receipt
        /\ 0 < op.pass => Quiescent /\ host.registered
        /\ op.pass = 2 => op.quiet
        /\ op.quiet => host.registered /\ ~host.pending /\ ~host.receipt
    BY <1>2, <2>1 DEF AtCollect, InExchange
  <2>10. board' \in Board /\ store' \in [Sessions -> Host] /\ due' \in BOOLEAN
    BY <1>4, Collected, Facts
  <2>11. CASE f = Nothing
    <3>1. core.registered /\ ~core.reply
      BY <2>3, <2>8, <2>11
    <3>2. host.registered /\ ~host.pending /\ ~host.receipt
      BY <2>8, <2>9, <3>1
    <3>3. Quiescent'
      BY <1>2, <2>6, <3>1, <3>2 DEF Quiescent
    <3>4. AtDecide'
      BY <2>4, <2>6, <2>9, <2>11, <3>2, <3>3 DEF AtDecide
    <3>5. ExchangeInv'
      BY <2>4, <2>7, <2>11, <3>4 DEF ExchangeInv
    <3> QED
      BY <1>1, <1>4, <2>4, <2>5, <2>10, <2>11, <3>5, Advance DEF Exchanging
  <2>12. CASE f # Nothing
    <3>1. /\ f.kind \in UpKinds /\ f.from = core.key /\ f.to = server
          /\ f.challenge = core.challenge /\ f.id = core.got
      BY <2>1, <2>3, <2>12
    <3>2. HostAccepts(host, f)
      BY <2>1, <2>3, <2>8, <3>1 DEF HostAccepts, UpKinds
    <3>3. f.kind = "report" => f.id = host.request /\ 0 < host.request
      <4>1. core.got \in Nat /\ host.request \in Nat
        BY <1>2, <2>2, HostAtWork, Numbers DEF DeviceRecord, Requests
      <4> QED
        BY <2>3, <2>8, <2>9, <3>1, <4>1
    <3>4. f.kind = "claim" /\ host.registered => ~host.pending /\ ~host.receipt
      BY <2>3, <2>8, <2>9
    <3>5. IF f.kind = "report" THEN core.registered ELSE ~core.registered
      BY <2>3, <3>1 DEF UpKinds
    <3>6. op.pass = 0
      BY <1>2, <2>1, <2>3, <2>9, <3>1 DEF Quiescent, UpKinds
    <3>7. AtTake'
      BY <2>4, <2>6, <2>8, <2>12, <3>1, <3>2, <3>3, <3>4, <3>5, <3>6 DEF AtTake
    <3>8. ExchangeInv'
      BY <2>4, <2>7, <2>12, <3>7 DEF ExchangeInv
    <3>9. ~due'
      BY <1>2, <2>6
    <3> QED
      BY <1>1, <1>4, <2>4, <2>5, <2>10, <2>12, <3>8, <3>9, Advance DEF Exchanging
  <2> QED
    BY <2>11, <2>12
<1> QED
  BY <1>3, <1>4 DEF Collect

LEMMA TakeStep ==
    ASSUME Inv, Take
    PROVE  Inv'
<1> DEFINE f == op.frame
           h == HostReceived(host, f)
<1>1. /\ op.step = "take" /\ op.step \in Exchanging /\ f \in Frame
      /\ UNCHANGED <<board, row, server, device, keys, rounds, faults>>
  BY Facts DEF Take, Exchanging, Operations
<1>2. InExchange /\ AtTake /\ server # 0 /\ ~due /\ HostAccepts(host, f) /\ f.from \in Keys
  BY <1>1, InTheExchange DEF Inv, OpInv, ExchangeInv, AtTake
<1>3. CASE Fail /\ UNCHANGED <<store, due, refused>>
  BY <1>1, <1>3, Facts, FailKeeps DEF Inv, OpInv, ViewInv, RefusesOnlyEarlyRequests
<1>4. CASE /\ store' = [store EXCEPT ![server] = HostReceived(@, f)]
           /\ due' = (due \/ MakesDue(host, f))
           /\ To("decide")
           /\ UNCHANGED <<port, problem, refused>>
  <2>1. /\ host \in Host /\ host.id = server /\ HostSound(host) /\ h \in Host
        /\ host.registered \in BOOLEAN
        /\ core.server = server => Pair(host, core)
    BY <1>1, <1>2, HostAtWork, HostChanges
  <2>2. h = CASE ~host.registered -> [host EXCEPT !.candidate = f.from]
              [] host.registered /\ f.kind = "report" /\ f.id = host.request ->
                    [host EXCEPT !.pending = FALSE, !.receipt = TRUE]
              [] OTHER -> host
    BY DEF HostReceived
  <2>3. /\ f.kind \in UpKinds
        /\ f.kind = "report" => f.id = host.request /\ 0 < host.request
        /\ f.kind = "claim" /\ host.registered => ~host.pending /\ ~host.receipt
        /\ f.challenge = host.challenge /\ host.challenge # 0
        /\ core.server = server =>
              /\ f.from = core.key /\ f.challenge = core.challenge /\ core.claimed
              /\ IF f.kind = "report" THEN core.registered /\ core.got = f.id
                 ELSE ~core.registered
        /\ op.pass = 0 /\ ~op.quiet
    BY <1>2 DEF AtTake, HostAccepts
  <2>4. store' = [store EXCEPT ![server] = h]
    BY <1>4 DEF host
  <2>5. due' \in BOOLEAN /\ (due' <=> host.registered /\ f.kind = "claim")
    BY <1>2, <1>4, <2>1 DEF MakesDue
  <2> HIDE DEF h
  <2>6. /\ h.id = server /\ h.registered = host.registered /\ h.peer = host.peer
        /\ h.challenge = host.challenge /\ h.request = host.request
        /\ h.candidate = IF host.registered THEN host.candidate ELSE f.from
        /\ h.pending = (host.pending /\ ~(host.registered /\ f.kind = "report"))
        /\ h.receipt = (host.receipt \/ (host.registered /\ f.kind = "report"))
    <3>1. CASE ~host.registered
      <4>1. h = [host EXCEPT !.candidate = f.from]
        BY <2>2, <3>1
      <4> QED
        BY <2>1, <3>1, <4>1 DEF Host, HostRecord
    <3>2. CASE host.registered /\ f.kind = "report"
      <4>1. h = [host EXCEPT !.pending = FALSE, !.receipt = TRUE]
        BY <2>2, <2>3, <3>2
      <4> QED
        BY <2>1, <3>2, <4>1 DEF Host, HostRecord
    <3>3. CASE host.registered /\ f.kind # "report"
      <4>1. h = host
        BY <2>2, <3>3
      <4> QED
        BY <2>1, <3>3, <4>1 DEF Host, HostRecord
    <3> QED
      BY <2>1, <3>1, <3>2, <3>3
  <2>7. HostSound(h)
    BY <2>1, <2>3, <2>6 DEF HostSound
  <2>8. core.server = server => Pair(h, core)
    BY <2>1, <2>3, <2>6 DEF Pair
  <2>9. store' \in [Sessions -> Host] /\ host' = h /\ HostsInv' /\ BoardInv'
    BY <1>1, <1>2, <2>1, <2>4, <2>6, <2>7, <2>8, StoreChange DEF Inv
  <2>10. /\ op' \in Operations /\ op'.step = "decide" /\ op'.kind = op.kind
         /\ op'.quiet = op.quiet /\ op'.pass = op.pass
    BY <1>4, Facts, Moves DEF Steps
  <2>11. Open' = Open /\ core' = core /\ board'.ready = board.ready /\ server' = server
    BY <1>1, <1>4 DEF Open, core
  <2>12. InExchange'
    BY <1>2, <2>6, <2>9, <2>10, <2>11 DEF InExchange
  <2>13. host.registered => OneLeft'
    <3>1. Open => core.server = server
      BY <1>2 DEF InExchange
    <3>2. host.registered /\ f.kind = "claim" => ~h.pending /\ ~h.receipt /\ (Open => ~core.reply)
      BY <2>1, <2>3, <2>6, <3>1 DEF Pair
    <3>3. host.registered /\ f.kind = "report" => ~h.pending /\ h.receipt
      BY <2>6
    <3> QED
      BY <2>3, <2>5, <2>9, <2>11, <3>2, <3>3 DEF OneLeft, UpKinds
  <2>14. ~host.registered => ~due' /\ (Open => h.candidate = core.key)
    BY <1>2, <2>3, <2>5, <2>6 DEF InExchange
  <2>15. AtDecide'
    BY <2>3, <2>6, <2>9, <2>10, <2>11, <2>13, <2>14 DEF AtDecide
  <2>16. ExchangeInv'
    BY <2>10, <2>12, <2>15 DEF ExchangeInv
  <2> QED
    BY <1>1, <1>4, <2>5, <2>9, <2>10, <2>16, Facts, Advance DEF Exchanging
<1> QED
  BY <1>2, <1>3, <1>4 DEF Take

LEMMA DecideStep ==
    ASSUME Inv, Decide
    PROVE  Inv'
<1>1. /\ op.step = "decide" /\ op.step \in Exchanging
      /\ UNCHANGED <<board, store, row, port, server, due, problem, device, keys, rounds,
                     refused, faults>>
  BY DEF Decide, Exchanging
<1>2. /\ InExchange /\ AtDecide /\ server # 0 /\ op.pass \in {0, 1, 2}
      /\ Open => core.server = server /\ Pair(host, core)
  BY <1>1, InTheExchange DEF Inv, OpInv, ExchangeInv
<1>3. HostsInv' /\ BoardInv' /\ host' = host /\ core' = core /\ Open' = Open
  BY <1>1, DataKept DEF Inv, host, core, Open
<1>4. /\ op \in Operations /\ op.kind \in {"register", "approve", "update"}
      /\ host.registered \in BOOLEAN
  BY <1>1, <1>2, Facts, HostAtWork DEF KindFits
<1>5. CASE Done
  <2>1. op' \in Operations /\ op'.step = "last" /\ op'.kind = op.kind /\ op'.pass = op.pass
    BY <1>4, <1>5 DEF Decide, Operations, Steps
  <2>2. host.registered => Quiescent
    BY <1>2, <1>5 DEF Done, AtDecide
  <2>3. ~due
    BY <1>2, <2>2 DEF AtDecide, Quiescent
  <2>4. Open => ReportsWhatIsDone'
    <3>1. ASSUME Open, host.registered
          PROVE  /\ core.registered /\ ~core.reply /\ ~host.pending /\ host.peer = core.key
                 /\ 0 < host.request => core.got = host.request
      BY <1>2, <2>2, <3>1 DEF Quiescent, Pair
    <3>2. op.kind \in {"approve", "update"} => host.registered
      BY <1>2 DEF InExchange
    <3>3. op.kind = "update" => 0 < host.request
      BY <1>2 DEF InExchange
    <3>4. Open /\ ~host.registered => host.candidate = core.key
      BY <1>2 DEF AtDecide
    <3> QED
      BY <1>3, <2>1, <3>1, <3>2, <3>3, <3>4 DEF ReportsWhatIsDone, core
  <2>5. ExchangeInv'
    BY <1>2, <1>3, <2>1, <2>4 DEF ExchangeInv, Exchanging
  <2> QED
    BY <1>1, <1>3, <2>1, <2>3, <2>5, Facts, Advance
<1>6. CASE ~Done
  <2>1. host.registered /\ ~op.quiet
    BY <1>6 DEF Done
  <2>2. /\ op.pass \in {0, 1} /\ (op.pass = 1 => Quiescent) /\ (Quiescent \/ OneLeft)
    BY <1>2, <2>1 DEF AtDecide
  <2>3. op' = [op EXCEPT !.step = "send", !.frame = Nothing,
                         !.pass = IF op.pass < MaxPasses THEN op.pass + 1 ELSE op.pass]
    BY <1>6 DEF Decide
  <2>4. (IF op.pass < MaxPasses THEN op.pass + 1 ELSE op.pass) \in 0 .. MaxPasses
    BY <1>4, Numbers DEF Operations
  <2>5. Nothing \in Frame
    BY Numbers DEF Nothing, Frame, Parties, Rounds, Requests
  <2>6. /\ op' \in Operations /\ op'.step = "send" /\ op'.kind = op.kind
        /\ op'.pass = IF op.pass < MaxPasses THEN op.pass + 1 ELSE op.pass
    BY <1>4, <2>3, <2>4, <2>5 DEF Operations, Steps
  <2>7. op'.pass \in {0, 1, 2} /\ (op'.pass = 2 => op.pass = 1)
    BY <2>2, <2>6, Numbers
  <2>8. Quiescent' = Quiescent /\ OneLeft' = OneLeft
    BY <1>1, <1>3 DEF Quiescent, OneLeft
  <2>9. AtSend'
    BY <2>2, <2>7, <2>8 DEF AtSend
  <2>10. InExchange'
    BY <1>1, <1>2, <1>3, <2>1, <2>6, <2>7 DEF InExchange
  <2>11. ExchangeInv'
    BY <2>6, <2>9, <2>10, Sending
  <2> QED
    BY <1>1, <1>3, <2>6, <2>11, Facts, Advance DEF Exchanging
<1> QED
  BY <1>5, <1>6

LEMMA LastStep ==
    ASSUME Inv, Last
    PROVE  Inv'
<1>1. op.step = "last" /\ op # Idle /\ op.kind \in Controls /\ keys' = keys
  BY Facts DEF Last, Idle, KindFits
<1>2. CASE Rejected(board)
  BY <1>1, <1>2, RejectedUnchanged
<1>3. CASE /\ Answered /\ device' = View(board) /\ Finish
           /\ UNCHANGED <<board, store, row, server, due, rounds, refused, faults>>
  <2>1. op' = Idle /\ UNCHANGED <<port, problem>>
    BY <1>3 DEF Finish
  <2>2. HostsInv' /\ BoardInv'
    BY <1>3, DataKept DEF Inv
  <2>3. Shape'
    BY <1>1, <1>3, <2>1, IdleShape, Facts, ShapeOf
  <2>4. ~due /\ (server = 0 => ~board.provisioned)
    BY <1>1, <1>3 DEF Inv, OpInv, PortInv, ViewInv, Answered
  <2>5. device'.provisioned => device'.server # 0
    BY <1>3, Facts DEF BoardSound, core
  <2>6. OpInv'
    BY <1>3, <2>1, <2>4, <2>5, IdleOp
  <2> QED
    BY <1>3, <2>2, <2>3, <2>6 DEF Inv, RefusesOnlyEarlyRequests
<1> QED
  BY <1>2, <1>3 DEF Last

-----------------------------------------------------------------------------
(***************************************************************************)
(* The invariant.                                                          *)
(***************************************************************************)
LEMMA InvInit == Init => Inv
<1> SUFFICES ASSUME Init PROVE Inv
  OBVIOUS
<1>1. /\ store = [s \in Sessions |-> NoHost] /\ NoHost \in Host /\ NoHost.id = 0
      /\ ~NoHost.registered /\ NoHost.request = 0 /\ ~NoHost.pending /\ ~NoHost.receipt
  BY Numbers DEF Init, NoHost, NewHost
<1>2. /\ board = EmptyBoard /\ ~EmptyBoard.provisioned /\ ~EmptyBoard.ready
      /\ ~EmptyBoard.crypto_ready
      /\ EmptyBoard.core = NewDevice(0, 0) /\ EmptyBoard.core.server = 0
  BY DEF Init, EmptyBoard, NewDevice
<1>3. EmptyBoard \in Board
  BY Numbers DEF EmptyBoard, Board, NewDevice, DeviceRecord, Keys, Rounds, Requests, Other
<1>4. View(EmptyBoard) \in Views /\ ~View(EmptyBoard).provisioned
      /\ View(EmptyBoard).key \in Keys /\ View(EmptyBoard).server \in 0 .. Other
  <2>1. View(EmptyBoard) \in Views
    BY <1>3, BoardTypes
  <2> QED
    BY <1>2, <2>1 DEF View, Views
<1>5. /\ op = Idle /\ Idle \in Operations /\ device = View(EmptyBoard) /\ row = 0 /\ server = 0
      /\ port = "closed" /\ due = FALSE /\ problem = FALSE
      /\ keys = 0 /\ rounds = 0 /\ faults = 0
      /\ refused = [by |-> "nobody", of |-> "none"]
  BY IdleShape DEF Init
<1>6. Shape
  <2>1. 0 \in Keys /\ 0 \in Rounds /\ 0 \in 0 .. MaxSessions /\ 0 \in 0 .. MaxFaults
    BY Numbers DEF Keys, Rounds
  <2>2. /\ op.kind \in Kinds /\ op.step \in Steps /\ op.shown \in Keys
        /\ op.created \in 0 .. MaxSessions /\ op.frame \in Frame
    BY <1>5 DEF Operations
  <2>3. store \in [Sessions -> Host]
    BY <1>1
  <2> QED
    BY <1>2, <1>3, <1>4, <1>5, <2>1, <2>2, <2>3 DEF Shape, TypeOK
<1>7. HostsInv
  BY <1>1, <1>5 DEF HostsInv, HostSound
<1>8. BoardInv
  BY <1>2, Numbers DEF BoardInv, BoardSound, core
<1>9. op.kind = "none" /\ op.step = "idle" /\ op.pass = 0
  BY <1>5 DEF Idle
<1>10. PortInv
  BY <1>5, <1>9 DEF PortInv, KindFits, Registering, Exchanging, Checking
<1>11. RoomInv /\ StepInv /\ ExchangeInv
  BY <1>9 DEF RoomInv, StepInv, ExchangeInv, Hosted, Registering, Exchanging, Checking
<1>12. ViewInv
  BY <1>2, <1>4, <1>5, <1>9 DEF ViewInv, Registering, Controls, Open
<1>13. RefusesOnlyEarlyRequests
  BY <1>5 DEF RefusesOnlyEarlyRequests
<1> QED
  BY <1>6, <1>7, <1>8, <1>10, <1>11, <1>12, <1>13 DEF Inv, OpInv

LEMMA Stuttering == ASSUME Inv, UNCHANGED vars PROVE Inv'
<1>1. UNCHANGED <<board, store, row, port, server, due, problem, device, op, keys, rounds,
                  refused, faults>>
  BY DEF vars, page
<1>2. host' = host /\ core' = core /\ Open' = Open
  BY <1>1 DEF host, core, Open
<1>3. Shape' /\ HostsInv' /\ BoardInv' /\ RefusesOnlyEarlyRequests'
  BY <1>1 DEF Inv, Shape, TypeOK, HostsInv, BoardInv, RefusesOnlyEarlyRequests, core
<1>4. PortInv' /\ RoomInv' /\ ViewInv' /\ StepInv'
  <2>1. PortInv'
    BY <1>1 DEF Inv, OpInv, PortInv
  <2>2. RoomInv'
    BY <1>1 DEF Inv, OpInv, RoomInv
  <2>3. ViewInv'
    BY <1>1, <1>2 DEF Inv, OpInv, ViewInv
  <2>4. StepInv'
    BY <1>1, <1>2 DEF Inv, OpInv, StepInv
  <2> QED
    BY <2>1, <2>2, <2>3, <2>4
<1>5. Quiescent' = Quiescent /\ OneLeft' = OneLeft
  BY <1>1, <1>2 DEF Quiescent, OneLeft
<1>6. ExchangeInv'
  <2>1. op.step \in Exchanging => InExchange'
    BY <1>1, <1>2 DEF Inv, OpInv, ExchangeInv, InExchange
  <2>2. op.step = "send" => AtSend'
    BY <1>1, <1>5 DEF Inv, OpInv, ExchangeInv, AtSend
  <2>3. op.step = "forward" => AtForward'
    BY <1>1, <1>2 DEF Inv, OpInv, ExchangeInv, AtForward
  <2>4. op.step = "collect" => AtCollect'
    BY <1>1, <1>2, <1>5 DEF Inv, OpInv, ExchangeInv, AtCollect
  <2>5. op.step = "take" => AtTake'
    BY <1>1, <1>2 DEF Inv, OpInv, ExchangeInv, AtTake
  <2>6. op.step = "decide" => AtDecide'
    BY <1>1, <1>2, <1>5 DEF Inv, OpInv, ExchangeInv, AtDecide
  <2>7. op.step = "last" => (Open => ReportsWhatIsDone')
    BY <1>1, <1>2 DEF Inv, OpInv, ExchangeInv, ReportsWhatIsDone, core
  <2> QED
    BY <1>1, <1>2, <2>1, <2>2, <2>3, <2>4, <2>5, <2>6, <2>7 DEF Inv, OpInv, ExchangeInv
<1> QED
  BY <1>3, <1>4, <1>6 DEF Inv, OpInv

LEMMA InvStep == Inv /\ [Next]_vars => Inv'
<1> SUFFICES ASSUME Inv, [Next]_vars PROVE Inv'
  OBVIOUS
<1>1. CASE Operation
  BY <1>1, InspectStep, RestoreStep, IdentityStep, SaveRowStep, BeginStep, SetupStep, CheckStep,
     EntropyStep, ApproveStep, UpdateStep, SendStep, ForwardStep, CollectStep, TakeStep,
     DecideStep, LastStep
     DEF Operation
<1>2. CASE \E expected \in BOOLEAN : Connect(expected)
  BY <1>2, ConnectStep
<1>3. CASE \E kind \in Controls : Command(kind)
  BY <1>3, CommandStep
<1>4. CASE Disconnect \/ UsbLost \/ BoardReboots \/ FactoryReset
  BY <1>4, WorldStep
<1>5. CASE RegisteredElsewhere \/ Reload
  BY <1>5, ElsewhereStep, ReloadStep
<1>6. CASE UNCHANGED vars
  BY <1>6, Stuttering
<1> QED
  BY <1>1, <1>2, <1>3, <1>4, <1>5, <1>6 DEF Next

LEMMA Invariance == Spec => []Inv
BY InvInit, InvStep, PTL DEF Spec

-----------------------------------------------------------------------------
(***************************************************************************)
(* What an operation that succeeds has done.                               *)
(***************************************************************************)
LEMMA Outcome ==
    ASSUME Inv, Next, op # Idle, op' = Idle, port' = "open"
    PROVE  op.step = "restore" \/ (op.step = "last" /\ Open)
<1>1. op \in Operations /\ op'.step = "idle" /\ op'.kind = "none"
      /\ op.kind \in Kinds /\ KindFits(op.kind, op.step)
  BY Facts DEF Idle
<1>2. ASSUME NEW s \in Steps, s # "idle", To(s) PROVE FALSE
  BY <1>1, <1>2, Moves
<1>3. ~Fail /\ \A b : ~Rejected(b)
  BY DEF Fail, Rejected
<1>4. ~(\E expected \in BOOLEAN : Connect(expected)) /\ ~(\E kind \in Controls : Command(kind))
  BY DEF Connect, Command, Usable
<1>5. ~Inspect
  <2>1. AfterInspect \in {"restore", "identity"}
    BY DEF AfterInspect
  <2> QED
    BY <1>2, <1>3, <2>1 DEF Inspect, Steps
<1>6. ~Identity
  <2>1. ASSUME NEW s, op' = [op EXCEPT !.step = "row", !.created = s] PROVE FALSE
    BY <1>1, <2>1 DEF Operations
  <2> QED
    BY <1>2, <2>1 DEF Identity, Steps
<1>7. ~SaveRow /\ ~Begin /\ ~Setup /\ ~Approve /\ ~Update /\ ~Forward /\ ~Take
  <2>1. ~To("begin") /\ ~To("check") /\ ~To("setup") /\ ~To("send") /\ ~To("collect") /\ ~To("decide")
    BY <1>2 DEF Steps
  <2> QED
    BY <1>3, <2>1 DEF SaveRow, Begin, Setup, Approve, Update, Forward, Take
<1>8. ~Check /\ ~Entropy
  <2>1. NextStep \in {"send", "approve", "update"}
    BY DEF NextStep
  <2>2. \A b : Start(b) \in {"send", "approve", "update", "entropy"}
    BY <2>1 DEF Start
  <2> QED
    BY <1>2, <1>3, <2>1, <2>2 DEF Check, Entropy, Steps
<1>9. ~Send /\ ~Collect
  BY <1>1, <1>3 DEF Send, Collect, Operations
<1>10. Decide => FALSE
  BY <1>1 DEF Decide, Operations
<1>11. ~Disconnect /\ ~UsbLost /\ ~BoardReboots /\ ~FactoryReset /\ ~RegisteredElsewhere /\ ~Reload
  BY DEF Disconnect, UsbLost, BoardReboots, FactoryReset, RegisteredElsewhere, Reload, page
<1>12. Restore \/ Last
  BY <1>4, <1>5, <1>6, <1>7, <1>8, <1>9, <1>10, <1>11 DEF Next, Operation
<1>13. Last => Open
  BY <1>3 DEF Last, Answered, Open
<1> QED
  BY <1>12, <1>13 DEF Restore, Last

LEMMA Reported == ASSUME Inv, Next, Succeeds PROVE ReportsWhatIsDone
<1>1. op.step = "restore" \/ (op.step = "last" /\ Open)
  BY Outcome DEF Succeeds
<1>2. op.step = "restore" => op.kind = "connect"
  BY Facts DEF KindFits
<1> QED
  BY <1>1, <1>2 DEF ReportsWhatIsDone, Inv, OpInv, ExchangeInv

\* A host becomes registered when the user approves, and then only.
LEMMA Displayed == ASSUME Inv, Next PROVE ApprovesWhatWasDisplayed
<1>1. store \in [Sessions -> Host]
  BY Facts
<1>2. ASSUME UNCHANGED store PROVE ApprovesWhatWasDisplayed
  BY <1>2 DEF ApprovesWhatWasDisplayed
<1>3. ASSUME NEW h, server # 0, store' = [store EXCEPT ![server] = h],
             h.registered => host.registered
      PROVE  ApprovesWhatWasDisplayed
  <2>1. server \in Sessions
    BY <1>3, HostAtWork
  <2>2. ASSUME NEW s \in Sessions PROVE store'[s].registered => store[s].registered
    BY <1>1, <1>3, <2>1 DEF host
  <2> QED
    BY <2>2 DEF ApprovesWhatWasDisplayed
<1>4. \A b : Rejected(b) => UNCHANGED store
  BY DEF Rejected
<1>5. CASE Identity
  <2>1. CASE NeedsNewHost
    <3>1. PICK s \in Sessions : store' = [store EXCEPT ![s] = NewHost(s)]
      BY <1>5, <2>1 DEF Identity
    <3>2. \A r \in Sessions : store'[r] = store[r] \/ ~store'[r].registered
      BY <1>1, <3>1 DEF NewHost
    <3> QED
      BY <3>2 DEF ApprovesWhatWasDisplayed
  <2>2. CASE ~NeedsNewHost
    BY <1>2, <1>5, <2>2 DEF Identity
  <2> QED
    BY <2>1, <2>2
<1>6. CASE Begin \/ Update \/ Send \/ Take
  <2>1. server # 0 /\ host \in Host
    <3>1. op.step \in Hosted
      BY <1>6 DEF Begin, Update, Send, Take, Hosted, Exchanging
    <3> QED
      BY <3>1, HostAtWork DEF Inv, OpInv, StepInv
  <2>2. CASE Begin
    <3>1. Begun(host, rounds').registered = host.registered
      BY <2>1 DEF Begun, Host, HostRecord
    <3> QED
      BY <1>2, <1>3, <2>1, <2>2, <3>1 DEF Begin, host
  <2>3. CASE Update
    <3>1. Requested(host).registered = host.registered
      BY <2>1 DEF Requested, Host, HostRecord
    <3> QED
      BY <1>3, <2>1, <2>3, <3>1 DEF Update, host
  <2>4. CASE Send
    <3>1. HostSent(host, due).registered = host.registered
      BY <2>1 DEF HostSent, Host, HostRecord
    <3> QED
      BY <1>3, <2>1, <2>4, <3>1 DEF Send, host
  <2>5. CASE Take
    <3>1. HostReceived(host, op.frame).registered = host.registered
      BY <2>1 DEF HostReceived, Host, HostRecord
    <3> QED
      BY <1>2, <1>3, <2>1, <2>5, <3>1 DEF Take, host
  <2> QED
    BY <1>6, <2>2, <2>3, <2>4, <2>5
<1>7. CASE Approve
  <2>1. CASE UNCHANGED store
    BY <1>2, <2>1
  <2>2. CASE ApprovalMatches /\ store' = [store EXCEPT ![server] = Approved(@, op.shown)]
    <3>1. /\ op.step = "approve" /\ op.kind = "approve" /\ server # 0 /\ device.server = server
      BY <1>7, Facts DEF Approve, KindFits, Inv, OpInv, ViewInv, StepInv, Hosted
    <3>2. server \in Sessions /\ host \in Host
      BY <3>1, HostAtWork
    <3>3. /\ store'[server].peer = op.shown
          /\ \A s \in Sessions : s # server => store'[s] = store[s]
      BY <1>1, <2>2, <3>2 DEF Approved, Host, HostRecord, host
    <3>4. op.shown = device.key
      BY <2>2 DEF ApprovalMatches
    <3> QED
      BY <3>1, <3>3, <3>4 DEF ApprovesWhatWasDisplayed
  <2> QED
    BY <1>7, <2>1, <2>2 DEF Approve
<1>8. CASE Inspect \/ Restore \/ SaveRow \/ Setup \/ Check \/ Entropy \/ Forward \/ Collect \/ Decide \/ Last
  BY <1>2, <1>4, <1>8
     DEF Inspect, Restore, SaveRow, Setup, Check, Entropy, Forward, Collect, Decide, Last
<1>9. CASE ~Operation
  BY <1>2, <1>9
     DEF Next, Connect, Command, Disconnect, UsbLost, BoardReboots, FactoryReset,
         RegisteredElsewhere, Reload
<1> QED
  BY <1>5, <1>6, <1>7, <1>8, <1>9 DEF Operation

-----------------------------------------------------------------------------
(***************************************************************************)
(* The theorems.                                                           *)
(***************************************************************************)

\* However registrations, resets, reboots, reloads and lost calls interleave,
\* the host that the board pinned is the one that the saved row restores
\* (qtpy-fleet.mjs saves the row, and the host its checkpoint, before the
\* board is set up).
THEOREM PinnedHost == Spec => []PinnedHostIsSaved
<1>1. Inv => PinnedHostIsSaved
  BY Numbers DEF Inv, HostsInv, BoardInv, PinnedHostIsSaved, core
<1> QED
  BY <1>1, Invariance, PTL

\* A board that believes it is enrolled with a host of this page is right:
\* the saved record of that host says so, of the same identity and session.
THEOREM Together == Spec => []RegisteredTogether
<1>1. ASSUME Inv, core.registered, core.server \in Sessions
      PROVE  LET h == store[core.server]
             IN  h.registered /\ h.peer = core.key /\ h.challenge = core.challenge
  BY <1>1 DEF Inv, BoardInv, Pair
<1>2. Inv => RegisteredTogether
  BY <1>1 DEF RegisteredTogether, core
<1> QED
  BY <1>2, Invariance, PTL

\* An exchange needs three passes at most: a frame and its answer, the
\* confirmation or the receipt, and one pass in which neither side speaks.
\* The limit of 32 in exchange() is never reached, whatever went before; what
\* is refused is exactly the group request for a board whose confirmation was
\* lost.
THEOREM Settles ==
    ASSUME MaxPasses > 2
    PROVE  Spec => []ExchangeSettles
<1>1. ASSUME Inv PROVE ExchangeSettles
  <2>1. op.step \in Exchanging \cup {"last"} \/ op.pass = 0
    BY <1>1 DEF Inv, OpInv, StepInv
  <2>2. op.step \in Exchanging \cup {"last"} => op.pass <= 2
    BY <1>1 DEF Inv, OpInv, ExchangeInv, InExchange
  <2>3. op.pass \in 0 .. MaxPasses
    BY <1>1, Facts DEF Operations
  <2>4. op.pass < MaxPasses
    BY <2>1, <2>2, <2>3, Numbers
  <2>5. AcceptsTheRest
    BY <1>1, ForwardAccepts DEF AcceptsTheRest
  <2> QED
    BY <1>1, <2>4, <2>5 DEF Inv, Shape, ExchangeSettles
<1> QED
  BY <1>1, Invariance, PTL

\* What the page reports as done is done on both sides, and what is approved
\* is the candidate that was displayed and that the board still has.
THEOREM Success == Spec => SuccessIsReal
<1>1. Inv /\ [Next]_vars => [(Succeeds => ReportsWhatIsDone) /\ ApprovesWhatWasDisplayed]_vars
  BY Reported, Displayed
<1> QED
  BY <1>1, Invariance, PTL DEF Spec, SuccessIsReal
=============================================================================
