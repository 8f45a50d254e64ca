----------------------------------- MODULE Lab -----------------------------------
(***************************************************************************)
(* The session that the guided demo keeps (web/lab.mjs): two workers, each *)
(* answering its calls in order, and the packets between them.  Lab's      *)
(* asynchronous operations run from one worker's answer to the next call;  *)
(* several callers may be in the middle of one when a reset replaces the   *)
(* workers under them.  A result is stamped with the epoch of the worker   *)
(* that gave it.                                                           *)
(***************************************************************************)
EXTENDS Naturals, Sequences, FiniteSets

CONSTANTS Callers,      \* who may call an operation at the same time
          MaxQueue,     \* MAX_QUEUE
          FailingRoles, \* the workers that may fail to load
          MaxEpochs,    \* bound on resets and stops
          MaxPackets    \* bound on the packets of a session

ASSUME LabAssumption ==
    /\ MaxQueue \in Nat \ {0} /\ MaxEpochs \in Nat /\ MaxPackets \in Nat
    /\ FailingRoles \subseteq {"device", "server"}

VARIABLES
    epoch,    \* this.epoch
    ready,    \* this.ready
    workers,  \* the worker of each role
    calls,    \* each worker's unanswered calls, oldest first
    ops,      \* what each caller awaits
    shown,    \* this.states: the epoch each role's state comes from, or 0
    verified, \* the epoch of verifiedChallenge, or 0
    queue,    \* the relay's packets
    log,      \* the archive
    next,     \* this.nextPacket
    why       \* what ended the session before this one

vars == <<epoch, ready, workers, calls, ops, shown, verified, queue, log, next, why>>
session == <<shown, verified, queue, log, next>>

Roles == {"device", "server"}

NoPacket == [id |-> 0, epoch |-> 0]

\* What a caller that began in epoch "at" awaits, and the packet that it holds.
Awaits(name, stage, at, packet, defer) ==
    [name |-> name, stage |-> stage, epoch |-> at, packet |-> packet, defer |-> defer]

Idle == Awaits("idle", "idle", 0, NoPacket, FALSE)

NoCalls == [role \in Roles |-> <<>>]

Init ==
    /\ epoch = 0 /\ ready = FALSE
    /\ workers = [role \in Roles |-> "none"]
    /\ calls = NoCalls
    /\ ops = [c \in Callers |-> Idle]
    /\ shown = [role \in Roles |-> 0] /\ verified = 0
    /\ queue = {} /\ log = {} /\ next = 1
    /\ why = "none"

-----------------------------------------------------------------------------
(***************************************************************************)
(* raw, and what ends an operation.                                        *)
(***************************************************************************)
\* reset's catch: only the newest session is stopped.
StopsAgain(started, now) == started = now

InFlight_LeftRunning == [calls |-> calls, ops |-> ops]

InFlight_Forgotten == [calls |-> NoCalls, ops |-> ops]

\* What stop leaves in flight: its workers answer nothing any more, and every
\* pending call is rejected, which ends the operation behind it.
InFlight == [calls |-> NoCalls, ops |-> [c \in Callers |-> Idle]]

Stopped(cause) ==
    /\ epoch' = epoch + 1
    /\ ready' = FALSE
    /\ workers' = [role \in Roles |-> "none"]
    /\ calls' = InFlight.calls
    /\ ops' = InFlight.ops
    /\ why' = cause

-----------------------------------------------------------------------------
(***************************************************************************)
(* reset and stop.                                                         *)
(***************************************************************************)
\* Everything of the old session goes, and its operations fail, before the
\* first answer of the new workers.  A reset that is cut off reaches its catch.
Reset(c) == \E defer \in BOOLEAN :
    /\ ops[c] = Idle
    /\ epoch < MaxEpochs
    /\ shown' = [role \in Roles |-> 0] /\ verified' = 0
    /\ queue' = {} /\ log' = {} /\ next' = 1
    /\ IF \E d \in Callers : ops[d].name = "reset" /\ StopsAgain(ops[d].epoch, epoch + 1)
       THEN Stopped("reset")
       ELSE /\ epoch' = epoch + 1 /\ ready' = FALSE /\ why' = "reset"
            /\ workers' = [role \in Roles |-> "loading"]
            /\ calls' = [InFlight.calls EXCEPT !["server"] =
                            Append(@, [owner |-> c, epoch |-> epoch + 1])]
            /\ ops' = [InFlight.ops EXCEPT ![c] =
                          Awaits("reset", "server init", epoch + 1, NoPacket, defer)]

\* pagehide
Stop ==
    /\ epoch < MaxEpochs
    /\ Stopped("stopped")
    /\ UNCHANGED session

\* The worker's script cannot be fetched: onerror, once, which rejects the calls
\* pending by then.
LoadFails(role) ==
    LET owners == {c \in Callers : \E i \in DOMAIN calls[role] : calls[role][i].owner = c}
    IN  /\ role \in FailingRoles /\ workers[role] = "loading"
        /\ IF \E c \in owners : ops[c].name = "reset" /\ StopsAgain(ops[c].epoch, epoch)
           THEN Stopped("failed")
           ELSE /\ workers' = [workers EXCEPT ![role] = "broken"]
                /\ calls' = [calls EXCEPT ![role] = <<>>]
                /\ ops' = [c \in Callers |-> IF c \in owners THEN Idle ELSE ops[c]]
                /\ UNCHANGED <<epoch, ready, why>>
        /\ UNCHANGED session

-----------------------------------------------------------------------------
(***************************************************************************)
(* The operations, up to their first await, and those without one.         *)
(***************************************************************************)
Unmoved == UNCHANGED <<epoch, ready, workers, why>>

\* A caller starts an operation whose first call goes to a live worker.
Starts(c, name, role, packet) ==
    /\ ops[c] = Idle /\ workers[role] # "none"
    /\ ops' = [ops EXCEPT ![c] = Awaits(name, role, epoch, packet, FALSE)]
    /\ calls' = [calls EXCEPT ![role] = Append(@, [owner |-> c, epoch |-> epoch])]
    /\ Unmoved /\ UNCHANGED session

\* generateDevice
Generate(c) == Starts(c, "generate", "device", NoPacket)

\* provisionDevice, which reads the server's key from its shown state
Provision(c) == shown["server"] # 0 /\ Starts(c, "provision", "device", NoPacket)

\* command, and update, beginEnrollment and approveEnrollment around it
Command(c, role) == ready /\ Starts(c, "command", role, NoPacket)

HasRoom == Cardinality(queue) < MaxQueue

Transmit(c, role) == HasRoom /\ ready /\ Starts(c, "transmit", role, NoPacket)

\* deliver: a device that has no state yet only verifies the challenge.
Deliver(c, role) == \E p \in queue :
    IF role = "device" /\ shown["device"] = 0
    THEN Starts(c, "verify", role, p)
    ELSE ready /\ Starts(c, "deliver", role, p)

\* replay and duplicate
Duplicate ==
    /\ HasRoom /\ next <= MaxPackets
    /\ \E p \in queue \cup log :
          queue' = queue \cup {[p EXCEPT !.id = next]} /\ next' = next + 1
    /\ Unmoved /\ UNCHANGED <<calls, ops, shown, verified, log>>

Drop == \E p \in queue :
    /\ queue' = queue \ {p} /\ log' = log \cup {p}
    /\ Unmoved /\ UNCHANGED <<calls, ops, shown, verified, next>>

-----------------------------------------------------------------------------
(***************************************************************************)
(* A worker's answer, and what the caller that awaits it does up to its    *)
(* next await.                                                             *)
(***************************************************************************)
Current(c) == ops[c].epoch = epoch

\* The operation goes on to another call.
GoesOn(c, from, role, stage) ==
    /\ ops' = [ops EXCEPT ![c].stage = stage]
    /\ calls' = [[calls EXCEPT ![from] = Tail(@)] EXCEPT ![role] =
                    Append(@, [owner |-> c, epoch |-> epoch])]
    /\ workers' = [workers EXCEPT ![from] = "running"]
    /\ UNCHANGED <<epoch, ready, why, session>>

\* It ends, in whatever way.
Ends(c, from) ==
    /\ ops' = [ops EXCEPT ![c] = Idle]
    /\ calls' = [calls EXCEPT ![from] = Tail(@)]
    /\ workers' = [workers EXCEPT ![from] = "running"]
    /\ UNCHANGED <<epoch, why>>

\* A refusal: a reset's catch stops the session unless a newer one has begun.
Refused(c, from) ==
    IF ops[c].name = "reset" /\ StopsAgain(ops[c].epoch, epoch)
    THEN Stopped("failed") /\ UNCHANGED session
    ELSE Ends(c, from) /\ UNCHANGED <<ready, session>>

ResetGoesOn(c, role) ==
    LET op == ops[c]
    IN  /\ op.name = "reset"
        /\ \/ op.stage = "server init" /\ Current(c) /\ GoesOn(c, role, "server", "server enable")
           \/ op.stage = "server enable" /\ ~op.defer /\ GoesOn(c, role, "device", "device init")
           \/ op.stage = "device init" /\ Current(c) /\ GoesOn(c, role, "device", "device enable")

\* The session is ready once the last endpoint has enrollment enabled.
ResetEnds(c, role, from) ==
    LET op == ops[c]
    IN  /\ op.name = "reset"
        /\ op.stage = (IF op.defer THEN "server enable" ELSE "device enable")
        /\ shown' = [r \in Roles |-> IF op.defer /\ r = "device" THEN 0 ELSE from]
        /\ ready' = TRUE
        /\ Ends(c, role)
        /\ UNCHANGED <<verified, queue, log, next>>

ProvisionGoesOn(c, role) ==
    /\ ops[c].name = "provision" /\ ops[c].stage = "device" /\ Current(c)
    /\ GoesOn(c, role, "device", "device enable")

ProvisionEnds(c, role, from) ==
    /\ ops[c].name = "provision" /\ ops[c].stage = "device enable" /\ Current(c)
    /\ shown' = [shown EXCEPT !["device"] = from]
    /\ Ends(c, role)
    /\ UNCHANGED <<ready, verified, queue, log, next>>

\* command shows the answering endpoint's state.
Shows(c, role, from) ==
    /\ ops[c].name \in {"command", "transmit", "deliver"} /\ Current(c)
    /\ shown' = [shown EXCEPT ![role] = from]
    /\ Ends(c, role)
    /\ UNCHANGED <<ready, verified>>

CommandEnds(c, role, from) ==
    /\ ops[c].name = "command"
    /\ Shows(c, role, from)
    /\ UNCHANGED <<queue, log, next>>

\* transmit checks the relay again after its await.
FitsNow == HasRoom

\* transmit: nothing to send, or a relay that has filled, leaves no packet.
TransmitEnds(c, role, from) ==
    /\ ops[c].name = "transmit"
    /\ Shows(c, role, from)
    /\ \/ /\ FitsNow /\ next <= MaxPackets
          /\ queue' = queue \cup {[id |-> next, epoch |-> from]} /\ next' = next + 1
          /\ UNCHANGED log
       \/ UNCHANGED <<queue, log, next>>

Filed(p) == queue' = {q \in queue : q.id # p.id} /\ log' = log \cup {p} /\ UNCHANGED next

DeliverEnds(c, role, from) ==
    /\ ops[c].name = "deliver"
    /\ Shows(c, role, from)
    /\ Filed(ops[c].packet)

\* The verified challenge is kept before the epoch is compared.
VerifyEnds(c, role, from) ==
    /\ ops[c].name = "verify"
    /\ verified' \in (IF shown["device"] = 0 THEN {from, verified} ELSE {verified})
    /\ IF Current(c) THEN Filed(ops[c].packet) ELSE UNCHANGED <<queue, log, next>>
    /\ Ends(c, role)
    /\ UNCHANGED <<ready, shown>>

Answer(role) ==
    /\ calls[role] # <<>> /\ workers[role] \in {"loading", "running"}
    /\ LET c == Head(calls[role]).owner  from == Head(calls[role]).epoch
       IN  \/ Refused(c, role)
           \/ ResetGoesOn(c, role) \/ ResetEnds(c, role, from)
           \/ ProvisionGoesOn(c, role) \/ ProvisionEnds(c, role, from)
           \/ CommandEnds(c, role, from) \/ TransmitEnds(c, role, from)
           \/ DeliverEnds(c, role, from) \/ VerifyEnds(c, role, from)

Next ==
    \/ \E c \in Callers : Reset(c) \/ Generate(c) \/ Provision(c)
    \/ \E c \in Callers, role \in Roles :
          Command(c, role) \/ Transmit(c, role) \/ Deliver(c, role)
    \/ Duplicate \/ Drop \/ Stop
    \/ \E role \in Roles : Answer(role) \/ LoadFails(role)

Spec == Init /\ [][Next]_vars

\* A worker that has loaded answers each call that it is sent.
FairSpec == Spec /\ \A role \in Roles : WF_vars(Answer(role))

-----------------------------------------------------------------------------
\* Nothing that the visitor of a ready session sees comes from the workers of
\* a session before it, whatever was in flight when it was replaced.
NothingFromBefore ==
    ready => /\ \A role \in Roles : shown[role] \in {0, epoch}
             /\ verified \in {0, epoch}
             /\ \A p \in queue \cup log : p.epoch = epoch

\* Opportunities taken at the same time do not overfill the relay.
RelayWithinLimit == Cardinality(queue) <= MaxQueue

\* Caller c awaits a worker whose one error event came before the call.
AwaitsBroken(c) ==
    \E role \in Roles :
        workers[role] = "broken" /\ \E i \in DOMAIN calls[role] : calls[role][i].owner = c

\* Every operation ends, with its result, a refusal or an error, unless it comes
\* to await a worker that had failed to load before the call was made.  raw's
\* comment promises more, "runtime errors reject" (lab.mjs:182), but onerror
\* rejects only what is pending when it comes (lab.mjs:93-100), and the
\* device's may come while the reset still awaits the server.
EveryCallSettles ==
    \A c \in Callers : (ops[c] # Idle) ~> (ops[c] = Idle \/ AwaitsBroken(c))

\* A reset makes the session ready unless its own worker refuses or fails, or
\* a later reset or a stop takes over, or it awaits a worker that had failed;
\* one that is cut off does no harm.
ResetSucceeds ==
    \A e \in 1 .. MaxEpochs :
        (epoch = e /\ why = "reset") ~>
            \/ ready \/ why \in {"failed", "stopped"} \/ epoch > e
            \/ \E c \in Callers : ops[c].name = "reset" /\ AwaitsBroken(c)

\* No operation hangs on a worker that runs, and a reset leads to a session
\* that can be used.
OperationsEnd == EveryCallSettles /\ ResetSucceeds
=============================================================================
