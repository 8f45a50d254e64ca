----------------------------- MODULE Enrollment -----------------------------
(***************************************************************************)
(* Enrollment in core/sc.c: one server context, and the devices that hold  *)
(* its pinned key and the same serial.  In signed mode the server opens a  *)
(* session with a fresh challenge, sends a signed invitation, stages the   *)
(* first device that claims it, and registers the key the application      *)
(* approves; a confirmation lets the device register the server.  Without  *)
(* signed mode a claim carries a shared secret and registers at once.      *)
(*                                                                         *)
(* RAM (ctx), storage (disk), failed commits, restarts and the network are *)
(* modelled as in ResourceSync.  A definition named X_Y is X with a        *)
(* plausible mistake Y; only the mutation runs use it.                     *)
(***************************************************************************)
EXTENDS Integers

CONSTANTS
    Devices,      \* the devices configured for this server and serial
    MaxSessions,  \* bound on the challenges drawn
    MaxTime,      \* bound on the trusted clock
    MaxFaults     \* bound on crashes and failed commits

Server == "server"
None   == "none"      \* the zero key
Secret == -1           \* the legacy enrollment secret, or no token at all
Endpoints  == Devices \cup {Server}
Challenges == 0 .. MaxSessions   \* 0 is the zero challenge
Sessions   == 1 .. MaxSessions

ASSUME DevicesAssumption == Server \notin Devices /\ None \notin Devices
ASSUME BoundsAssumption == MaxSessions \in Nat /\ MaxTime \in Nat /\ MaxFaults \in Nat

\* The enrollment part of sc_state; candidate_revision is set exactly when
\* candidate_key is, so candidate stands for both.
State ==
    [mode : BOOLEAN, registered : BOOLEAN, peer : Devices \cup {Server, None},
     challenge : Challenges, expires : 0 .. MaxTime,
     candidate : Devices \cup {None},
     reported : 0 .. 1, last_sent : 0 .. 1, acked : 0 .. 1]

Fresh(e) ==
    [mode |-> FALSE, registered |-> FALSE,
     peer |-> IF e = Server THEN None ELSE Server,
     challenge |-> 0, expires |-> 0, candidate |-> None,
     reported |-> 0, last_sent |-> 0, acked |-> 0]

\* token is a challenge in signed mode; otherwise the secret or no token.
Tokens == Challenges \cup {Secret}
Invitation   == [kind : {"invitation"}, challenge : Sessions, expires : 1 .. MaxTime]
ClaimFrame   == [kind : {"claim"}, from : Devices, token : Tokens]
Confirmation == [kind : {"confirmation"}, to : Devices, token : Tokens]
Frames == Invitation \cup ClaimFrame \cup Confirmation

VARIABLES
    ctx,          \* ctx[e]: the state in e's RAM
    disk,         \* disk[e]: the state in e's committed record
    confirm_due,  \* the server's volatile ctx->receipt_pending
    poisoned,     \* e's storage handle refuses everything until reopened
    net,          \* the frames released so far
    drawn,        \* challenges drawn from the random source
    ended,        \* history: the sessions the server cancelled or replaced
    now,          \* the server application's trusted clock
    faults        \* crashes and failed commits so far

vars == <<ctx, disk, confirm_due, poisoned, net, drawn, ended, now, faults>>

-----------------------------------------------------------------------------
Commit(e, next) ==
    /\ ctx'  = [ctx  EXCEPT ![e] = next]
    /\ disk' = [disk EXCEPT ![e] = next]
    /\ UNCHANGED <<poisoned, faults>>

CommitFails(e, next) ==
    /\ faults < MaxFaults
    /\ faults' = faults + 1
    /\ \/ disk' = [disk EXCEPT ![e] = next]
       \/ disk' = disk
    /\ poisoned' = [poisoned EXCEPT ![e] = TRUE]
    /\ UNCHANGED <<ctx, confirm_due, net, ended>>

Save(e, next) ==
    \/ Commit(e, next) /\ UNCHANGED <<confirm_due, net, ended>>
    \/ CommitFails(e, next)

\* Power loss, or closing and reopening: volatile state is lost.
Restart(e) ==
    /\ poisoned[e] \/ faults < MaxFaults
    /\ faults' = IF poisoned[e] THEN faults ELSE faults + 1
    /\ ctx' = [ctx EXCEPT ![e] = disk[e]]
    /\ confirm_due' = IF e = Server THEN FALSE ELSE confirm_due
    /\ poisoned' = [poisoned EXCEPT ![e] = FALSE]
    /\ UNCHANGED <<disk, net, drawn, ended, now>>

Tick ==
    /\ now < MaxTime
    /\ now' = now + 1
    /\ UNCHANGED <<ctx, disk, confirm_due, poisoned, net, drawn, ended, faults>>

-----------------------------------------------------------------------------
(***************************************************************************)
(* Calls of the application.                                               *)
(***************************************************************************)
EnrollmentEnable(e) ==
    LET s == ctx[e]
    IN  /\ ~poisoned[e]
        /\ ~s.mode /\ ~s.registered /\ s.reported = 0
        /\ Save(e, [s EXCEPT !.mode = TRUE])
        /\ UNCHANGED <<drawn, now>>

\* A new session replaces the open one and forgets its candidate.
Opened_KeepsCandidate(s, c, expires) == [s EXCEPT !.challenge = c, !.expires = expires]

Opened(s, c, expires) ==
    [s EXCEPT !.challenge = c, !.expires = expires, !.candidate = None]

Closed_CandidateOnly(s) == [s EXCEPT !.candidate = None]

Closed(s) == [s EXCEPT !.challenge = 0, !.expires = 0, !.candidate = None]

\* The server leaves its session for the state next.
EndSession(next) ==
    \/ /\ Commit(Server, next)
       /\ ended' = ended \cup ({ctx[Server].challenge} \ {0})
       /\ UNCHANGED <<confirm_due, net>>
    \/ CommitFails(Server, next)

EnrollmentBegin(expires) ==
    LET s == ctx[Server]
    IN  /\ ~poisoned[Server]
        /\ expires > now
        /\ s.mode /\ ~s.registered
        /\ drawn < MaxSessions
        /\ drawn' = drawn + 1
        /\ EndSession(Opened(s, drawn', expires))
        /\ UNCHANGED now

EnrollmentCancel ==
    LET s == ctx[Server]
    IN  /\ ~poisoned[Server]
        /\ s.mode /\ ~s.registered
        /\ EndSession(Closed(s))
        /\ UNCHANGED <<drawn, now>>

Registered(s, d) ==
    [s EXCEPT !.peer = d, !.registered = TRUE, !.expires = 0,
              !.reported = 1, !.candidate = None]

\* Registering also makes the confirmation due, once the record is committed.
Register(next) ==
    \/ /\ Commit(Server, next)
       /\ confirm_due' = TRUE
       /\ UNCHANGED <<net, ended>>
    \/ CommitFails(Server, next)

EnrollmentApprove(c, d) ==
    LET s == ctx[Server]
    IN  /\ s.mode /\ s.challenge = c
        /\ UNCHANGED <<drawn, now>>
        /\ \/ /\ s.registered /\ s.peer = d
              /\ confirm_due' = TRUE
              /\ UNCHANGED <<ctx, disk, poisoned, net, ended, faults>>
           \/ /\ ~s.registered /\ ~poisoned[Server]
              /\ now < s.expires
              /\ s.candidate = d
              /\ Register(Registered(s, d))

-----------------------------------------------------------------------------
(***************************************************************************)
(* Transmission: sc_outbound without group traffic.                        *)
(***************************************************************************)
Release(p) == net' = net \cup {p}

\* Signing does not ask the store, so a poisoned server still invites.
OutboundInvitation ==
    LET s == ctx[Server]
    IN  /\ s.mode /\ ~s.registered /\ s.challenge # 0 /\ s.expires # 0
        /\ Release([kind |-> "invitation", challenge |-> s.challenge, expires |-> s.expires])
        /\ UNCHANGED <<ctx, disk, confirm_due, poisoned, drawn, ended, now, faults>>

Claimed_NotReported(s) == [s EXCEPT !.last_sent = 1]

\* What the device records before its claim leaves.
Claimed(s) == [s EXCEPT !.last_sent = 1, !.reported = 1]

Token(s) == IF s.mode THEN s.challenge ELSE Secret

\* The claim that device d sends now, and the server's confirmation.
ClaimOf(d) == [kind |-> "claim", from |-> d, token |-> Token(ctx[d])]
ConfirmationNow ==
    [kind |-> "confirmation", to |-> ctx[Server].peer, token |-> Token(ctx[Server])]

OutboundClaim(d) ==
    LET s == ctx[d]
        p == ClaimOf(d)
    IN  /\ ~poisoned[d]
        /\ ~s.registered
        /\ s.mode => s.challenge # 0
        /\ UNCHANGED <<drawn, now>>
        /\ IF s = Claimed(s)
           THEN Release(p) /\ UNCHANGED <<ctx, disk, confirm_due, poisoned, ended, faults>>
           ELSE \/ Commit(d, Claimed(s)) /\ Release(p) /\ UNCHANGED <<confirm_due, ended>>
                \/ CommitFails(d, Claimed(s))

OutboundConfirmation ==
    LET s == ctx[Server]
    IN  /\ ~poisoned[Server]
        /\ s.registered /\ confirm_due
        /\ Release(ConfirmationNow)
        /\ confirm_due' = FALSE
        /\ UNCHANGED <<ctx, disk, poisoned, drawn, ended, now, faults>>

-----------------------------------------------------------------------------
(***************************************************************************)
(* Reception: receive_invitation, receive_report and receive_desired.      *)
(***************************************************************************)
ListensForInvitation_Always(s) == s.mode

ListensForInvitation(s) == s.mode /\ ~s.registered

ReceiveInvitation(d, p) ==
    LET s == ctx[d]
    IN  /\ ~poisoned[d]
        /\ p.kind = "invitation"
        /\ ListensForInvitation(s)
        /\ p.challenge # s.challenge
        /\ Save(d, [s EXCEPT !.challenge = p.challenge, !.expires = p.expires])

\* The session check of a claim on a server in signed mode.
AcceptsToken(s, p) == s.mode => s.challenge # 0 /\ p.token = s.challenge

StageCandidate(s, p) ==
    /\ ~s.registered /\ s.mode
    /\ now < s.expires
    /\ s.candidate = None
    /\ Save(Server, [s EXCEPT !.candidate = p.from])

\* Legacy mode registers at once and then falls through to the confirmation.
RegisterLegacy(s, p) ==
    /\ ~s.registered /\ ~s.mode
    /\ p.token = Secret
    /\ Register([s EXCEPT !.peer = p.from, !.registered = TRUE, !.reported = 1])

RepeatConfirmation_Expired(s, p) ==
    /\ s.registered /\ s.peer = p.from
    /\ now < s.expires
    /\ confirm_due' = TRUE
    /\ UNCHANGED <<ctx, disk, poisoned, net, ended, faults>>

RepeatConfirmation(s, p) ==
    /\ s.registered /\ s.peer = p.from
    /\ confirm_due' = TRUE
    /\ UNCHANGED <<ctx, disk, poisoned, net, ended, faults>>

ReceiveClaim(p) ==
    LET s == ctx[Server]
    IN  /\ ~poisoned[Server]
        /\ p.kind = "claim"
        /\ AcceptsToken(s, p)
        /\ StageCandidate(s, p) \/ RegisterLegacy(s, p) \/ RepeatConfirmation(s, p)

AcceptsConfirmation_AnySession(s, p) == s.last_sent = 1

\* In signed mode a confirmation names the device's session; otherwise it
\* carries no token.  The device must have sent a claim.
AcceptsConfirmation(s, p) ==
    /\ IF s.mode THEN s.challenge # 0 /\ p.token = s.challenge ELSE p.token = Secret
    /\ s.last_sent = 1

ReceiveConfirmation(p) ==
    LET s == ctx[p.to]
    IN  /\ p.kind = "confirmation"
        /\ ~poisoned[p.to]
        /\ AcceptsConfirmation(s, p)
        /\ ~s.registered
        /\ Save(p.to, [s EXCEPT !.registered = TRUE, !.acked = 1, !.reported = 1])

Deliver(p) ==
    /\ \/ \E d \in Devices : ReceiveInvitation(d, p)
       \/ ReceiveClaim(p)
       \/ ReceiveConfirmation(p)
    /\ UNCHANGED <<drawn, now>>

-----------------------------------------------------------------------------
Init ==
    /\ ctx  = [e \in Endpoints |-> Fresh(e)]
    /\ disk = ctx
    /\ confirm_due = FALSE
    /\ poisoned = [e \in Endpoints |-> FALSE]
    /\ net = {}
    /\ drawn = 0
    /\ ended = {}
    /\ now = 0
    /\ faults = 0

\* The calls and events at one endpoint that neither send nor deliver.
Local ==
    \/ \E e \in Endpoints : EnrollmentEnable(e) \/ Restart(e)
    \/ \E expires \in 1 .. MaxTime : EnrollmentBegin(expires)
    \/ EnrollmentCancel
    \/ \E c \in Sessions, d \in Devices : EnrollmentApprove(c, d)
    \/ Tick

Next ==
    \/ Local
    \/ OutboundInvitation
    \/ \E d \in Devices : OutboundClaim(d)
    \/ OutboundConfirmation
    \/ \E p \in net : Deliver(p)

Spec == Init /\ [][Next]_vars

-----------------------------------------------------------------------------
(***************************************************************************)
(* Properties.                                                             *)
(***************************************************************************)

\* Every variable keeps its shape.
TypeOK ==
    /\ ctx  \in [Endpoints -> State]
    /\ disk \in [Endpoints -> State]
    /\ confirm_due \in BOOLEAN
    /\ poisoned \in [Endpoints -> BOOLEAN]
    /\ net \subseteq Frames
    /\ drawn \in Challenges
    /\ ended \subseteq Sessions
    /\ now \in 0 .. MaxTime
    /\ faults \in 0 .. MaxFaults

Copies(e) == {ctx[e], disk[e]}

\* A device that believes it is enrolled is right, after any restart of
\* either side: every record the server may continue from is registered to
\* that device, in the same mode and under the same session.
ConfirmedByServer ==
    \A d \in Devices : \A s \in Copies(d), t \in Copies(Server) :
        s.registered =>
            /\ t.registered /\ t.peer = d
            /\ s.mode = t.mode
            /\ s.mode => s.challenge = t.challenge

\* The candidate offered for approval answered the session that is open now,
\* not one that was cancelled or replaced; so did the registered peer.
CandidateAnsweredSession ==
    \A t \in Copies(Server) : \A d \in Devices :
        t.candidate = d \/ (t.registered /\ t.mode /\ t.peer = d) =>
            [kind |-> "claim", from |-> d, token |-> t.challenge] \in net

\* No device is ever registered under a session that the server cancelled or
\* replaced, whatever claims for it are still under way.
EndedSessionRegistersNobody ==
    \A t \in Copies(Server) : t.registered /\ t.mode => t.challenge \notin ended

\* What restore() accepts.
RestoreAccepts(s) ==
    /\ s.last_sent <= s.reported
    /\ s.acked <= s.last_sent
    /\ s.registered => s.peer # None

\* Every variable keeps its shape, and restore() accepts every record that the
\* running code ever commits: no legal sequence of calls locks a handle out.
RecordsSound == TypeOK /\ \A e \in Endpoints : RestoreAccepts(disk[e])

\* Registration is final: no frame, call or restart takes it back or moves
\* it to another peer, mode or session.
RegistrationIsFinal ==
    [][\A e \in Endpoints :
          /\ disk[e].registered =>
                /\ disk'[e].registered
                /\ disk'[e].peer = disk[e].peer
                /\ disk'[e].mode = disk[e].mode
                /\ disk'[e].challenge = disk[e].challenge
          /\ ctx[e].registered => ctx'[e].registered /\ ctx'[e].peer = ctx[e].peer]_vars
=============================================================================
