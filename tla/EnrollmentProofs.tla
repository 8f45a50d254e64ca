--------------------------- MODULE EnrollmentProofs --------------------------
(***************************************************************************)
(* Enrollment for any set of devices and any bounds.                       *)
(*                                                                         *)
(* No call that writes runs on a poisoned or a registered handle.  So a    *)
(* copy that is registered in RAM is the committed one (Settled), and what *)
(* the server once confirmed it can no longer forget: every confirmation   *)
(* ever sent describes every copy the server may continue from             *)
(* (ConfirmationsHold).  A device registers only from such a frame.  The   *)
(* sessions ever ended lie below the draws (SessionsFresh), which is why   *)
(* an approved candidate cannot be of one of them.                         *)
(***************************************************************************)
EXTENDS Enrollment, TLAPS

\* The copies a handle may continue from agree unless a commit failed, and
\* always once the one in RAM is registered.
Settled == \A e \in Endpoints : ~poisoned[e] \/ ctx[e].registered => ctx[e] = disk[e]

\* What is true of every state that e may ever hold.
Sound(e, s) == RestoreAccepts(s) /\ ((s.peer = Server) <=> (e \in Devices))

AllSound == \A e \in Endpoints : \A s \in Copies(e) : Sound(e, s)

\* t is the server registered to the device that p confirms.
Confirms(t, p) == t.registered /\ t.peer = p.to /\ Token(t) = p.token

ConfirmationsHold ==
    \A p \in net : p.kind = "confirmation" => \A t \in Copies(Server) : Confirms(t, p)

SessionsFresh ==
    /\ \A c \in ended : c <= drawn
    /\ \A t \in Copies(Server) : t.challenge \notin ended /\ t.challenge <= drawn

\* s and t are the two sides of one registration.
Paired(d, s, t) ==
    /\ t.registered /\ t.peer = d
    /\ s.mode = t.mode
    /\ s.mode => s.challenge = t.challenge

\* The device that t offers or has registered answered its open session.
Answered(t, n) ==
    \A d \in Devices :
        t.candidate = d \/ (t.registered /\ t.mode /\ t.peer = d) =>
            [kind |-> "claim", from |-> d, token |-> t.challenge] \in n

Inv ==
    /\ TypeOK
    /\ Settled
    /\ AllSound
    /\ SessionsFresh
    /\ ConfirmationsHold
    /\ ConfirmedByServer
    /\ \A t \in Copies(Server) : Answered(t, net)

-----------------------------------------------------------------------------
(***************************************************************************)
(* The frames and the endpoints.                                           *)
(***************************************************************************)
LEMMA EndpointFacts ==
    /\ Server \in Endpoints
    /\ \A d \in Devices : d \in Endpoints /\ d # Server /\ d # None
    /\ Server # None
    /\ \A e \in Endpoints : e # Server => e \in Devices
  BY DevicesAssumption DEF Endpoints, Server, None

LEMMA FrameFacts ==
    ASSUME NEW p \in Frames
    PROVE  /\ p.kind = "invitation" => p \in Invitation
           /\ p.kind = "claim" => /\ p \in ClaimFrame
                                  /\ p = [kind |-> "claim", from |-> p.from, token |-> p.token]
           /\ p.kind = "confirmation" => p \in Confirmation
  BY DEF Frames, Invitation, ClaimFrame, Confirmation

LEMMA FreshSound == \A e \in Endpoints : Fresh(e) \in State /\ Sound(e, Fresh(e))
  BY EndpointFacts, BoundsAssumption
     DEF Fresh, State, Sound, RestoreAccepts, Challenges, Server, None

\* The states that RegisterLegacy and ReceiveConfirmation write.
LegacyPeer(s, d) == [s EXCEPT !.peer = d, !.registered = TRUE, !.reported = 1]
Confirmed(s)     == [s EXCEPT !.registered = TRUE, !.acked = 1, !.reported = 1]

\* Every state that a call writes is a state.
LEMMA EditedState ==
    ASSUME NEW s \in State
    PROVE  /\ \A c \in Challenges, x \in 0 .. MaxTime : Opened(s, c, x) \in State
           /\ Closed(s) \in State /\ Claimed(s) \in State /\ Confirmed(s) \in State
           /\ \A d \in Devices : Registered(s, d) \in State /\ LegacyPeer(s, d) \in State
<1>1. 1 \in 0 .. 1 /\ 0 \in 0 .. MaxTime /\ 0 \in Challenges
  BY BoundsAssumption DEF Challenges
<1>2. \A c \in Challenges, x \in 0 .. MaxTime : Opened(s, c, x) \in State
  BY DEF State, Opened
<1>3. Closed(s) \in State
  BY <1>1 DEF State, Closed
<1>4. Claimed(s) \in State /\ Confirmed(s) \in State
  BY <1>1 DEF State, Claimed, Confirmed
<1>5. \A d \in Devices : Registered(s, d) \in State
  BY <1>1 DEF State, Registered
<1>6. \A d \in Devices : LegacyPeer(s, d) \in State
  BY <1>1 DEF State, LegacyPeer
<1> QED
  BY <1>2, <1>3, <1>4, <1>5, <1>6

LEMMA InitInv == Init => Inv
<1> SUFFICES ASSUME Init PROVE Inv
  OBVIOUS
<1> USE EndpointFacts, BoundsAssumption
<1>1. \A e \in Endpoints : \A s \in Copies(e) : s = Fresh(e)
  BY DEF Init, Copies
<1>2. TypeOK
  <2>1. ctx \in [Endpoints -> State] /\ disk \in [Endpoints -> State]
    BY FreshSound DEF Init
  <2>2. poisoned \in [Endpoints -> BOOLEAN]
    BY DEF Init
  <2>3. drawn \in Challenges /\ now \in 0 .. MaxTime /\ faults \in 0 .. MaxFaults
    BY DEF Init, Challenges
  <2>4. net \subseteq Frames /\ ended \subseteq Sessions /\ confirm_due \in BOOLEAN
    BY DEF Init
  <2> QED
    BY <2>1, <2>2, <2>3, <2>4 DEF TypeOK
<1>3. Settled /\ AllSound
  BY <1>1, FreshSound DEF Init, Settled, AllSound
<1>4. SessionsFresh /\ ConfirmationsHold
  BY <1>1 DEF Init, SessionsFresh, ConfirmationsHold, Fresh
<1>5. ConfirmedByServer
  BY <1>1 DEF ConfirmedByServer, Fresh
<1>6. \A t \in Copies(Server) : Answered(t, net)
  BY <1>1 DEF Answered, Fresh
<1> QED
  BY <1>2, <1>3, <1>4, <1>5, <1>6 DEF Inv

-----------------------------------------------------------------------------
(***************************************************************************)
(* Writing one endpoint's state, whether the commit succeeds or fails.     *)
(***************************************************************************)
Writes(e, s) ==
    /\ ~poisoned[e] /\ ~ctx[e].registered
    /\ \/ Commit(e, s)
       \/ /\ faults' \in 0 .. MaxFaults
          /\ ctx' = ctx
          /\ disk' = disk \/ disk' = [disk EXCEPT ![e] = s]
          /\ poisoned' = [poisoned EXCEPT ![e] = TRUE]

LEMMA FailWrites ==
    ASSUME Inv, NEW e, NEW s, ~poisoned[e], ~ctx[e].registered, CommitFails(e, s)
    PROVE  Writes(e, s) /\ UNCHANGED <<confirm_due, net, ended>>
  BY BoundsAssumption DEF Inv, TypeOK, Writes, CommitFails

LEMMA SaveWrites ==
    ASSUME Inv, NEW e, NEW s, ~poisoned[e], ~ctx[e].registered, Save(e, s)
    PROVE  Writes(e, s) /\ UNCHANGED <<confirm_due, net, ended>>
  BY FailWrites DEF Writes, Save

\* Where the copies of every endpoint come from after such a write.
LEMMA WriteCopies ==
    ASSUME Inv, NEW e \in Endpoints, NEW s \in State, Writes(e, s), Sound(e, s)
    PROVE  /\ ctx' \in [Endpoints -> State] /\ disk' \in [Endpoints -> State]
           /\ poisoned' \in [Endpoints -> BOOLEAN] /\ faults' \in 0 .. MaxFaults
           /\ \A f \in Endpoints : f # e => Copies(f)' = Copies(f)
           /\ \A t \in Copies(e)' : t = s \/ t = ctx[e]
           /\ ~ctx[e].registered /\ disk[e] = ctx[e]
           /\ Settled' /\ AllSound'
<1>1. ctx[e] = disk[e]
  BY DEF Inv, Settled, Writes
<1>2. /\ ctx' \in [Endpoints -> State] /\ disk' \in [Endpoints -> State]
      /\ poisoned' \in [Endpoints -> BOOLEAN] /\ faults' \in 0 .. MaxFaults
  BY DEF Inv, TypeOK, Writes, Commit
<1>3. \A f \in Endpoints : f # e =>
          ctx'[f] = ctx[f] /\ disk'[f] = disk[f] /\ poisoned'[f] = poisoned[f]
  BY DEF Inv, TypeOK, Writes, Commit
<1>4. \/ ctx'[e] = s /\ disk'[e] = s
      \/ ctx'[e] = ctx[e] /\ disk'[e] \in {s, ctx[e]} /\ poisoned'[e]
  BY <1>1 DEF Inv, TypeOK, Writes, Commit
<1>5. \A f \in Endpoints : f # e => Copies(f)' = Copies(f)
  BY <1>3 DEF Copies
<1>6. \A t \in Copies(e)' : t = s \/ t = ctx[e]
  BY <1>4 DEF Copies
<1>7. ~ctx[e].registered
  BY DEF Writes
<1>8. Settled'
  BY <1>3, <1>4, <1>7 DEF Inv, Settled
<1>9. AllSound'
  BY <1>5, <1>6 DEF Inv, AllSound, Copies
<1> QED
  BY <1>1, <1>2, <1>5, <1>6, <1>7, <1>8, <1>9

\* A device's write: the rest of the invariant follows when the state is not
\* registered, or registered with every copy of the server.
LEMMA DeviceWrite ==
    ASSUME Inv, NEW d \in Devices, NEW s \in State, Writes(d, s), Sound(d, s),
           confirm_due' = confirm_due, net' \subseteq Frames, net \subseteq net',
           \A p \in net' \ net : p.kind # "confirmation",
           ended' = ended, drawn' = drawn, now' = now,
           s.registered => \A t \in Copies(Server) : Paired(d, s, t)
    PROVE  Inv'
<1> USE EndpointFacts
<1>1. /\ ctx' \in [Endpoints -> State] /\ disk' \in [Endpoints -> State]
      /\ poisoned' \in [Endpoints -> BOOLEAN] /\ faults' \in 0 .. MaxFaults
      /\ \A f \in Endpoints : f # d => Copies(f)' = Copies(f)
      /\ \A t \in Copies(d)' : t = s \/ t = ctx[d]
      /\ ~ctx[d].registered
      /\ Settled' /\ AllSound'
  BY WriteCopies
<1>2. TypeOK'
  BY <1>1 DEF Inv, TypeOK
<1>3. Copies(Server)' = Copies(Server)
  BY <1>1
<1>4. SessionsFresh'
  BY <1>3 DEF Inv, SessionsFresh
<1>5. ConfirmationsHold'
  BY <1>3 DEF Inv, ConfirmationsHold
<1>6. ConfirmedByServer'
  <2> SUFFICES ASSUME NEW f \in Devices, NEW u \in Copies(f)', NEW t \in Copies(Server)',
                      u.registered
               PROVE  Paired(f, u, t)
    BY DEF ConfirmedByServer, Paired
  <2>1. CASE f = d
    BY <2>1, <1>1, <1>3
  <2>2. CASE f # d
    BY <2>2, <1>1, <1>3 DEF Inv, ConfirmedByServer, Paired
  <2> QED
    BY <2>1, <2>2
<1>7. (\A t \in Copies(Server) : Answered(t, net))'
  BY <1>3 DEF Inv, Answered
<1> QED
  BY <1>1, <1>2, <1>4, <1>5, <1>6, <1>7 DEF Inv

\* An unregistered server has confirmed nobody.
LEMMA NobodyConfirmed ==
    ASSUME Inv, ~ctx[Server].registered
    PROVE  /\ \A p \in net : p.kind # "confirmation"
           /\ \A d \in Devices : \A s \in Copies(d) : ~s.registered
<1>1. ctx[Server] \in Copies(Server)
  BY DEF Copies
<1> QED
  BY <1>1 DEF Inv, ConfirmationsHold, Confirms, ConfirmedByServer

\* The server's write: it is unregistered before, so only its session and
\* its candidate matter.
LEMMA ServerWrite ==
    ASSUME Inv, NEW s \in State, Writes(Server, s), Sound(Server, s),
           confirm_due' \in BOOLEAN, net' = net,
           ended' \subseteq Sessions, drawn' \in Challenges, drawn <= drawn', now' = now,
           \A c \in ended' : c <= drawn',
           \A t \in Copies(Server)' : t.challenge \notin ended',
           s.challenge <= drawn',
           Answered(s, net)
    PROVE  Inv'
<1> USE EndpointFacts
<1>1. /\ ctx' \in [Endpoints -> State] /\ disk' \in [Endpoints -> State]
      /\ poisoned' \in [Endpoints -> BOOLEAN] /\ faults' \in 0 .. MaxFaults
      /\ \A f \in Endpoints : f # Server => Copies(f)' = Copies(f)
      /\ \A t \in Copies(Server)' : t = s \/ t = ctx[Server]
      /\ ~ctx[Server].registered
      /\ Settled' /\ AllSound'
  BY WriteCopies
<1>2. TypeOK'
  BY <1>1 DEF Inv, TypeOK
<1>3. ctx[Server] \in Copies(Server) /\ ctx[Server] \in State
  BY DEF Inv, TypeOK, Copies
<1>4. \A t \in Copies(Server)' : t.challenge <= drawn'
  <2>1. ctx[Server].challenge <= drawn /\ ctx[Server].challenge \in Int
    BY <1>3, BoundsAssumption DEF Inv, SessionsFresh, State, Challenges
  <2>2. drawn \in Int /\ drawn' \in Int
    BY BoundsAssumption DEF Inv, TypeOK, Challenges
  <2> QED
    BY <1>1, <2>1, <2>2
<1>5. SessionsFresh'
  BY <1>4 DEF SessionsFresh
<1>6. ConfirmationsHold' /\ ConfirmedByServer'
  BY <1>1, NobodyConfirmed DEF ConfirmationsHold, ConfirmedByServer
<1>7. (\A t \in Copies(Server) : Answered(t, net))'
  BY <1>1, <1>3 DEF Inv
<1> QED
  BY <1>1, <1>2, <1>5, <1>6, <1>7 DEF Inv

-----------------------------------------------------------------------------
(***************************************************************************)
(* One lemma per action: the state it writes, and why that state is good.  *)
(***************************************************************************)
LEMMA EndpointState ==
    ASSUME Inv, NEW e \in Endpoints
    PROVE  /\ ctx[e] \in State /\ ctx[e] \in Copies(e) /\ Sound(e, ctx[e])
           /\ e = Server => /\ Answered(ctx[e], net)
                            /\ ctx[e].challenge \notin ended
                            /\ ctx[e].challenge <= drawn
  BY DEF Inv, TypeOK, AllSound, SessionsFresh, Copies

\* A server's write that leaves the session alone.
LEMMA SameSession ==
    ASSUME Inv, NEW s \in State, Writes(Server, s), Sound(Server, s),
           confirm_due' \in BOOLEAN, UNCHANGED <<net, ended, drawn, now>>,
           s.challenge = ctx[Server].challenge, Answered(s, net)
    PROVE  Inv'
<1> USE EndpointFacts
<1>1. \A t \in Copies(Server)' : t = s \/ t = ctx[Server]
  BY WriteCopies
<1>2. \A t \in Copies(Server)' : t.challenge \notin ended
  BY <1>1, EndpointState
<1>3. s.challenge <= drawn
  BY EndpointState
<1>4. /\ ended \subseteq Sessions /\ drawn \in Challenges /\ \A c \in ended : c <= drawn
  BY DEF Inv, TypeOK, SessionsFresh
<1>5. drawn <= drawn'
  BY <1>4, BoundsAssumption DEF Challenges
<1> QED
  BY <1>2, <1>3, <1>4, <1>5, ServerWrite

LEMMA EnableStep ==
    ASSUME Inv, NEW e \in Endpoints, EnrollmentEnable(e)
    PROVE  Inv'
<1> DEFINE s == [ctx[e] EXCEPT !.mode = TRUE]
<1> USE EndpointFacts
<1>1. /\ ~poisoned[e] /\ ~ctx[e].registered /\ Save(e, s)
      /\ UNCHANGED <<drawn, now>>
  BY DEF EnrollmentEnable
<1>2. /\ s \in State /\ ~s.registered /\ Sound(e, s) /\ s.challenge = ctx[e].challenge
      /\ s.candidate = ctx[e].candidate
  <2>1. ctx[e] \in State /\ Sound(e, ctx[e])
    BY EndpointState
  <2>2. s \in State
    BY <2>1 DEF State
  <2>3. /\ s.registered = ctx[e].registered /\ s.peer = ctx[e].peer
        /\ s.challenge = ctx[e].challenge /\ s.candidate = ctx[e].candidate
        /\ s.reported = ctx[e].reported /\ s.last_sent = ctx[e].last_sent
        /\ s.acked = ctx[e].acked
    BY <2>1 DEF State
  <2> QED
    BY <1>1, <2>1, <2>2, <2>3 DEF Sound, RestoreAccepts
<1>3. Writes(e, s) /\ UNCHANGED <<confirm_due, net, ended>>
  <2> HIDE DEF s
  <2> QED
    BY <1>1, SaveWrites
<1>4. confirm_due \in BOOLEAN /\ net \subseteq Frames
  BY DEF Inv, TypeOK
<1>5. CASE e = Server
  <2>1. Answered(s, net)
    BY <1>2, <1>5, EndpointState DEF Answered
  <2> HIDE DEF s
  <2> QED
    BY <1>1, <1>2, <1>3, <1>4, <1>5, <2>1, SameSession
<1>6. CASE e \in Devices
  <2> HIDE DEF s
  <2> QED
    BY <1>1, <1>2, <1>3, <1>4, <1>6, DeviceWrite
<1> QED
  BY <1>5, <1>6

\* Opening, replacing and closing a session: the state written is unregistered,
\* offers nobody, and is of no session or of one not drawn before.
LEMMA EndSessionStep ==
    ASSUME Inv, NEW s \in State, ~poisoned[Server], ~ctx[Server].registered, EndSession(s),
           Sound(Server, s), ~s.registered, s.candidate = None,
           drawn' \in Challenges, drawn <= drawn', now' = now,
           s.challenge = 0 \/ (drawn < s.challenge /\ s.challenge = drawn')
    PROVE  Inv'
<1> USE EndpointFacts
<1>1. /\ drawn \in Int /\ drawn' \in Int /\ 0 <= drawn' /\ s.challenge \in Int
      /\ s.challenge <= drawn' /\ ended \subseteq Sessions
      /\ \A c \in ended : c \in Int /\ 0 < c /\ c <= drawn
      /\ confirm_due \in BOOLEAN
  BY BoundsAssumption DEF Inv, TypeOK, SessionsFresh, State, Challenges, Sessions
<1>2. ctx[Server].challenge \in Challenges /\ ctx[Server].challenge <= drawn
      /\ ctx[Server].challenge \notin ended
  BY EndpointState DEF State
<1>3. s.challenge \notin ended
  BY <1>1
<1>4. Answered(s, net)
  BY DEF Answered
<1>5. CASE /\ Commit(Server, s)
           /\ ended' = ended \cup ({ctx[Server].challenge} \ {0})
           /\ UNCHANGED <<confirm_due, net>>
  <2>1. Writes(Server, s)
    BY <1>5 DEF Writes
  <2>2. \A t \in Copies(Server)' : t = s
    BY <1>5 DEF Inv, TypeOK, Commit, Copies
  <2>3. ended' \subseteq Sessions /\ \A c \in ended' : c <= drawn'
    BY <1>1, <1>2, <1>5, BoundsAssumption DEF Challenges, Sessions
  <2>4. s.challenge \notin ended'
    BY <1>1, <1>2, <1>3, <1>5, BoundsAssumption DEF Challenges
  <2>5. \A t \in Copies(Server)' : t.challenge \notin ended'
    BY <2>2, <2>4
  <2>6. confirm_due' \in BOOLEAN /\ net' = net
    BY <1>1, <1>5
  <2> QED
    BY <1>1, <1>4, <2>1, <2>3, <2>5, <2>6, ServerWrite
<1>6. CASE CommitFails(Server, s)
  <2>1. Writes(Server, s) /\ UNCHANGED <<confirm_due, net, ended>>
    BY <1>6, FailWrites
  <2>2. \A t \in Copies(Server)' : t = s \/ t = ctx[Server]
    BY <2>1, WriteCopies
  <2>3. \A t \in Copies(Server)' : t.challenge \notin ended'
    BY <1>2, <1>3, <2>1, <2>2
  <2>4. \A c \in ended' : c <= drawn'
    BY <1>1, <2>1
  <2>5. confirm_due' \in BOOLEAN /\ net' = net /\ ended' \subseteq Sessions
    BY <1>1, <2>1
  <2> QED
    BY <1>1, <1>4, <2>1, <2>3, <2>4, <2>5, ServerWrite
<1> QED
  BY <1>5, <1>6 DEF EndSession

LEMMA BeginStep ==
    ASSUME Inv, NEW expires \in 1 .. MaxTime, EnrollmentBegin(expires)
    PROVE  Inv'
<1> DEFINE s == Opened(ctx[Server], drawn', expires)
<1> USE EndpointFacts
<1>1. /\ ~poisoned[Server] /\ ~ctx[Server].registered /\ drawn' = drawn + 1
      /\ drawn < MaxSessions /\ EndSession(s) /\ now' = now
  BY DEF EnrollmentBegin
<1>2. /\ drawn' \in Challenges /\ drawn <= drawn' /\ drawn < drawn'
  BY <1>1, BoundsAssumption DEF Inv, TypeOK, Challenges
<1>3. /\ s \in State /\ ~s.registered /\ s.candidate = None /\ s.challenge = drawn'
      /\ Sound(Server, s)
  <2>1. ctx[Server] \in State /\ Sound(Server, ctx[Server])
    BY EndpointState
  <2>2. s \in State
    <3>1. expires \in 0 .. MaxTime /\ drawn' \in Challenges
      BY <1>2, BoundsAssumption
    <3> QED
      BY <2>1, <3>1, EditedState
  <2>3. /\ s.registered = ctx[Server].registered /\ s.peer = ctx[Server].peer
        /\ s.reported = ctx[Server].reported /\ s.last_sent = ctx[Server].last_sent
        /\ s.acked = ctx[Server].acked /\ s.candidate = None /\ s.challenge = drawn'
    BY <2>1 DEF State, Opened
  <2> QED
    BY <1>1, <2>1, <2>2, <2>3 DEF Sound, RestoreAccepts
<1> HIDE DEF s
<1> QED
  BY <1>1, <1>2, <1>3, EndSessionStep

LEMMA CancelStep ==
    ASSUME Inv, EnrollmentCancel
    PROVE  Inv'
<1> DEFINE s == Closed(ctx[Server])
<1> USE EndpointFacts
<1>1. /\ ~poisoned[Server] /\ ~ctx[Server].registered /\ EndSession(s)
      /\ drawn' = drawn /\ now' = now
  BY DEF EnrollmentCancel
<1>2. /\ drawn' \in Challenges /\ drawn <= drawn'
  BY <1>1, BoundsAssumption DEF Inv, TypeOK, Challenges
<1>3. /\ s \in State /\ ~s.registered /\ s.candidate = None /\ s.challenge = 0
      /\ Sound(Server, s)
  <2>1. ctx[Server] \in State /\ Sound(Server, ctx[Server])
    BY EndpointState
  <2>2. s \in State
    <3>1. 0 \in 0 .. MaxTime /\ 0 \in Challenges
      BY BoundsAssumption DEF Challenges
    <3> QED
      BY <2>1, <3>1, EditedState
  <2>3. /\ s.registered = ctx[Server].registered /\ s.peer = ctx[Server].peer
        /\ s.reported = ctx[Server].reported /\ s.last_sent = ctx[Server].last_sent
        /\ s.acked = ctx[Server].acked /\ s.candidate = None /\ s.challenge = 0
    BY <2>1 DEF State, Closed
  <2> QED
    BY <1>1, <2>1, <2>2, <2>3 DEF Sound, RestoreAccepts
<1> HIDE DEF s
<1> QED
  BY <1>1, <1>2, <1>3, EndSessionStep

LEMMA RegisterWrites ==
    ASSUME Inv, NEW s, ~poisoned[Server], ~ctx[Server].registered, Register(s)
    PROVE  Writes(Server, s) /\ confirm_due' \in BOOLEAN /\ UNCHANGED <<net, ended>>
  BY FailWrites DEF Inv, TypeOK, Register, Writes

LEMMA ApproveStep ==
    ASSUME Inv, NEW c \in Sessions, NEW d \in Devices, EnrollmentApprove(c, d)
    PROVE  Inv'
<1> DEFINE s == Registered(ctx[Server], d)
<1> USE EndpointFacts
<1>1. CASE /\ confirm_due' = TRUE
           /\ UNCHANGED <<ctx, disk, poisoned, net, ended, faults, drawn, now>>
  BY <1>1 DEF Inv, TypeOK, Settled, AllSound, SessionsFresh, ConfirmationsHold,
              ConfirmedByServer, Copies
<1>2. CASE /\ ~ctx[Server].registered /\ ~poisoned[Server]
           /\ ctx[Server].candidate = d /\ Register(s)
           /\ UNCHANGED <<drawn, now>>
  <2>1. /\ s \in State /\ Sound(Server, s) /\ s.challenge = ctx[Server].challenge
        /\ s.candidate = None /\ s.peer = d
    <3>1. ctx[Server] \in State /\ Sound(Server, ctx[Server])
      BY EndpointState
    <3>2. s \in State
      <4>1. 0 \in 0 .. MaxTime
        BY BoundsAssumption
      <4> QED
        BY <3>1, <4>1, EditedState
    <3>3. /\ s.registered /\ s.peer = d /\ s.candidate = None
          /\ s.challenge = ctx[Server].challenge
          /\ s.reported = 1 /\ s.last_sent = ctx[Server].last_sent
          /\ s.acked = ctx[Server].acked
      BY <3>1 DEF State, Registered
    <3>4. ctx[Server].last_sent <= 1
      BY <3>1 DEF State
    <3> QED
      BY <3>1, <3>2, <3>3, <3>4 DEF Sound, RestoreAccepts
  <2>2. Answered(s, net)
    BY <1>2, <2>1, EndpointState DEF Answered
  <2> HIDE DEF s
  <2>3. Writes(Server, s) /\ confirm_due' \in BOOLEAN /\ UNCHANGED <<net, ended>>
    BY <1>2, RegisterWrites
  <2> QED
    BY <1>2, <2>1, <2>2, <2>3, SameSession
<1> QED
  BY <1>1, <1>2 DEF EnrollmentApprove

LEMMA TokenType == \A e \in Endpoints : Inv => Token(ctx[e]) \in Tokens
  BY EndpointState DEF Token, Tokens, State

LEMMA InvitationStep ==
    ASSUME Inv, OutboundInvitation
    PROVE  Inv'
<1> DEFINE p == [kind |-> "invitation", challenge |-> ctx[Server].challenge,
                 expires |-> ctx[Server].expires]
<1>1. /\ net' = net \cup {p}
      /\ UNCHANGED <<ctx, disk, confirm_due, poisoned, drawn, ended, now, faults>>
  BY DEF OutboundInvitation, Release
<1>2. p \in Frames
  BY EndpointFacts, EndpointState, BoundsAssumption
     DEF OutboundInvitation, State, Challenges, Sessions, Frames, Invitation
<1>3. p.kind # "confirmation"
  OBVIOUS
<1> HIDE DEF p
<1>4. TypeOK' /\ ConfirmationsHold'
  BY <1>1, <1>2, <1>3 DEF Inv, TypeOK, ConfirmationsHold, Copies
<1>5. (\A t \in Copies(Server) : Answered(t, net))'
  BY <1>1 DEF Inv, Answered, Copies
<1> QED
  BY <1>1, <1>4, <1>5 DEF Inv, Settled, AllSound, SessionsFresh, ConfirmedByServer, Copies

LEMMA ClaimStep ==
    ASSUME Inv, NEW d \in Devices, OutboundClaim(d)
    PROVE  Inv'
<1> DEFINE p == ClaimOf(d)
           s == Claimed(ctx[d])
<1> USE EndpointFacts
<1>1. /\ ~poisoned[d] /\ ~ctx[d].registered /\ UNCHANGED <<drawn, now>>
      /\ \/ Release(p) /\ UNCHANGED <<ctx, disk, confirm_due, poisoned, ended, faults>>
         \/ Commit(d, s) /\ Release(p) /\ UNCHANGED <<confirm_due, ended>>
         \/ CommitFails(d, s)
  BY DEF OutboundClaim
<1>2. p \in Frames /\ p.kind # "confirmation"
  BY TokenType DEF Frames, ClaimFrame, ClaimOf
<1>3. s \in State /\ ~s.registered /\ Sound(d, s)
  <2>1. ctx[d] \in State /\ Sound(d, ctx[d])
    BY EndpointState
  <2>2. s \in State
    BY <2>1, EditedState
  <2>3. /\ s.registered = ctx[d].registered /\ s.peer = ctx[d].peer
        /\ s.reported = 1 /\ s.last_sent = 1 /\ s.acked = ctx[d].acked
    BY <2>1 DEF State, Claimed
  <2>4. ctx[d].acked <= 1
    BY <2>1 DEF State
  <2> QED
    BY <1>1, <2>1, <2>2, <2>3, <2>4 DEF Sound, RestoreAccepts
<1> HIDE DEF p, s
<1>4. CASE Release(p) /\ UNCHANGED <<ctx, disk, confirm_due, poisoned, ended, faults>>
  <2>1. TypeOK' /\ ConfirmationsHold'
    BY <1>1, <1>2, <1>4 DEF Inv, TypeOK, ConfirmationsHold, Copies, Release
  <2>2. (\A t \in Copies(Server) : Answered(t, net))'
    BY <1>4 DEF Inv, Answered, Copies, Release
  <2> QED
    BY <1>1, <1>4, <2>1, <2>2
       DEF Inv, Settled, AllSound, SessionsFresh, ConfirmedByServer, Copies
<1>5. CASE Commit(d, s) /\ Release(p) /\ UNCHANGED <<confirm_due, ended>>
  <2>1. Writes(d, s)
    BY <1>1, <1>5 DEF Writes
  <2>2. net' \subseteq Frames /\ net \subseteq net' /\ \A q \in net' \ net : q.kind # "confirmation"
    BY <1>2, <1>5 DEF Inv, TypeOK, Release
  <2> QED
    BY <1>1, <1>3, <1>5, <2>1, <2>2, DeviceWrite
<1>6. CASE CommitFails(d, s)
  <2>1. Writes(d, s) /\ UNCHANGED <<confirm_due, net, ended>>
    BY <1>1, <1>6, FailWrites
  <2>2. net \subseteq Frames
    BY DEF Inv, TypeOK
  <2> QED
    BY <1>1, <1>3, <2>1, <2>2, DeviceWrite
<1> QED
  BY <1>1, <1>4, <1>5, <1>6

LEMMA ConfirmationStep ==
    ASSUME Inv, OutboundConfirmation
    PROVE  Inv'
<1> DEFINE p == ConfirmationNow
<1> USE EndpointFacts
<1>1. /\ ~poisoned[Server] /\ ctx[Server].registered /\ net' = net \cup {p}
      /\ confirm_due' = FALSE
      /\ UNCHANGED <<ctx, disk, poisoned, drawn, ended, now, faults>>
  BY DEF OutboundConfirmation, Release
<1>2. \A t \in Copies(Server) : t = ctx[Server]
  BY <1>1 DEF Inv, Settled, Copies
<1>3. \A t \in Copies(Server) : Confirms(t, p)
  BY <1>1, <1>2 DEF Confirms, ConfirmationNow
<1>4. p.to \in Devices
  BY <1>1, EndpointState DEF Sound, RestoreAccepts, State, ConfirmationNow
<1>5. p \in Frames
  BY <1>4, TokenType DEF Frames, Confirmation, ConfirmationNow
<1> HIDE DEF p
<1>6. TypeOK' /\ ConfirmationsHold'
  BY <1>1, <1>3, <1>5 DEF Inv, TypeOK, ConfirmationsHold, Copies
<1>7. (\A t \in Copies(Server) : Answered(t, net))'
  BY <1>1 DEF Inv, Answered, Copies
<1> QED
  BY <1>1, <1>6, <1>7 DEF Inv, Settled, AllSound, SessionsFresh, ConfirmedByServer, Copies

\* Staging only the device that quotes the open session.
LEMMA StageStep ==
    ASSUME Inv, NEW p \in net, ~poisoned[Server], p.kind = "claim",
           AcceptsToken(ctx[Server], p), StageCandidate(ctx[Server], p),
           UNCHANGED <<drawn, now>>
    PROVE  Inv'
<1> DEFINE s == [ctx[Server] EXCEPT !.candidate = p.from]
<1> USE EndpointFacts
<1>1. /\ ~ctx[Server].registered /\ ctx[Server].mode
      /\ p.token = ctx[Server].challenge /\ Save(Server, s)
  BY DEF StageCandidate, AcceptsToken
<1>2. p \in Frames /\ p.from \in Devices
      /\ p = [kind |-> "claim", from |-> p.from, token |-> p.token]
  <2>1. p \in Frames
    BY DEF Inv, TypeOK
  <2> QED
    BY <2>1, FrameFacts DEF ClaimFrame
<1>3. ctx[Server] \in State /\ Sound(Server, ctx[Server])
  BY EndpointState
<1>4. s \in State
  BY <1>2, <1>3 DEF State
<1>5. /\ s.registered = ctx[Server].registered /\ s.peer = ctx[Server].peer
      /\ s.challenge = ctx[Server].challenge /\ s.candidate = p.from
      /\ s.reported = ctx[Server].reported /\ s.last_sent = ctx[Server].last_sent
      /\ s.acked = ctx[Server].acked
  BY <1>3 DEF State
<1>6. Sound(Server, s)
  BY <1>3, <1>5 DEF Sound, RestoreAccepts
<1>7. Answered(s, net)
  BY <1>1, <1>2, <1>5 DEF Answered
<1> HIDE DEF s
<1>8. Writes(Server, s) /\ UNCHANGED <<confirm_due, net, ended>>
  BY <1>1, SaveWrites
<1>9. confirm_due \in BOOLEAN
  BY DEF Inv, TypeOK
<1> QED
  BY <1>4, <1>5, <1>6, <1>7, <1>8, <1>9, SameSession

LEMMA LegacyStep ==
    ASSUME Inv, NEW p \in net, ~poisoned[Server], p.kind = "claim",
           RegisterLegacy(ctx[Server], p), UNCHANGED <<drawn, now>>
    PROVE  Inv'
<1> DEFINE s == LegacyPeer(ctx[Server], p.from)
<1> USE EndpointFacts
<1>1. ~ctx[Server].registered /\ ~ctx[Server].mode /\ Register(s)
  BY DEF RegisterLegacy, LegacyPeer
<1>2. p.from \in Devices
  <2>1. p \in Frames
    BY DEF Inv, TypeOK
  <2> QED
    BY <2>1, FrameFacts DEF ClaimFrame
<1>3. ctx[Server] \in State /\ Sound(Server, ctx[Server])
  BY EndpointState
<1>4. s \in State
  BY <1>2, <1>3, EditedState
<1>5. /\ s.mode = ctx[Server].mode /\ s.peer = p.from
      /\ s.challenge = ctx[Server].challenge /\ s.candidate = ctx[Server].candidate
      /\ s.reported = 1 /\ s.last_sent = ctx[Server].last_sent
      /\ s.acked = ctx[Server].acked /\ ctx[Server].last_sent <= 1
  BY <1>3 DEF State, LegacyPeer
<1>6. Sound(Server, s)
  BY <1>2, <1>3, <1>5 DEF Sound, RestoreAccepts
<1>7. Answered(s, net)
  BY <1>1, <1>5, EndpointState DEF Answered
<1> HIDE DEF s
<1>8. Writes(Server, s) /\ confirm_due' \in BOOLEAN /\ UNCHANGED <<net, ended>>
  BY <1>1, RegisterWrites
<1> QED
  BY <1>4, <1>5, <1>6, <1>7, <1>8, SameSession

LEMMA ReceiveClaimStep ==
    ASSUME Inv, NEW p \in net, ReceiveClaim(p), UNCHANGED <<drawn, now>>
    PROVE  Inv'
<1>1. CASE StageCandidate(ctx[Server], p)
  BY <1>1, StageStep DEF ReceiveClaim
<1>2. CASE RegisterLegacy(ctx[Server], p)
  BY <1>2, LegacyStep DEF ReceiveClaim
<1>3. CASE RepeatConfirmation(ctx[Server], p)
  BY <1>3 DEF RepeatConfirmation, Inv, TypeOK, Settled, AllSound, SessionsFresh,
              ConfirmationsHold, ConfirmedByServer, Copies
<1> QED
  BY <1>1, <1>2, <1>3 DEF ReceiveClaim

LEMMA ReceiveInvitationStep ==
    ASSUME Inv, NEW d \in Devices, NEW p \in net, ReceiveInvitation(d, p),
           UNCHANGED <<drawn, now>>
    PROVE  Inv'
<1> DEFINE s == [ctx[d] EXCEPT !.challenge = p.challenge, !.expires = p.expires]
<1> USE EndpointFacts
<1>1. ~poisoned[d] /\ ~ctx[d].registered /\ Save(d, s) /\ p.kind = "invitation"
  BY DEF ReceiveInvitation, ListensForInvitation
<1>2. net \subseteq Frames
  BY DEF Inv, TypeOK
<1>3. p.challenge \in Challenges /\ p.expires \in 0 .. MaxTime
  BY <1>1, <1>2, FrameFacts, BoundsAssumption DEF Invitation, Sessions, Challenges
<1>4. ctx[d] \in State /\ Sound(d, ctx[d])
  BY EndpointState
<1>5. s \in State
  BY <1>3, <1>4 DEF State
<1>6. /\ s.registered = ctx[d].registered /\ s.peer = ctx[d].peer
      /\ s.reported = ctx[d].reported /\ s.last_sent = ctx[d].last_sent
      /\ s.acked = ctx[d].acked
  BY <1>4 DEF State
<1>7. Sound(d, s) /\ ~s.registered
  BY <1>1, <1>4, <1>6 DEF Sound, RestoreAccepts
<1> HIDE DEF s
<1>8. Writes(d, s) /\ UNCHANGED <<confirm_due, net, ended>>
  BY <1>1, SaveWrites
<1> QED
  BY <1>2, <1>5, <1>7, <1>8, DeviceWrite

\* The only way a device becomes registered: the frame it takes describes
\* every copy of the server.
LEMMA ReceiveConfirmationStep ==
    ASSUME Inv, NEW p \in net, ReceiveConfirmation(p), UNCHANGED <<drawn, now>>
    PROVE  Inv'
<1> DEFINE d == p.to
           s == Confirmed(ctx[d])
<1> USE EndpointFacts
<1>1. /\ ~poisoned[d] /\ ~ctx[d].registered /\ Save(d, s) /\ p.kind = "confirmation"
      /\ AcceptsConfirmation(ctx[d], p)
  BY DEF ReceiveConfirmation, Confirmed
<1>2. net \subseteq Frames
  BY DEF Inv, TypeOK
<1>3. d \in Devices /\ p.token \in Tokens
  BY <1>1, <1>2, FrameFacts DEF Confirmation
<1>4. ctx[d] \in State /\ Sound(d, ctx[d])
  BY <1>3, EndpointState
<1>5. s \in State
  BY <1>3, <1>4, EditedState
<1>6. /\ s.registered /\ s.mode = ctx[d].mode /\ s.challenge = ctx[d].challenge
      /\ s.peer = ctx[d].peer /\ s.reported = 1 /\ s.acked = 1
      /\ s.last_sent = ctx[d].last_sent
  BY <1>4 DEF State, Confirmed
<1>7. s.last_sent = 1
  BY <1>1, <1>6 DEF AcceptsConfirmation
<1>8. Sound(d, s)
  BY <1>3, <1>4, <1>6, <1>7 DEF Sound, RestoreAccepts
<1>9. \A t \in Copies(Server) : Paired(d, s, t)
  <2> SUFFICES ASSUME NEW t \in Copies(Server) PROVE Paired(d, s, t)
    OBVIOUS
  <2>1. t.registered /\ t.peer = d /\ Token(t) = p.token
    BY <1>1 DEF Inv, ConfirmationsHold, Confirms
  <2>2. t \in State
    BY DEF Inv, TypeOK, Copies
  <2>3. t.challenge # Secret /\ ctx[d].challenge # Secret
    BY <1>4, <2>2, BoundsAssumption DEF State, Challenges, Secret
  <2>4. t.mode = ctx[d].mode
    <3>1. t.mode <=> ctx[d].mode
      BY <1>1, <2>1, <2>3 DEF AcceptsConfirmation, Token
    <3>2. t.mode \in BOOLEAN /\ ctx[d].mode \in BOOLEAN
      BY <1>4, <2>2 DEF State
    <3> QED
      BY <3>1, <3>2
  <2>5. ctx[d].mode => t.challenge = ctx[d].challenge
    BY <1>1, <2>1, <2>4 DEF AcceptsConfirmation, Token
  <2> QED
    BY <1>6, <2>1, <2>4, <2>5 DEF Paired
<1> HIDE DEF s
<1>10. Writes(d, s) /\ UNCHANGED <<confirm_due, net, ended>>
  BY <1>1, SaveWrites
<1> QED
  BY <1>2, <1>3, <1>5, <1>8, <1>9, <1>10, DeviceWrite

LEMMA RestartStep ==
    ASSUME Inv, NEW e \in Endpoints, Restart(e)
    PROVE  Inv'
<1> USE EndpointFacts
<1>1. faults' \in 0 .. MaxFaults
  BY BoundsAssumption DEF Restart, Inv, TypeOK
<1>2. confirm_due' \in BOOLEAN
  BY DEF Restart, Inv, TypeOK
<1>3. /\ ctx' = [ctx EXCEPT ![e] = disk[e]]
      /\ poisoned' = [poisoned EXCEPT ![e] = FALSE]
      /\ UNCHANGED <<disk, net, drawn, ended, now>>
  BY DEF Restart
<1>4. TypeOK'
  BY <1>1, <1>2, <1>3 DEF Inv, TypeOK
<1>5. \A f \in Endpoints : Copies(f)' \subseteq Copies(f)
  BY <1>3 DEF Inv, TypeOK, Copies
<1>6. Settled'
  BY <1>3 DEF Inv, TypeOK, Settled
<1>7. AllSound' /\ SessionsFresh' /\ ConfirmationsHold'
  BY <1>3, <1>5 DEF Inv, AllSound, SessionsFresh, ConfirmationsHold
<1>8. ConfirmedByServer'
  BY <1>5 DEF Inv, ConfirmedByServer
<1>9. (\A t \in Copies(Server) : Answered(t, net))'
  BY <1>3, <1>5 DEF Inv, Answered
<1> QED
  BY <1>4, <1>6, <1>7, <1>8, <1>9 DEF Inv

LEMMA TickStep ==
    ASSUME Inv, Tick
    PROVE  Inv'
<1>1. now' \in 0 .. MaxTime
  BY BoundsAssumption DEF Tick, Inv, TypeOK
<1> QED
  BY <1>1 DEF Tick, Inv, TypeOK, Settled, AllSound, SessionsFresh, ConfirmationsHold,
              ConfirmedByServer, Copies

LEMMA StepInv == Inv /\ [Next]_vars => Inv'
<1> SUFFICES ASSUME Inv, [Next]_vars PROVE Inv'
  OBVIOUS
<1>1. ASSUME NEW e \in Endpoints, EnrollmentEnable(e) PROVE Inv'
  BY <1>1, EnableStep
<1>2. ASSUME NEW e \in Endpoints, Restart(e) PROVE Inv'
  BY <1>2, RestartStep
<1>3. ASSUME NEW expires \in 1 .. MaxTime, EnrollmentBegin(expires) PROVE Inv'
  BY <1>3, BeginStep
<1>4. CASE EnrollmentCancel
  BY <1>4, CancelStep
<1>5. ASSUME NEW c \in Sessions, NEW d \in Devices, EnrollmentApprove(c, d) PROVE Inv'
  BY <1>5, ApproveStep
<1>6. CASE OutboundInvitation
  BY <1>6, InvitationStep
<1>7. ASSUME NEW d \in Devices, OutboundClaim(d) PROVE Inv'
  BY <1>7, ClaimStep
<1>8. CASE OutboundConfirmation
  BY <1>8, ConfirmationStep
<1>9. ASSUME NEW p \in net, Deliver(p) PROVE Inv'
  BY <1>9, ReceiveInvitationStep, ReceiveClaimStep, ReceiveConfirmationStep DEF Deliver
<1>10. CASE Tick
  BY <1>10, TickStep
<1>11. CASE UNCHANGED vars
  BY <1>11 DEF vars, Inv, TypeOK, Settled, AllSound, SessionsFresh, ConfirmationsHold,
              ConfirmedByServer, Copies
<1> QED
  BY <1>1, <1>2, <1>3, <1>4, <1>5, <1>6, <1>7, <1>8, <1>9, <1>10, <1>11 DEF Next, Local

LEMMA Invariance == Spec => []Inv
  BY InitInv, StepInv, PTL DEF Spec

-----------------------------------------------------------------------------
(***************************************************************************)
(* The theorems.                                                           *)
(***************************************************************************)
LEMMA InvImplies ==
    Inv => /\ RecordsSound /\ CandidateAnsweredSession /\ EndedSessionRegistersNobody
<1> SUFFICES ASSUME Inv PROVE RecordsSound /\ CandidateAnsweredSession
                              /\ EndedSessionRegistersNobody
  OBVIOUS
<1>1. RecordsSound
  BY DEF Inv, RecordsSound, AllSound, Sound, Copies
<1>2. CandidateAnsweredSession
  BY DEF Inv, CandidateAnsweredSession, Answered
<1>3. EndedSessionRegistersNobody
  BY DEF Inv, SessionsFresh, EndedSessionRegistersNobody
<1> QED
  BY <1>1, <1>2, <1>3

\* Every record that sc.c commits during enrollment is one that restore()
\* accepts, and every variable keeps its shape.
THEOREM RecordsAlwaysSound == Spec => []RecordsSound
  BY Invariance, InvImplies, PTL

\* A device that registered a server from a confirmation is the one that every
\* record of that server names, in the same mode and session, whichever side
\* fails a commit or restarts.
THEOREM DevicesConfirmed == Spec => []ConfirmedByServer
<1>1. Inv => ConfirmedByServer
  BY DEF Inv
<1> QED
  BY <1>1, Invariance, PTL

\* Whoever sc_enrollment_candidate offers, and whoever is registered in signed
\* mode, sent a claim for the session that is open in the same record.
THEOREM CandidatesAnswered == Spec => []CandidateAnsweredSession
  BY Invariance, InvImplies, PTL

\* No session that sc_enrollment_cancel or a new begin ended ever registers.
THEOREM EndedSessionsStayEnded == Spec => []EndedSessionRegistersNobody
  BY Invariance, InvImplies, PTL

-----------------------------------------------------------------------------
(***************************************************************************)
(* Registration is final: the calls that write ask for an unregistered     *)
(* handle, and a restart reloads a registered one as it was.               *)
(***************************************************************************)
\* A step leaves alone whatever is registered at e.
Kept(e) ==
    /\ disk[e].registered => disk'[e] = disk[e]
    /\ ctx[e].registered => ctx'[e] = ctx[e]

LEMMA WriteKept ==
    ASSUME Inv, NEW e \in Endpoints, NEW s, Writes(e, s)
    PROVE  \A f \in Endpoints : Kept(f)
<1>1. ~ctx[e].registered /\ ~disk[e].registered
  BY DEF Inv, Settled, Writes
<1>2. \A f \in Endpoints : f # e => ctx'[f] = ctx[f] /\ disk'[f] = disk[f]
  BY DEF Inv, TypeOK, Writes, Commit
<1> QED
  BY <1>1, <1>2 DEF Kept

LEMMA SaveKept ==
    ASSUME Inv, NEW e \in Endpoints, NEW s, ~poisoned[e], ~ctx[e].registered,
           Commit(e, s) \/ CommitFails(e, s)
    PROVE  \A f \in Endpoints : Kept(f)
<1>1. Writes(e, s)
  BY FailWrites DEF Writes
<1> QED
  BY <1>1, WriteKept

LEMMA StepKept ==
    ASSUME Inv, [Next]_vars
    PROVE  \A f \in Endpoints : Kept(f)
<1> USE EndpointFacts
<1>1. CASE UNCHANGED <<ctx, disk>>
  BY <1>1 DEF Kept
<1>2. ASSUME NEW e \in Endpoints, EnrollmentEnable(e) PROVE \A f \in Endpoints : Kept(f)
  BY <1>2, SaveKept DEF EnrollmentEnable, Save
<1>3. ASSUME NEW e \in Endpoints, Restart(e) PROVE \A f \in Endpoints : Kept(f)
  BY <1>3 DEF Inv, TypeOK, Settled, Restart, Kept
<1>4. ASSUME NEW expires \in 1 .. MaxTime, EnrollmentBegin(expires)
      PROVE  \A f \in Endpoints : Kept(f)
  BY <1>4, SaveKept DEF EnrollmentBegin, EndSession
<1>5. ASSUME EnrollmentCancel PROVE \A f \in Endpoints : Kept(f)
  BY <1>5, SaveKept DEF EnrollmentCancel, EndSession
<1>6. ASSUME NEW c \in Sessions, NEW d \in Devices, EnrollmentApprove(c, d)
      PROVE  \A f \in Endpoints : Kept(f)
  BY <1>1, <1>6, SaveKept DEF EnrollmentApprove, Register
<1>7. ASSUME NEW d \in Devices, OutboundClaim(d) PROVE \A f \in Endpoints : Kept(f)
  BY <1>1, <1>7, SaveKept DEF OutboundClaim
<1>8. ASSUME NEW d \in Devices, NEW p \in net, ReceiveInvitation(d, p)
      PROVE  \A f \in Endpoints : Kept(f)
  BY <1>8, SaveKept DEF ReceiveInvitation, ListensForInvitation, Save
<1>9. ASSUME NEW p \in net, ReceiveClaim(p) PROVE \A f \in Endpoints : Kept(f)
  BY <1>1, <1>9, SaveKept
     DEF ReceiveClaim, StageCandidate, RegisterLegacy, RepeatConfirmation, Save, Register
<1>10. ASSUME NEW p \in net, ReceiveConfirmation(p) PROVE \A f \in Endpoints : Kept(f)
  <2>1. p.to \in Endpoints
    BY <1>10, FrameFacts DEF Inv, TypeOK, ReceiveConfirmation, Confirmation
  <2> QED
    BY <1>10, <2>1, SaveKept DEF ReceiveConfirmation, Save
<1>11. CASE OutboundInvitation \/ OutboundConfirmation \/ Tick \/ UNCHANGED vars
  BY <1>1, <1>11 DEF OutboundInvitation, OutboundConfirmation, Tick, vars
<1> QED
  BY <1>2, <1>3, <1>4, <1>5, <1>6, <1>7, <1>8, <1>9, <1>10, <1>11 DEF Next, Local, Deliver

\* What RegistrationIsFinal says of a step.
Final ==
    \A e \in Endpoints :
        /\ disk[e].registered =>
              /\ disk'[e].registered
              /\ disk'[e].peer = disk[e].peer
              /\ disk'[e].mode = disk[e].mode
              /\ disk'[e].challenge = disk[e].challenge
        /\ ctx[e].registered => ctx'[e].registered /\ ctx'[e].peer = ctx[e].peer

\* Nothing that sc.c does after a registration undoes it or moves it to another
\* peer, mode or session, in RAM or in the record.
THEOREM RegistrationStaysFinal == Spec => RegistrationIsFinal
<1>1. Inv /\ [Next]_vars => [Final]_vars
  BY StepKept DEF Kept, Final
<1> QED
  BY <1>1, Invariance, PTL DEF Spec, RegistrationIsFinal, Final
=============================================================================
