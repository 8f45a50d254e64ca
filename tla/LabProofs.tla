-------------------------------- MODULE LabProofs --------------------------------
(***************************************************************************)
(* Lab for any number of callers, queue limit, sets of workers that fail,  *)
(* resets and packets.                                                     *)
(*                                                                         *)
(* A session is Live from the moment a reset gives it workers until it is  *)
(* stopped.  While it is, everything it keeps is OfThisSession: what is    *)
(* shown, the packets, each call that a worker has not answered and each   *)
(* packet that an operation holds across its await.  Only a reset and a    *)
(* stop move the epoch, and both take the calls and the operations away:   *)
(* hence no answer can bring anything in from before.                      *)
(***************************************************************************)
EXTENDS Lab, FiniteSetTheorems, TLAPS

Stamped == [id : Nat, epoch : Nat]
Names   == {"idle", "reset", "generate", "provision", "command", "transmit", "verify", "deliver"}
Stages  == {"idle", "server init", "server enable", "device init", "device enable"} \cup Roles
OpSet   == [name : Names, stage : Stages, epoch : Nat, packet : Stamped, defer : BOOLEAN]
CallSet == [owner : Callers, epoch : Nat]

Types ==
    /\ epoch \in Nat /\ ready \in BOOLEAN /\ verified \in Nat /\ next \in Nat
    /\ workers \in [Roles -> {"none", "loading", "running", "broken"}]
    /\ shown \in [Roles -> Nat]
    /\ calls \in [Roles -> Seq(CallSet)]
    /\ ops \in [Callers -> OpSet]
    /\ queue \in SUBSET Stamped /\ log \in SUBSET Stamped

Live == workers["server"] # "none"

Together == workers["server"] = "none" <=> workers["device"] = "none"

Holds(op) == op.name \in {"deliver", "verify"}

OfThisSession ==
    /\ \A role \in Roles : shown[role] \in {0, epoch}
    /\ verified \in {0, epoch}
    /\ \A p \in queue \cup log : p.epoch = epoch
    /\ \A role \in Roles : \A i \in DOMAIN calls[role] : calls[role][i].epoch = epoch
    /\ \A c \in Callers : Holds(ops[c]) => ops[c].packet.epoch = epoch

Inv ==
    /\ Types
    /\ Together
    /\ ready => Live
    /\ \A role \in Roles : calls[role] # <<>> => Live
    /\ Live => OfThisSession

Bounded == IsFiniteSet(queue) /\ Cardinality(queue) <= MaxQueue

-----------------------------------------------------------------------------
(***************************************************************************)
(* What ends and what begins a session.                                    *)
(***************************************************************************)
LEMMA IdleType == Idle \in OpSet /\ ~Holds(Idle) /\ NoPacket \in Stamped
  BY DEF Idle, Awaits, OpSet, Names, Stages, Stamped, Holds, NoPacket

LEMMA NoCallsType == NoCalls \in [Roles -> Seq(CallSet)] /\ \A role \in Roles : NoCalls[role] = <<>>
<1>1. <<>> \in Seq(CallSet)
  OBVIOUS
<1>2. QED
  BY <1>1 DEF NoCalls

LEMMA InFlightIs == InFlight.calls = NoCalls /\ InFlight.ops = [c \in Callers |-> Idle]
  BY DEF InFlight

LEMMA InitInv == Init => Inv
<1> SUFFICES ASSUME Init PROVE Inv
  OBVIOUS
<1>1. Types
  BY IdleType, NoCallsType DEF Init, Types, Roles
<1>2. Together /\ ~Live /\ ready = FALSE
  BY DEF Init, Together, Live, Roles
<1>3. QED
  BY <1>1, <1>2, NoCallsType DEF Init, Inv

\* A session that has been stopped is not Live and has nothing in flight.
LEMMA StoppedInv ==
  ASSUME Inv, NEW cause, Stopped(cause),
         shown' \in [Roles -> Nat], verified' \in Nat, next' \in Nat,
         queue' \in SUBSET Stamped, log' \in SUBSET Stamped
  PROVE  Inv'
<1>a. calls' \in [Roles -> Seq(CallSet)] /\ ops' \in [Callers -> OpSet]
  BY IdleType, NoCallsType, InFlightIs DEF Stopped
<1>b. workers' \in [Roles -> {"none", "loading", "running", "broken"}]
  BY DEF Stopped
<1>c. epoch' \in Nat
  BY DEF Stopped, Inv, Types
<1>d. ready' \in BOOLEAN
  BY Zenon DEF Stopped
<1>1. Types'
  BY <1>a, <1>b, <1>c, <1>d DEF Types
<1>2. workers'["server"] = "none" /\ workers'["device"] = "none" /\ ready' = FALSE
  BY DEF Stopped, Roles
<1>3. \A role \in Roles : calls'[role] = <<>>
  BY NoCallsType, InFlightIs DEF Stopped
<1>4. QED
  BY <1>1, <1>2, <1>3 DEF Inv, Together, Live

\* A session that begins has nothing of the one before.
LEMMA ResetInv ==
  ASSUME Inv, NEW c \in Callers, Reset(c)
  PROVE  Inv'
<1>1. PICK defer \in BOOLEAN :
        /\ shown' = [role \in Roles |-> 0] /\ verified' = 0
        /\ queue' = {} /\ log' = {} /\ next' = 1
        /\ \/ Stopped("reset")
           \/ /\ epoch' = epoch + 1 /\ ready' = FALSE
              /\ workers' = [role \in Roles |-> "loading"]
              /\ calls' = [InFlight.calls EXCEPT !["server"] =
                              Append(@, [owner |-> c, epoch |-> epoch + 1])]
              /\ ops' = [InFlight.ops EXCEPT ![c] =
                            Awaits("reset", "server init", epoch + 1, NoPacket, defer)]
  BY DEF Reset
<1>2. CASE Stopped("reset")
  BY <1>1, <1>2, StoppedInv
<1>3. CASE ~Stopped("reset")
  <2> DEFINE call == [owner |-> c, epoch |-> epoch + 1]
             op   == Awaits("reset", "server init", epoch + 1, NoPacket, defer)
  <2>0. call \in CallSet
    BY DEF Inv, Types, CallSet
  <2>d. epoch + 1 \in Nat /\ "reset" \in Names /\ "server init" \in Stages
    BY DEF Inv, Types, Names, Stages
  <2>1. op \in OpSet /\ ~Holds(op)
    BY <2>d, IdleType DEF OpSet, Holds, Awaits
  <2>2. calls' = [role \in Roles |-> IF role = "server" THEN <<call>> ELSE <<>>]
    <3>1. calls' = [NoCalls EXCEPT !["server"] = Append(@, call)]
      BY <1>1, <1>3, InFlightIs
    <3>2. Append(<<>>, call) = <<call>>
      OBVIOUS
    <3>3. QED
      BY <3>1, <3>2 DEF NoCalls, Roles
  <2>3. ops' = [d \in Callers |-> IF d = c THEN op ELSE Idle]
    BY <1>1, <1>3, InFlightIs
  <2>a. <<>> \in Seq(CallSet) /\ <<call>> \in Seq(CallSet)
    BY <2>0
  <2>b. calls' \in [Roles -> Seq(CallSet)]
    BY <2>2, <2>a
  <2>c. ops' \in [Callers -> OpSet]
    BY <2>1, <2>3, IdleType
  <2>e. workers' \in [Roles -> {"none", "loading", "running", "broken"}] /\ shown' \in [Roles -> Nat]
    BY <1>1, <1>3
  <2>4. Types'
    BY <1>1, <1>3, <2>b, <2>c, <2>d, <2>e DEF Inv, Types
  <2>5. /\ epoch' = epoch + 1 /\ ready' = FALSE
        /\ workers'["server"] = "loading" /\ workers'["device"] = "loading"
    BY <1>1, <1>3 DEF Roles
  <2>6. \A role \in Roles : \A i \in DOMAIN calls'[role] : calls'[role][i].epoch = epoch'
    BY <2>2, <2>5 DEF Roles
  <2>7. \A d \in Callers : ~Holds(ops'[d])
    BY <2>1, <2>3, IdleType
  <2>8. OfThisSession'
    BY <1>1, <2>6, <2>7 DEF OfThisSession
  <2>9. QED
    BY <2>4, <2>5, <2>8 DEF Inv, Together, Live
<1>4. QED
  BY <1>2, <1>3

LEMMA StopInv == Inv /\ Stop => Inv'
  BY StoppedInv DEF Stop, session, Inv, Types

LEMMA LoadFailsInv ==
  ASSUME Inv, NEW role \in Roles, LoadFails(role)
  PROVE  Inv'
<1>1. CASE Stopped("failed")
  BY <1>1, StoppedInv DEF LoadFails, session, Inv, Types
<1>2. CASE ~Stopped("failed")
  <2>1. PICK owners \in SUBSET Callers :
          /\ workers[role] = "loading"
          /\ workers' = [workers EXCEPT ![role] = "broken"]
          /\ calls' = [calls EXCEPT ![role] = <<>>]
          /\ ops' = [c \in Callers |-> IF c \in owners THEN Idle ELSE ops[c]]
          /\ UNCHANGED <<epoch, ready, why>> /\ UNCHANGED session
    <3> DEFINE behind == {c \in Callers : \E i \in DOMAIN calls[role] : calls[role][i].owner = c}
    <3>1. behind \in SUBSET Callers
      OBVIOUS
    <3>2. QED
      BY <1>2, <3>1 DEF LoadFails
  <2>2. Types'
    BY <2>1, IdleType DEF Inv, Types, Roles, session
  <2>3. (\A r \in Roles : workers'[r] = "none" <=> workers[r] = "none") /\ Together' /\ (Live' <=> Live)
    BY <2>1 DEF Inv, Types, Together, Live, Roles
  <2>4. \A r \in Roles : calls'[r] = <<>> \/ calls'[r] = calls[r]
    BY <2>1 DEF Inv, Types
  <2>5. \A c \in Callers : Holds(ops'[c]) => ops'[c] = ops[c]
    BY <2>1, IdleType
  <2>6. Live => OfThisSession'
    BY <2>1, <2>4, <2>5 DEF Inv, OfThisSession, session
  <2>7. QED
    BY <2>1, <2>2, <2>3, <2>4, <2>6 DEF Inv
<1>3. QED
  BY <1>1, <1>2

-----------------------------------------------------------------------------
(***************************************************************************)
(* What happens within a session.                                          *)
(***************************************************************************)
LEMMA StartsInv ==
  ASSUME Inv, NEW c \in Callers, NEW role \in Roles, NEW name \in Names, NEW packet \in Stamped,
         Starts(c, name, role, packet),
         name \in {"deliver", "verify"} => packet.epoch = epoch
  PROVE  Inv'
<1> DEFINE op == Awaits(name, role, epoch, packet, FALSE)
           call == [owner |-> c, epoch |-> epoch]
<1>1. Live /\ OfThisSession /\ Types /\ Together /\ role \in Stages
  BY DEF Starts, Inv, Live, Together, Roles, Stages
<1>2. op \in OpSet /\ call \in CallSet /\ op.name = name /\ op.packet = packet
  BY <1>1 DEF Types, OpSet, CallSet, Awaits
<1>3. /\ ops' = [ops EXCEPT ![c] = op] /\ calls' = [calls EXCEPT ![role] = Append(@, call)]
      /\ UNCHANGED <<epoch, ready, workers, why, shown, verified, queue, log, next>>
  BY DEF Starts, Unmoved, session
<1>a. ops' \in [Callers -> OpSet]
  <2> HIDE DEF op
  <2>1. QED
    BY <1>1, <1>2, <1>3 DEF Types
<1>b. calls' \in [Roles -> Seq(CallSet)]
  <2> HIDE DEF call
  <2>1. Append(calls[role], call) \in Seq(CallSet)
    BY <1>1, <1>2 DEF Types
  <2>2. QED
    BY <1>1, <1>3, <2>1 DEF Types
<1>4. ops' \in [Callers -> OpSet] /\ calls' \in [Roles -> Seq(CallSet)]
  BY <1>a, <1>b
<1>5. Types' /\ Live' /\ Together'
  BY <1>1, <1>3, <1>4 DEF Types, Live, Together
<1>6. \A r \in Roles : \A i \in DOMAIN calls'[r] : calls'[r][i].epoch = epoch'
  <2> SUFFICES ASSUME NEW r \in Roles, NEW i \in DOMAIN calls'[r]
               PROVE  calls'[r][i].epoch = epoch
    BY <1>3
  <2>1. CASE r = role
    <3>1. calls[role] \in Seq(CallSet) /\ calls'[role] = Append(calls[role], call)
      BY <1>1, <1>3 DEF Types
    <3>2. \/ i \in DOMAIN calls[role] /\ calls'[role][i] = calls[role][i]
          \/ calls'[role][i] = call
      BY <2>1, <3>1, <1>2
    <3>3. QED
      BY <2>1, <3>2, <1>1 DEF OfThisSession
  <2>2. CASE r # role
    BY <2>2, <1>1, <1>3 DEF OfThisSession, Types
  <2>3. QED
    BY <2>1, <2>2
<1>7. \A d \in Callers : Holds(ops'[d]) => ops'[d].packet.epoch = epoch'
  BY <1>1, <1>2, <1>3 DEF OfThisSession, Types, Holds
<1>8. OfThisSession'
  BY <1>1, <1>3, <1>6, <1>7 DEF OfThisSession
<1>9. QED
  BY <1>3, <1>5, <1>8 DEF Inv, Live

\* The relay's own operations move packets of the session about.
LEMMA RelayInv ==
  ASSUME Inv, Unmoved, UNCHANGED <<calls, ops, shown, verified>>,
         queue' \in SUBSET Stamped, log' \in SUBSET Stamped, next' \in Nat,
         \A p \in queue' \cup log' : Live => p.epoch = epoch
  PROVE  Inv'
<1>1. Types' /\ Together' /\ (Live' <=> Live)
  BY DEF Inv, Types, Together, Live, Unmoved
<1>2. Live => OfThisSession'
  BY DEF Inv, OfThisSession, Unmoved
<1>3. QED
  BY <1>1, <1>2 DEF Inv, Unmoved

\* The oldest call of a worker.
LEMMA HeadFacts ==
  ASSUME Inv, NEW role \in Roles, calls[role] # <<>>
  PROVE  /\ Live /\ OfThisSession /\ Types /\ Together
         /\ calls[role] \in Seq(CallSet)
         /\ Head(calls[role]).owner \in Callers /\ Head(calls[role]).epoch = epoch
         /\ Tail(calls[role]) \in Seq(CallSet)
         /\ \A i \in DOMAIN Tail(calls[role]) : Tail(calls[role])[i].epoch = epoch
<1>1. Live /\ OfThisSession /\ Types /\ Together
  BY DEF Inv
<1>2. calls[role] \in Seq(CallSet)
  BY <1>1 DEF Types
<1>3. Head(calls[role]) \in CallSet /\ Head(calls[role]) = calls[role][1] /\ 1 \in DOMAIN calls[role]
  BY <1>2
<1>4. \A i \in DOMAIN Tail(calls[role]) : i + 1 \in DOMAIN calls[role] /\ Tail(calls[role])[i] = calls[role][i + 1]
  BY <1>2
<1>5. Tail(calls[role]) \in Seq(CallSet)
  BY <1>2
<1>6. QED
  BY <1>1, <1>2, <1>3, <1>4, <1>5 DEF OfThisSession, CallSet

LEMMA EndsInv ==
  ASSUME Inv, NEW c \in Callers, NEW role \in Roles, calls[role] # <<>>, Ends(c, role),
         ready' \in BOOLEAN, shown' \in [Roles -> {0, epoch}], verified' \in {0, epoch},
         queue' \in SUBSET Stamped, log' \in SUBSET Stamped, next' \in Nat,
         \A p \in queue' \cup log' : p.epoch = epoch
  PROVE  Inv'
<1>1. /\ Live /\ OfThisSession /\ Types /\ Together
      /\ Tail(calls[role]) \in Seq(CallSet)
      /\ \A i \in DOMAIN Tail(calls[role]) : Tail(calls[role])[i].epoch = epoch
  BY HeadFacts
<1>2. /\ ops' = [ops EXCEPT ![c] = Idle] /\ calls' = [calls EXCEPT ![role] = Tail(@)]
      /\ workers' = [workers EXCEPT ![role] = "running"] /\ epoch' = epoch
  BY DEF Ends
<1>3. /\ ops' \in [Callers -> OpSet] /\ calls' \in [Roles -> Seq(CallSet)]
      /\ workers' \in [Roles -> {"none", "loading", "running", "broken"}]
  BY <1>1, <1>2, IdleType DEF Types
<1>4. shown' \in [Roles -> Nat] /\ verified' \in Nat /\ epoch' \in Nat
  BY <1>1, <1>2 DEF Types
<1>5. Types'
  BY <1>3, <1>4 DEF Types
<1>6. Live' /\ Together'
  BY <1>1, <1>2 DEF Types, Live, Together, Roles
<1>7. \A r \in Roles : \A i \in DOMAIN calls'[r] : calls'[r][i].epoch = epoch
  BY <1>1, <1>2 DEF OfThisSession, Types
<1>8. \A d \in Callers : Holds(ops'[d]) => ops'[d].packet.epoch = epoch
  BY <1>1, <1>2, IdleType DEF OfThisSession, Types
<1>9. OfThisSession'
  BY <1>2, <1>7, <1>8 DEF OfThisSession
<1>10. QED
  BY <1>5, <1>6, <1>9 DEF Inv

LEMMA GoesOnInv ==
  ASSUME Inv, NEW c \in Callers, NEW role \in Roles, NEW to \in Roles, NEW stage \in Stages,
         calls[role] # <<>>, GoesOn(c, role, to, stage)
  PROVE  Inv'
<1> DEFINE call == [owner |-> c, epoch |-> epoch]
           rest == [calls EXCEPT ![role] = Tail(@)]
<1>1. /\ Live /\ OfThisSession /\ Types /\ Together
      /\ Tail(calls[role]) \in Seq(CallSet)
      /\ \A i \in DOMAIN Tail(calls[role]) : Tail(calls[role])[i].epoch = epoch
  BY HeadFacts
<1>2. /\ ops' = [ops EXCEPT ![c].stage = stage]
      /\ calls' = [rest EXCEPT ![to] = Append(@, call)]
      /\ workers' = [workers EXCEPT ![role] = "running"]
      /\ UNCHANGED <<epoch, ready, shown, verified, queue, log, next>>
  BY DEF GoesOn, session
<1>3. call \in CallSet
  BY <1>1 DEF Types, CallSet
<1>4. rest \in [Roles -> Seq(CallSet)] /\ \A r \in Roles : \A i \in DOMAIN rest[r] : rest[r][i].epoch = epoch
  BY <1>1 DEF Types, OfThisSession
<1>5. calls' \in [Roles -> Seq(CallSet)]
  <2> HIDE DEF rest, call
  <2>1. Append(rest[to], call) \in Seq(CallSet)
    BY <1>3, <1>4
  <2>2. QED
    BY <1>2, <1>4, <2>1
<1>6. \A r \in Roles : \A i \in DOMAIN calls'[r] : calls'[r][i].epoch = epoch'
  <2> SUFFICES ASSUME NEW r \in Roles, NEW i \in DOMAIN calls'[r]
               PROVE  calls'[r][i].epoch = epoch
    BY <1>2
  <2> HIDE DEF rest
  <2>1. CASE r = to
    <3>1. rest[to] \in Seq(CallSet) /\ calls'[to] = Append(rest[to], call)
      BY <1>2, <1>4
    <3>2. \/ i \in DOMAIN rest[to] /\ calls'[to][i] = rest[to][i]
          \/ calls'[to][i] = call
      BY <2>1, <3>1, <1>3
    <3>3. QED
      BY <2>1, <3>2, <1>4
  <2>2. CASE r # to
    BY <2>2, <1>2, <1>4
  <2>3. QED
    BY <2>1, <2>2
<1>7. ops' \in [Callers -> OpSet]
  BY <1>1, <1>2 DEF Types, OpSet
<1>8. workers' \in [Roles -> {"none", "loading", "running", "broken"}]
  BY <1>1, <1>2 DEF Types
<1>9. Types' /\ Live' /\ Together'
  BY <1>1, <1>2, <1>5, <1>7, <1>8 DEF Types, Live, Together, Roles
<1>10. \A d \in Callers : Holds(ops'[d]) => ops'[d].packet.epoch = epoch'
  <2> SUFFICES ASSUME NEW d \in Callers, Holds(ops'[d]) PROVE ops'[d].packet.epoch = epoch
    BY <1>2
  <2>1. ops'[d].name = ops[d].name /\ ops'[d].packet = ops[d].packet
    BY <1>1, <1>2 DEF Types, OpSet
  <2>2. QED
    BY <1>1, <2>1 DEF OfThisSession, Holds
<1>11. OfThisSession'
  BY <1>1, <1>2, <1>6, <1>10 DEF OfThisSession
<1>12. QED
  BY <1>9, <1>11 DEF Inv

LEMMA AnswerInv ==
  ASSUME Inv, NEW role \in Roles, Answer(role)
  PROVE  Inv'
<1> DEFINE c == Head(calls[role]).owner
           from == Head(calls[role]).epoch
<1>1. /\ calls[role] # <<>> /\ c \in Callers /\ from = epoch
      /\ Live /\ OfThisSession /\ Types /\ Together
  BY HeadFacts DEF Answer
<1>2. \/ Refused(c, role)
      \/ ResetGoesOn(c, role) \/ ResetEnds(c, role, from)
      \/ ProvisionGoesOn(c, role) \/ ProvisionEnds(c, role, from)
      \/ CommandEnds(c, role, from) \/ TransmitEnds(c, role, from)
      \/ DeliverEnds(c, role, from) \/ VerifyEnds(c, role, from)
  BY DEF Answer
<1>3. /\ ready \in BOOLEAN /\ shown \in [Roles -> {0, epoch}] /\ verified \in {0, epoch}
      /\ queue \in SUBSET Stamped /\ log \in SUBSET Stamped /\ next \in Nat
      /\ \A p \in queue \cup log : p.epoch = epoch
      /\ ops[c] \in OpSet /\ epoch \in Nat
  BY <1>1 DEF Types, OfThisSession
<1> HIDE DEF c, from
<1>4. CASE Refused(c, role)
  <2>1. CASE Stopped("failed") /\ UNCHANGED session
    BY <2>1, <1>1, StoppedInv DEF session, Types
  <2>2. CASE Ends(c, role) /\ UNCHANGED <<ready, session>>
    BY <2>2, <1>1, <1>3, EndsInv DEF session
  <2>3. QED
    BY <1>4, <2>1, <2>2 DEF Refused
<1>5. CASE ResetGoesOn(c, role)
  BY <1>1, <1>5, GoesOnInv DEF ResetGoesOn, Roles, Stages
<1>6. CASE ProvisionGoesOn(c, role)
  BY <1>1, <1>6, GoesOnInv DEF ProvisionGoesOn, Roles, Stages
<1>7. CASE ResetEnds(c, role, from)
  <2>1. Ends(c, role) /\ ready' \in BOOLEAN
    BY <1>7 DEF ResetEnds
  <2>2. shown' \in [Roles -> {0, epoch}]
    BY <1>7, <1>1 DEF ResetEnds
  <2>3. QED
    BY <1>7, <1>1, <1>3, <2>1, <2>2, EndsInv DEF ResetEnds
<1>8. CASE ProvisionEnds(c, role, from)
  <2>1. shown' \in [Roles -> {0, epoch}]
    BY <1>8, <1>1, <1>3 DEF ProvisionEnds
  <2>2. QED
    BY <1>8, <1>1, <1>3, <2>1, EndsInv DEF ProvisionEnds
<1>9. ASSUME Shows(c, role, from),
             queue' \in SUBSET Stamped, log' \in SUBSET Stamped, next' \in Nat,
             \A p \in queue' \cup log' : p.epoch = epoch
      PROVE  Inv'
  <2>1. shown' \in [Roles -> {0, epoch}]
    BY <1>9, <1>1, <1>3 DEF Shows
  <2>2. QED
    BY <1>9, <1>1, <1>3, <2>1, EndsInv DEF Shows
<1>10. CASE CommandEnds(c, role, from)
  BY <1>3, <1>9, <1>10 DEF CommandEnds
<1>11. CASE TransmitEnds(c, role, from)
  <2> DEFINE new == [id |-> next, epoch |-> from]
  <2>1. new \in Stamped /\ new.epoch = epoch
    BY <1>1, <1>3 DEF Stamped
  <2>2. CASE queue' = queue \cup {new} /\ next' = next + 1 /\ UNCHANGED log
    <3> HIDE DEF new
    <3>1. QED
      BY <1>3, <1>9, <1>11, <2>1, <2>2 DEF TransmitEnds
  <2>3. CASE UNCHANGED <<queue, log, next>>
    BY <1>3, <1>9, <1>11, <2>3 DEF TransmitEnds
  <2>4. QED
    BY <1>11, <2>2, <2>3 DEF TransmitEnds
<1>12. ASSUME Holds(ops[c]), Filed(ops[c].packet)
       PROVE  /\ queue' \in SUBSET Stamped /\ log' \in SUBSET Stamped /\ next' \in Nat
              /\ \A p \in queue' \cup log' : p.epoch = epoch
  <2>1. ops[c].packet \in Stamped /\ ops[c].packet.epoch = epoch
    BY <1>1, <1>3, <1>12 DEF OpSet, OfThisSession
  <2>2. QED
    BY <1>3, <1>12, <2>1 DEF Filed
<1>13. CASE DeliverEnds(c, role, from)
  <2>1. Holds(ops[c]) /\ Filed(ops[c].packet) /\ Shows(c, role, from)
    BY <1>13 DEF DeliverEnds, Holds
  <2>2. QED
    BY <1>9, <1>12, <2>1
<1>14. CASE VerifyEnds(c, role, from)
  <2>1. verified' \in {0, epoch}
    BY <1>14, <1>1, <1>3 DEF VerifyEnds
  <2>2. /\ queue' \in SUBSET Stamped /\ log' \in SUBSET Stamped /\ next' \in Nat
        /\ \A p \in queue' \cup log' : p.epoch = epoch
    <3>1. CASE Filed(ops[c].packet)
      BY <1>14, <1>12, <3>1 DEF VerifyEnds, Holds
    <3>2. CASE UNCHANGED <<queue, log, next>>
      BY <1>3, <3>2
    <3>3. QED
      BY <1>14, <3>1, <3>2 DEF VerifyEnds
  <2>3. QED
    BY <1>14, <1>1, <1>3, <2>1, <2>2, EndsInv DEF VerifyEnds
<1>15. QED
  BY <1>2, <1>4, <1>5, <1>6, <1>7, <1>8, <1>10, <1>11, <1>13, <1>14

LEMMA NextInv == Inv /\ [Next]_vars => Inv'
<1> SUFFICES ASSUME Inv, [Next]_vars PROVE Inv'
  OBVIOUS
<1>0. Types /\ (Live => OfThisSession)
  BY DEF Inv
<1>1. ASSUME NEW c \in Callers, Reset(c) PROVE Inv'
  BY <1>1, ResetInv
<1>2. ASSUME NEW c \in Callers, Generate(c) \/ Provision(c) PROVE Inv'
  BY <1>2, StartsInv, IdleType DEF Generate, Provision, Roles, Names
<1>3. ASSUME NEW c \in Callers, NEW role \in Roles, Command(c, role) \/ Transmit(c, role) PROVE Inv'
  BY <1>3, StartsInv, IdleType DEF Command, Transmit, Names
<1>4. ASSUME NEW c \in Callers, NEW role \in Roles, Deliver(c, role) PROVE Inv'
  <2>1. PICK p \in queue : Starts(c, "verify", role, p) \/ Starts(c, "deliver", role, p)
    BY <1>4 DEF Deliver
  <2>2. p \in Stamped
    BY <1>0, <2>1 DEF Types
  <2>3. Live
    BY <2>1 DEF Starts, Inv, Together, Live, Roles
  <2>4. p.epoch = epoch
    BY <1>0, <2>1, <2>3 DEF OfThisSession
  <2>5. QED
    BY <2>1, <2>2, <2>4, StartsInv DEF Names
<1>5. CASE Duplicate
  <2>1. PICK p \in queue \cup log :
          queue' = queue \cup {[p EXCEPT !.id = next]} /\ next' = next + 1 /\ log' = log
    BY <1>5 DEF Duplicate
  <2> DEFINE copy == [p EXCEPT !.id = next]
  <2>a. p \in Stamped /\ next \in Nat
    BY <1>0, <2>1 DEF Types
  <2>b. copy \in Stamped /\ copy.epoch = p.epoch
    BY <2>a DEF Stamped
  <2>2. copy \in Stamped /\ copy.epoch = p.epoch /\ next' \in Nat
    BY <2>1, <2>a, <2>b
  <2>3. queue' = queue \cup {copy}
    BY <2>1
  <2> HIDE DEF copy
  <2>4. \A q \in queue' \cup log' : Live => q.epoch = epoch
    BY <1>0, <2>1, <2>2, <2>3 DEF OfThisSession
  <2>5. queue' \in SUBSET Stamped /\ log' \in SUBSET Stamped
    BY <1>0, <2>1, <2>2, <2>3 DEF Types
  <2>6. QED
    BY <1>5, <2>2, <2>4, <2>5, RelayInv DEF Duplicate
<1>6. CASE Drop
  <2>1. PICK p \in queue : queue' = queue \ {p} /\ log' = log \cup {p} /\ next' = next
    BY <1>6 DEF Drop
  <2>2. /\ queue' \in SUBSET Stamped /\ log' \in SUBSET Stamped /\ next' \in Nat
        /\ \A q \in queue' \cup log' : Live => q.epoch = epoch
    BY <1>0, <2>1 DEF Types, OfThisSession
  <2>3. QED
    BY <1>6, <2>2, RelayInv DEF Drop
<1>7. CASE Stop
  BY <1>7, StopInv
<1>8. ASSUME NEW role \in Roles, Answer(role) \/ LoadFails(role) PROVE Inv'
  BY <1>8, AnswerInv, LoadFailsInv
<1>9. CASE UNCHANGED vars
  BY <1>9 DEF vars, Inv, Types, Together, Live, OfThisSession
<1>10. QED
  BY <1>1, <1>2, <1>3, <1>4, <1>5, <1>6, <1>7, <1>8, <1>9 DEF Next

\* A ready session shows and keeps nothing of a session before it, for any number
\* of callers in the middle of any operation (lab.mjs, reset and stop).
THEOREM LabNothingFromBefore == Spec => []NothingFromBefore
<1>1. Inv => NothingFromBefore
  BY DEF Inv, OfThisSession, NothingFromBefore
<1>2. QED
  BY InitInv, NextInv, <1>1, PTL DEF Spec

-----------------------------------------------------------------------------
(***************************************************************************)
(* The relay's limit.                                                      *)
(***************************************************************************)
LEMMA QueueStep ==
  ASSUME [Next]_vars
  PROVE  queue' \subseteq queue \/ (HasRoom /\ \E p : queue' = queue \cup {p})
<1>1. ASSUME NEW c \in Callers, Reset(c) PROVE queue' \subseteq queue
  BY <1>1 DEF Reset
<1>2. ASSUME NEW c, NEW name, NEW role, NEW p, Starts(c, name, role, p) PROVE queue' = queue
  BY <1>2 DEF Starts, session
<1>3. ASSUME NEW c \in Callers, Generate(c) \/ Provision(c) PROVE queue' \subseteq queue
  BY <1>2, <1>3 DEF Generate, Provision
<1>4. ASSUME NEW c \in Callers, NEW role \in Roles, Command(c, role) \/ Transmit(c, role) \/ Deliver(c, role)
      PROVE  queue' \subseteq queue
  BY <1>2, <1>4 DEF Command, Transmit, Deliver
<1>5. CASE Duplicate
  BY <1>5 DEF Duplicate
<1>6. CASE Drop \/ Stop
  BY <1>6 DEF Drop, Stop, session
<1>7. ASSUME NEW role \in Roles, LoadFails(role) PROVE queue' \subseteq queue
  BY <1>7 DEF LoadFails, session
<1>8. ASSUME NEW role \in Roles, Answer(role)
      PROVE  queue' \subseteq queue \/ (HasRoom /\ \E p : queue' = queue \cup {p})
  <2> DEFINE c == Head(calls[role]).owner
             from == Head(calls[role]).epoch
  <2>1. \/ Refused(c, role)
        \/ ResetGoesOn(c, role) \/ ResetEnds(c, role, from)
        \/ ProvisionGoesOn(c, role) \/ ProvisionEnds(c, role, from)
        \/ CommandEnds(c, role, from) \/ TransmitEnds(c, role, from)
        \/ DeliverEnds(c, role, from) \/ VerifyEnds(c, role, from)
    BY <1>8 DEF Answer
  <2> HIDE DEF c, from
  <2>2. CASE TransmitEnds(c, role, from)
    BY <2>2 DEF TransmitEnds, FitsNow
  <2>3. CASE Refused(c, role) \/ ResetGoesOn(c, role) \/ ProvisionGoesOn(c, role)
    BY <2>3 DEF Refused, ResetGoesOn, ProvisionGoesOn, GoesOn, session
  <2>4. CASE ResetEnds(c, role, from) \/ ProvisionEnds(c, role, from) \/ CommandEnds(c, role, from)
    BY <2>4 DEF ResetEnds, ProvisionEnds, CommandEnds
  <2>5. CASE DeliverEnds(c, role, from) \/ VerifyEnds(c, role, from)
    BY <2>5 DEF DeliverEnds, VerifyEnds, Filed
  <2>6. QED
    BY <2>1, <2>2, <2>3, <2>4, <2>5
<1>9. CASE UNCHANGED vars
  BY <1>9 DEF vars
<1>10. QED
  BY <1>1, <1>3, <1>4, <1>5, <1>6, <1>7, <1>8, <1>9 DEF Next

LEMMA BoundedStep == Bounded /\ [Next]_vars => Bounded'
<1> SUFFICES ASSUME Bounded, [Next]_vars PROVE Bounded'
  OBVIOUS
<1>0. Cardinality(queue) \in Nat /\ MaxQueue \in Nat
  BY FS_CardinalityType, LabAssumption DEF Bounded
<1>1. CASE queue' \subseteq queue
  <2>1. IsFiniteSet(queue') /\ Cardinality(queue') <= Cardinality(queue)
    BY <1>1, FS_Subset DEF Bounded
  <2>2. QED
    BY <1>0, <2>1, FS_CardinalityType DEF Bounded
<1>2. CASE HasRoom /\ \E p : queue' = queue \cup {p}
  <2>1. PICK p : queue' = queue \cup {p}
    BY <1>2
  <2>2. IsFiniteSet(queue') /\ Cardinality(queue') <= Cardinality(queue) + 1
    BY <1>0, <2>1, FS_AddElement DEF Bounded
  <2>3. QED
    BY <1>0, <1>2, <2>2, FS_CardinalityType DEF Bounded, HasRoom
<1>3. QED
  BY <1>1, <1>2, QueueStep

\* The relay never holds more than MAX_QUEUE packets, however many transmissions
\* found room before they awaited their worker (lab.mjs, transmit and duplicate).
THEOREM LabRelayWithinLimit == Spec => []RelayWithinLimit
<1>1. Init => Bounded
  BY FS_EmptySet, LabAssumption DEF Init, Bounded
<1>2. Bounded => RelayWithinLimit
  BY DEF Bounded, RelayWithinLimit
<1>3. QED
  BY <1>1, <1>2, BoundedStep, PTL DEF Spec

=============================================================================
