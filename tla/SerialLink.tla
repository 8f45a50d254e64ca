----------------------------- MODULE SerialLink -----------------------------
(***************************************************************************)
(* examples/fleet_manager/qtpy-serial.mjs: one owned Web Serial port, one  *)
(* outstanding command, a deadline, and no retries; with the firmware's    *)
(* qt_rpc at the other end.  Each connection has a SerialLink of its own,  *)
(* whose sequence starts again at 0, while the board keeps running: bytes  *)
(* that it has not read, and answers that nobody has collected, survive    *)
(* the port being closed and opened again.                                 *)
(*                                                                         *)
(* A frame is a record; COBS and the CRC appear as a frame that arrives    *)
(* intact, is recognised as damaged, or does not arrive.  A definition     *)
(* named X_Y is X with a plausible mistake Y; only the mutation runs use   *)
(* it.                                                                     *)
(***************************************************************************)
EXTENDS Integers, Sequences, SequencesExt

CONSTANTS
    MaxCalls,       \* bound on the commands called, over all connections
    MaxSequence,    \* the sequence at which a connection is exhausted
    MaxConnections, \* bound on the links opened
    MaxFaults       \* bound on lost and damaged frames

ASSUME BoundsAssumption ==
    /\ MaxCalls \in Nat /\ MaxSequence \in Nat
    /\ MaxConnections \in Nat /\ MaxFaults \in Nat

\* start, setup and receive differ in what they do on the board only.
Commands == {"inspect", "receive", "outbound"}
Calls    == 1 .. MaxCalls
NoCall   == [id |-> 0, command |-> "none", sequence |-> 0]
Request  == [id : Calls, command : Commands, sequence : 1 .. MaxSequence]

\* status is 0 for success, 1 for "nothing to send", negative for a refusal.
Statuses == {0, 1, -1}
Garbage  == [id |-> 0, command |-> "none", sequence |-> 0, status |-> -1]
Reply    == [id : Calls, command : Commands, sequence : 1 .. MaxSequence, status : Statuses]

\* How a call's promise is settled.  by is the call the board answered.
Outcome ==
    [is : {"uncalled"}, command : {"none"}, by : {0}]
        \cup [is : {"waiting", "ambiguous"}, command : Commands, by : {0}]
        \cup [is : {"result", "nothing", "refused"}, command : Commands, by : Calls]

VARIABLES
    port,        \* "closed", "open" or "closing": the page's port and writer
    failed,      \* link.failed
    sequence,    \* link.sequence
    pending,     \* link.pending
    toBoard,     \* frames the board has not read
    toHost,      \* answers the page has not read
    called,      \* the last call made
    outcome,     \* outcome[i]: how call i was settled
    executed,    \* executed[i]: how often the board ran call i's command
    connections, \* links opened so far
    faults       \* frames lost or damaged so far

link  == <<port, failed, sequence, pending>>
wires == <<toBoard, toHost>>
vars  == <<link, wires, called, outcome, executed, connections, faults>>

-----------------------------------------------------------------------------
(***************************************************************************)
(* The page's side of the port.                                            *)
(***************************************************************************)
\* A new SerialLink on the port; the zero byte it writes first only ends
\* whatever partial frame the board still holds.
Open ==
    /\ port = "closed" /\ connections < MaxConnections
    /\ connections' = connections + 1
    /\ port' = "open" /\ failed' = FALSE /\ sequence' = 0 /\ pending' = NoCall
    /\ UNCHANGED <<wires, called, outcome, executed, faults>>

\* A page inspects before anything else on a new link.
FirstInspects_Never(c) == TRUE

FirstInspects(c) == sequence = 0 => c = "inspect"

Accepts == port = "open" /\ ~failed /\ pending = NoCall

HasSequence == sequence < MaxSequence

Command(c) ==
    /\ Accepts
    /\ FirstInspects(c)
    /\ HasSequence /\ called < MaxCalls
    /\ called'   = called + 1
    /\ sequence' = sequence + 1
    /\ pending'  = [id |-> called', command |-> c, sequence |-> sequence']
    /\ toBoard'  = Append(toBoard, pending')
    /\ outcome'  = [outcome EXCEPT ![called'] = [is |-> "waiting", command |-> c, by |-> 0]]
    /\ UNCHANGED <<port, failed, toHost, executed, connections, faults>>

\* fail: latch the failure, and reject the pending command as ambiguous.
Fail ==
    /\ failed' = TRUE
    /\ pending' = NoCall
    /\ outcome' = IF pending = NoCall THEN outcome
                  ELSE [outcome EXCEPT ![pending.id].is = "ambiguous"]

\* An error in the read loop or in a write, and the disconnect event.
PortFails ==
    /\ port = "open" /\ ~failed
    /\ Fail
    /\ UNCHANGED <<port, sequence, wires, called, executed, connections, faults>>

\* The deadline of the pending command.
Timeout_Retries ==
    /\ pending # NoCall
    /\ toBoard' = Append(toBoard, pending)
    /\ UNCHANGED <<link, toHost, called, outcome, executed, connections, faults>>

Timeout ==
    /\ pending # NoCall
    /\ Fail
    /\ UNCHANGED <<port, sequence, wires, called, executed, connections, faults>>

\* The header and CRC checks of the read loop.
Matches(r) ==
    /\ pending # NoCall
    /\ r # Garbage
    /\ r.command = pending.command /\ r.sequence = pending.sequence

Settled(r) ==
    [is |-> CASE r.status = 1 /\ r.command = "outbound" -> "nothing"
              [] r.status = 0 -> "result"
              [] OTHER -> "refused",
     command |-> r.command, by |-> r.id]

\* The read loop takes the next answer; it ends with the first failure.
ReadReply ==
    /\ port = "open" /\ ~failed /\ toHost # <<>>
    /\ toHost' = Tail(toHost)
    /\ LET r == Head(toHost)
       IN  IF Matches(r)
           THEN /\ pending' = NoCall
                /\ outcome' = [outcome EXCEPT ![pending.id] = Settled(r)]
                /\ UNCHANGED failed
           ELSE Fail
    /\ UNCHANGED <<port, sequence, toBoard, called, executed, connections, faults>>

\* close: fail first, then wait for the read loop, then give up the port.
Close ==
    /\ port = "open"
    /\ Fail
    /\ port' = "closing"
    /\ UNCHANGED <<sequence, wires, called, executed, connections, faults>>

PortCloses ==
    /\ port = "closing"
    /\ port' = "closed"
    /\ UNCHANGED <<failed, sequence, pending, wires, called, outcome, executed,
                   connections, faults>>

-----------------------------------------------------------------------------
(***************************************************************************)
(* The board and the cable.                                                *)
(***************************************************************************)
\* qt_rpc runs one command and answers it under the same sequence.
BoardRuns(status) ==
    /\ toBoard # <<>>
    /\ LET q == Head(toBoard)
       IN  /\ status = 1 => q.command = "outbound"
           /\ executed' = [executed EXCEPT ![q.id] = @ + 1]
           /\ toHost' = Append(toHost, [id |-> q.id, command |-> q.command,
                                        sequence |-> q.sequence, status |-> status])
    /\ toBoard' = Tail(toBoard)
    /\ UNCHANGED <<link, called, outcome, connections, faults>>

\* qt_rpc ignores what does not decode or fails its CRC, so a damaged frame
\* is as good as lost.
FrameLost ==
    /\ faults < MaxFaults
    /\ faults' = faults + 1
    /\ \/ \E i \in DOMAIN toBoard : toBoard' = RemoveAt(toBoard, i) /\ UNCHANGED toHost
       \/ \E i \in DOMAIN toHost :
             /\ \/ toHost' = RemoveAt(toHost, i)
                \/ toHost[i] # Garbage /\ toHost' = ReplaceAt(toHost, i, Garbage)
             /\ UNCHANGED toBoard
    /\ UNCHANGED <<link, called, outcome, executed, connections>>

\* The board loses power or reboots: the port fails, the buffers are gone.
Unplugged ==
    /\ wires # <<<<>>, <<>>>>
    /\ port = "open" => failed
    /\ toBoard' = <<>> /\ toHost' = <<>>
    /\ UNCHANGED <<link, called, outcome, executed, connections, faults>>

-----------------------------------------------------------------------------
Init ==
    /\ port = "closed" /\ failed = FALSE /\ sequence = 0 /\ pending = NoCall
    /\ toBoard = <<>> /\ toHost = <<>>
    /\ called = 0
    /\ outcome  = [i \in Calls |-> [is |-> "uncalled", command |-> "none", by |-> 0]]
    /\ executed = [i \in Calls |-> 0]
    /\ connections = 0 /\ faults = 0

Next ==
    \/ Open \/ Close \/ PortCloses
    \/ \E c \in Commands : Command(c)
    \/ ReadReply \/ Timeout \/ PortFails
    \/ \E s \in Statuses : BoardRuns(s)
    \/ FrameLost \/ Unplugged

Spec == Init /\ [][Next]_vars

\* The deadline is a timer of the browser, so it goes off.
FairSpec == Spec /\ WF_vars(Timeout)

-----------------------------------------------------------------------------
(***************************************************************************)
(* Properties.                                                             *)
(***************************************************************************)
\* Every variable keeps its shape: the first part of OwnAnswer.
TypeOK ==
    /\ port \in {"closed", "open", "closing"} /\ failed \in BOOLEAN
    /\ sequence \in 0 .. MaxSequence /\ pending \in Request \cup {NoCall}
    /\ toBoard \in Seq(Request) /\ toHost \in Seq(Reply \cup {Garbage})
    /\ called \in 0 .. MaxCalls
    /\ outcome \in [Calls -> Outcome] /\ executed \in [Calls -> 0 .. MaxCalls]
    /\ connections \in 0 .. MaxConnections /\ faults \in 0 .. MaxFaults

Answered(i) == i \in Calls /\ outcome[i].by # 0

\* Call i was settled by the answer to an earlier call.
Borrowed(i) == Answered(i) /\ outcome[i].by # i

\* Late answers to timed-out calls, of earlier links with the same sequences,
\* are under way while a link works.  Whatever is lost or late, answers are
\* taken in the order of the calls, none twice and none before it was asked
\* for; and a command that changes the board takes another's answer only when
\* its link, and the link of that answer, both had borrowed the answer to
\* their inspection, which takes three connections in a row.
OwnAnswer ==
    /\ TypeOK
    /\ \A i \in Calls : Answered(i) =>
          /\ outcome[i].by <= i
          /\ outcome[outcome[i].by].command = outcome[i].command
          /\ \A k \in Calls : i < k /\ Answered(k) => outcome[i].by < outcome[k].by
    /\ \A i \in Calls : Borrowed(i) /\ outcome[i].command # "inspect" =>
          Borrowed(i - 1) /\ Borrowed(outcome[i].by - 1)

\* The link keeps the promise of SerialCalls: no command runs twice, none
\* returns an answer that was not given, none is called on a link that has
\* given up, and each call is settled, answered or not.
Abstract ==
    INSTANCE SerialCalls
    WITH inspections <- {i \in Calls : outcome[i].command = "inspect"},
         running     <- pending.id,
         usable      <- port = "open" /\ ~failed,
         runs        <- executed,
         answer      <- [i \in Calls |-> outcome[i].by]

CallsSpec == Abstract!Promise
=============================================================================
