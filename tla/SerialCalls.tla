----------------------------- MODULE SerialCalls ----------------------------
(***************************************************************************)
(* What the private management link of a physical board promises to the    *)
(* page that uses it: commands are called one at a time; the board carries *)
(* each of them out at most once; a command that returns reports a command *)
(* of the same kind that was carried out; answers are handed out in the    *)
(* order of the calls, each to one call; a call that gives up may still be *)
(* carried out, once, at any later time, and nothing is called after it    *)
(* until the link has been reopened.                                       *)
(*                                                                         *)
(* Numbers start again with every link, so the first command of a link, an *)
(* inspection, may be handed a late answer to an inspection of an earlier  *)
(* link.  A command that changes the board returns its own answer unless   *)
(* its link, and the link of the answer, both began in that way.           *)
(***************************************************************************)
EXTENDS Integers

CONSTANT MaxCalls   \* bound on the commands called

Calls == 1 .. MaxCalls

VARIABLES
    called,      \* the calls made so far are 1 .. called
    inspections, \* those of them that only inspect
    running,     \* the call that waits for its answer, or 0
    usable,      \* the link takes another command
    runs,        \* runs[i]: how often the board carried call i out
    answer       \* answer[i]: the call whose answer call i returned, or 0

vars == <<called, inspections, running, usable, runs, answer>>

Init ==
    /\ called = 0 /\ running = 0 /\ usable = FALSE
    /\ inspections = {}
    /\ runs = [i \in Calls |-> 0] /\ answer = [i \in Calls |-> 0]

Reopen ==
    /\ ~usable /\ running = 0
    /\ usable' = TRUE
    /\ UNCHANGED <<called, inspections, running, runs, answer>>

Call(inspects) ==
    /\ usable /\ running = 0 /\ called < MaxCalls
    /\ called' = called + 1
    /\ running' = called + 1
    /\ inspections' = IF inspects THEN inspections \cup {called'} ELSE inspections
    /\ UNCHANGED <<usable, runs, answer>>

CarryOut(i) ==
    /\ i \in 1 .. called /\ runs[i] = 0
    /\ runs' = [runs EXCEPT ![i] = 1]
    /\ UNCHANGED <<called, inspections, running, usable, answer>>

\* Call i returned the answer of an earlier call.
Borrowed(i) == answer[i] \notin {0, i}

Return(j) ==
    /\ running # 0
    /\ j \in 1 .. running /\ runs[j] = 1
    /\ j \in inspections <=> running \in inspections
    /\ \A i \in 1 .. running - 1 : answer[i] < j
    /\ j # running /\ running \notin inspections =>
          /\ running - 1 \in Calls /\ Borrowed(running - 1)
          /\ j - 1 \in Calls /\ Borrowed(j - 1)
    /\ answer' = [answer EXCEPT ![running] = j]
    /\ running' = 0
    /\ UNCHANGED <<called, inspections, usable, runs>>

GiveUp ==
    /\ usable
    /\ usable' = FALSE
    /\ running' = 0
    /\ UNCHANGED <<called, inspections, runs, answer>>

Next ==
    \/ Reopen \/ GiveUp
    \/ \E inspects \in BOOLEAN : Call(inspects)
    \/ \E i \in Calls : CarryOut(i) \/ Return(i)

Spec == Init /\ [][Next]_vars

\* No call waits for ever.
Promise == Spec /\ \A i \in Calls : (running = i) ~> (running # i)
=============================================================================
