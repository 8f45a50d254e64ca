---------------------------- MODULE ManagedGroup ----------------------------
(***************************************************************************)
(* What ManagedPair says of one group once the pair is enrolled: two       *)
(* committed records, a confirmation that may be due, and a network that   *)
(* loses, repeats and reorders frames.  An endpoint acts by its record     *)
(* alone: what it runs from, and how often it restarts, does not show.     *)
(***************************************************************************)
EXTENDS ManagedPair

VARIABLES
    host,     \* the host's committed record
    device,   \* the device's committed record
    due,      \* a confirmation is due; lost when the host restarts
    net       \* every frame that may still arrive

pair == <<host, device, due, net>>

EnrolledHost   == Approved(Begun(NewHost(1), 1), 1)
EnrolledDevice == [NewDevice(1, 1) EXCEPT !.challenge = 1, !.claimed = TRUE, !.registered = TRUE]

\* The claim that enrolled the device may still be under way.
EnrolledClaim == [kind |-> "claim", from |-> 1, to |-> 1, challenge |-> 1, id |-> 0]

Init ==
    /\ host = EnrolledHost
    /\ device = EnrolledDevice
    /\ due = FALSE
    /\ net \subseteq {EnrolledClaim}

\* An issue, a request of the host's application.
HostRequests ==
    /\ host' = Requested(host)
    /\ UNCHANGED <<device, due, net>>

\* The record is committed first; the frame f may leave after that.
MayLeave(f) == net' = net \/ net' = net \cup {f}

HostSends ==
    /\ HostFrame(host, due) # Nothing
    /\ host' = HostSent(host, due)
    /\ due' = FALSE
    /\ MayLeave(HostFrame(host, due))
    /\ UNCHANGED device

DeviceSends ==
    /\ DeviceFrame(device) # Nothing
    /\ device' = DeviceSent(device)
    /\ MayLeave(DeviceFrame(device))
    /\ UNCHANGED <<host, due>>

HostReceives(f) ==
    /\ HostAccepts(host, f)
    /\ host' = HostReceived(host, f)
    /\ due' = (due \/ MakesDue(host, f))
    /\ UNCHANGED <<device, net>>

DeviceReceives(f) ==
    /\ DeviceAccepts(device, f)
    /\ device' = DeviceReceived(device, f)
    /\ UNCHANGED <<host, due, net>>

HostRestarts ==
    /\ due' = FALSE
    /\ UNCHANGED <<host, device, net>>

Next ==
    \/ HostRequests
    \/ HostSends
    \/ DeviceSends
    \/ \E f \in net : HostReceives(f) \/ DeviceReceives(f)
    \/ HostRestarts

Spec == Init /\ [][Next]_pair
=============================================================================
