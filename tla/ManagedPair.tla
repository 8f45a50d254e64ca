----------------------------- MODULE ManagedPair -----------------------------
(***************************************************************************)
(* The two endpoints that a browser page manages (endpoint.mjs over the    *)
(* core): a host, which enrolls one device and requests reports from it,   *)
(* and the device.  Enrollment and ResourceSync model the core in detail;  *)
(* here an endpoint is its committed record, what its calls make of it,    *)
(* and the one frame it would send next.  The credit values that requests  *)
(* and reports carry are left out (Credits models them).                   *)
(*                                                                         *)
(* A definition named X_Y is X with a plausible mistake Y; only the        *)
(* mutation runs use it.                                                   *)
(***************************************************************************)
EXTENDS Integers

\* id and key stand for public keys; 0 is the zero key or challenge.
HostRecord(Ids, Keys, Rounds, Requests) ==
    [id : Ids, registered : BOOLEAN, peer : Keys, candidate : Keys, challenge : Rounds,
     request : Requests, pending : BOOLEAN, receipt : BOOLEAN]

NewHost(id) ==
    [id |-> id, registered |-> FALSE, peer |-> 0, candidate |-> 0, challenge |-> 0,
     request |-> 0, pending |-> FALSE, receipt |-> FALSE]

DeviceRecord(Ids, Keys, Rounds, Requests) ==
    [key : Keys, server : Ids, challenge : Rounds, claimed : BOOLEAN,
     registered : BOOLEAN, got : Requests, reply : BOOLEAN]

NewDevice(key, server) ==
    [key |-> key, server |-> server, challenge |-> 0, claimed |-> FALSE,
     registered |-> FALSE, got |-> 0, reply |-> FALSE]

Nothing == [kind |-> "none", from |-> 0, to |-> 0, challenge |-> 0, id |-> 0]

DownKinds == {"invitation", "confirmation", "request", "receipt"}
UpKinds   == {"claim", "report"}

-----------------------------------------------------------------------------
(***************************************************************************)
(* The host's calls.  Registering also makes a confirmation due, which is  *)
(* volatile.                                                               *)
(***************************************************************************)
Begun(h, challenge) == [h EXCEPT !.challenge = challenge, !.candidate = 0]

Cancelled(h) == [h EXCEPT !.challenge = 0, !.candidate = 0]

MayApprove(h, challenge, key) ==
    /\ h.challenge = challenge /\ challenge # 0
    /\ IF h.registered THEN h.peer = key ELSE h.candidate = key /\ key # 0

Approved(h, key) == [h EXCEPT !.registered = TRUE, !.peer = key, !.candidate = 0]

\* sc_data_request; an issue differs in the values that it carries only.
Requested(h) == [h EXCEPT !.request = @ + 1, !.pending = TRUE]

-----------------------------------------------------------------------------
(***************************************************************************)
(* sc_outbound and sc_receive_at on the host.                              *)
(***************************************************************************)
HostFrame(h, due) ==
    LET frame(kind) == [kind |-> kind, from |-> h.id, to |-> h.peer,
                        challenge |-> h.challenge, id |-> h.request]
    IN  CASE ~h.registered /\ h.challenge # 0                -> frame("invitation")
          [] h.registered /\ due                             -> frame("confirmation")
          [] h.registered /\ ~due /\ h.pending               -> frame("request")
          [] h.registered /\ ~due /\ ~h.pending /\ h.receipt -> frame("receipt")
          [] OTHER -> Nothing

HostSent_KeepsReceipt(h, due) == h

\* What the host records before its frame leaves.
HostSent(h, due) ==
    IF HostFrame(h, due).kind = "receipt" THEN [h EXCEPT !.receipt = FALSE] ELSE h

HostAccepts(h, f) ==
    /\ f.kind \in UpKinds
    /\ f.to = h.id /\ f.challenge = h.challenge /\ h.challenge # 0
    /\ IF h.registered THEN f.from = h.peer /\ f.id <= h.request
       ELSE f.kind = "claim" /\ h.candidate \in {0, f.from}

HostReceived(h, f) ==
    CASE ~h.registered -> [h EXCEPT !.candidate = f.from]
      [] h.registered /\ f.kind = "report" /\ f.id = h.request ->
            [h EXCEPT !.pending = FALSE, !.receipt = TRUE]
      [] OTHER -> h

\* A claim from the registered device asks for the confirmation again.
MakesDue(h, f) == h.registered /\ f.kind = "claim"

-----------------------------------------------------------------------------
(***************************************************************************)
(* sc_outbound and sc_receive_at on the device.                            *)
(***************************************************************************)
DeviceFrame(d) ==
    LET frame(kind) == [kind |-> kind, from |-> d.key, to |-> d.server,
                        challenge |-> d.challenge, id |-> d.got]
    IN  CASE ~d.registered /\ d.challenge # 0 -> frame("claim")
          [] d.registered /\ d.reply          -> frame("report")
          [] OTHER -> Nothing

DeviceSent(d) == IF DeviceFrame(d) = Nothing THEN d ELSE [d EXCEPT !.claimed = TRUE]

DeviceAccepts(d, f) ==
    /\ f.kind \in DownKinds /\ f.from = d.server
    /\ IF f.kind = "invitation" THEN ~d.registered
       ELSE /\ f.to = d.key /\ f.challenge = d.challenge /\ d.challenge # 0 /\ d.claimed
            /\ f.kind \in {"request", "receipt"} => d.registered
            /\ f.kind = "receipt" => f.id <= d.got

DeviceReceived(d, f) ==
    CASE f.kind = "invitation"   -> [d EXCEPT !.challenge = f.challenge]
      [] f.kind = "confirmation" -> [d EXCEPT !.registered = TRUE]
      [] f.kind = "request" /\ f.id >= d.got -> [d EXCEPT !.got = f.id, !.reply = TRUE]
      [] f.kind = "receipt" /\ f.id = d.got  -> [d EXCEPT !.reply = FALSE]
      [] OTHER -> d
=============================================================================
