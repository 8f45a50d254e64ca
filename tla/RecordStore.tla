---------------------------- MODULE RecordStore -----------------------------
(***************************************************************************)
(* The host's durable store (providers/host/sc_host.c) under the nonce     *)
(* leases and record commits of core/sc.c.  One file holds the protocol    *)
(* record, its generation and the nonce high-water mark; persist() writes  *)
(* a temporary file, renames it over the store and syncs the directory.    *)
(* A process may die, and the power may fail, between any two of those     *)
(* steps; a rename is certain to survive a power loss only after the       *)
(* directory was synced.  Several processes may try to open the store.     *)
(*                                                                         *)
(* A record is the set of the updates it contains.  A definition named X_Y *)
(* is X with a plausible mistake Y; only the mutation runs use it.         *)
(***************************************************************************)
EXTENDS Integers

CONSTANTS
    Procs,          \* processes that may open the store
    Lease,          \* SC_NONCE_RESERVATION
    MaxNonce,       \* UINT64_MAX for nonce counters
    MaxGeneration,  \* UINT64_MAX for record generations
    MaxUpdates,     \* bound on the commits attempted
    MaxFaults       \* bound on deaths, power losses and failed directory syncs

Nobody == "nobody"

ASSUME ProcsAssumption == Nobody \notin Procs
ASSUME LeaseAssumption == Lease \in Nat \ {0} /\ MaxNonce \in Nat /\ Lease <= MaxNonce
ASSUME BoundsAssumption ==
    MaxGeneration \in Nat \ {0} /\ MaxUpdates \in Nat /\ MaxFaults \in Nat

Updates == 1 .. MaxUpdates
Nonces  == 0 .. MaxNonce

\* disk_record; whole is FALSE of a file whose data was never synced.
Stored ==
    [generation : 1 .. MaxGeneration, record : SUBSET Updates, next : Nonces,
     whole : BOOLEAN]

\* The store after sc_host_initialize created it and sc_init saved its record.
Created == [generation |-> 1, record |-> {}, next |-> 0, whole |-> TRUE]

Calls == {"idle", "commit", "send", "reserve"}
Steps == {"write", "rename", "sync"}

\* One process: sc_host (poisoned, disk), the part of sc_context that concerns
\* the store (generation, record, the lease nonce_next .. nonce_limit - 1), and
\* the persist in progress (call, step, target).
Host ==
    [poisoned : BOOLEAN, disk : Stored, generation : 1 .. MaxGeneration,
     record : SUBSET Updates, nonce_next : Nonces, nonce_limit : Nonces,
     call : Calls, step : Steps, target : Stored]

Opened_AssumesLease(file) ==
    [poisoned |-> FALSE, disk |-> file, generation |-> file.generation,
     record |-> file.record, nonce_limit |-> file.next,
     nonce_next |-> IF file.next < Lease THEN file.next ELSE file.next - Lease,
     call |-> "idle", step |-> "write", target |-> file]

\* A process that read file: the lease of an earlier process is not resumed.
Opened(file) ==
    [poisoned |-> FALSE, disk |-> file, generation |-> file.generation,
     record |-> file.record, nonce_next |-> 0, nonce_limit |-> 0,
     call |-> "idle", step |-> "write", target |-> file]

VARIABLES
    bin,      \* state.bin as a process that opens it reads it
    safe,     \* state.bin as the worst power loss leaves it
    locks,    \* the processes that hold the store open
    host,     \* host[p]: the state of p while it holds the store open
    uses,     \* history: how often each nonce was sealed with
    shown,    \* history: the updates that a released frame rests on
    acked,    \* history: the updates whose commit reported success
    drawn,    \* updates attempted
    faults    \* deaths, power losses and failed directory syncs so far

vars == <<bin, safe, locks, host, uses, shown, acked, drawn, faults>>

-----------------------------------------------------------------------------
(***************************************************************************)
(* persist(), one action per system call that can fail or be cut off.      *)
(***************************************************************************)
Running(p, call, step) == p \in locks /\ host[p].call = call /\ host[p].step = step

Idle(p) == p \in locks /\ host[p].call = "idle"

\* Enter persist for the record target, on behalf of call.
Persist(p, call, target) ==
    host' = [host EXCEPT ![p].call = call, ![p].step = "write",
                         ![p].target = [target EXCEPT !.whole = FALSE]]

Written_NoSync(file) == file

\* What the file holds once it is written and synced.
Written(file) == [file EXCEPT !.whole = TRUE]

WriteTemporary(p, call) ==
    /\ Running(p, call, "write")
    /\ host' = [host EXCEPT ![p].step = "rename", ![p].target = Written(@)]
    /\ UNCHANGED <<bin, safe, locks, uses, shown, acked, drawn, faults>>

RenameTemporary(p, call) ==
    /\ Running(p, call, "rename")
    /\ bin' = host[p].target
    /\ host' = [host EXCEPT ![p].step = "sync"]
    /\ UNCHANGED <<safe, locks, uses, shown, acked, drawn, faults>>

\* Writing, syncing or renaming the temporary file fails: nothing changed.
PersistFails(p, call) ==
    /\ \E step \in {"write", "rename"} : Running(p, call, step)
    /\ host' = [host EXCEPT ![p].call = "idle"]
    /\ UNCHANGED <<bin, safe, locks, uses, shown, acked, drawn, faults>>

\* The directory sync fails after the rename: the handle is poisoned.
SyncFails(p, call) ==
    /\ Running(p, call, "sync")
    /\ faults < MaxFaults
    /\ faults' = faults + 1
    /\ host' = [host EXCEPT ![p].call = "idle", ![p].poisoned = TRUE]
    /\ UNCHANGED <<bin, safe, locks, uses, shown, acked, drawn>>

Settled_Skipped(file) == safe

\* What a power loss leaves once the directory is synced.
Settled(file) == file

\* persist() succeeded: the provider's copy, and then what the caller does.
Finished(h) ==
    IF h.call = "reserve"
    THEN [h EXCEPT !.disk = h.target, !.call = "idle",
                   !.nonce_next = h.disk.next, !.nonce_limit = h.target.next]
    ELSE [h EXCEPT !.disk = h.target, !.call = "idle",
                   !.generation = h.target.generation, !.record = h.target.record]

SyncDirectory(p, call) ==
    /\ Running(p, call, "sync")
    /\ safe' = Settled(bin)
    /\ host' = [host EXCEPT ![p] = Finished(@)]
    /\ acked' = IF call = "reserve" THEN acked ELSE acked \cup host[p].target.record
    /\ shown' = IF call = "send" THEN shown \cup host[p].target.record ELSE shown
    /\ UNCHANGED <<bin, locks, uses, drawn, faults>>

-----------------------------------------------------------------------------
(***************************************************************************)
(* p_commit under save(), p_reserve under next_nonce(), and sc_outbound.   *)
(***************************************************************************)
\* The store with the record of the core and the counters of the provider.
Committed(h, update) ==
    [h.disk EXCEPT !.generation = h.generation + 1,
                   !.record = h.record \cup {update}]

CanCommit(p) ==
    /\ ~host[p].poisoned
    /\ host[p].generation = host[p].disk.generation
    /\ host[p].generation < MaxGeneration
    /\ drawn < MaxUpdates

Save(p) ==
    /\ Idle(p)
    /\ CanCommit(p)
    /\ drawn' = drawn + 1
    /\ Persist(p, "commit", Committed(host[p], drawn'))
    /\ UNCHANGED <<bin, safe, locks, uses, shown, acked, faults>>

RangeLeft(next) == next <= MaxNonce - Lease

Reserved(h) == [h.disk EXCEPT !.next = @ + Lease]

\* sc_outbound without a nonce left: the range is burnt before it is used.
\* The call goes on with Seal or SealFails.
Reserve(p) ==
    /\ Idle(p)
    /\ ~host[p].poisoned
    /\ host[p].nonce_next = host[p].nonce_limit
    /\ RangeLeft(host[p].disk.next)
    /\ Persist(p, "reserve", Reserved(host[p]))
    /\ UNCHANGED <<bin, safe, locks, uses, shown, acked, drawn, faults>>

\* sc_outbound seals with the next nonce.  A frame that changes the record is
\* released when its commit returns; any other leaves at once.
Seal(p) ==
    LET n == host[p].nonce_next
        h == [host[p] EXCEPT !.nonce_next = n + 1]
    IN  /\ Idle(p)
        /\ ~host[p].poisoned
        /\ n # host[p].nonce_limit
        /\ uses' = [uses EXCEPT ![n] = @ + 1]
        /\ \/ /\ host' = [host EXCEPT ![p] = h]
              /\ shown' = shown \cup h.record
              /\ drawn' = drawn
           \/ /\ CanCommit(p)
              /\ drawn' = drawn + 1
              /\ host' = [host EXCEPT ![p] =
                     [h EXCEPT !.call = "send", !.step = "write",
                               !.target = [Committed(h, drawn') EXCEPT !.whole = FALSE]]]
              /\ shown' = shown
        /\ UNCHANGED <<bin, safe, locks, acked, faults>>

\* The cryptographic provider fails: the nonce is burnt.
SealFails(p) ==
    /\ Idle(p)
    /\ ~host[p].poisoned
    /\ host[p].nonce_next # host[p].nonce_limit
    /\ host' = [host EXCEPT ![p].nonce_next = @ + 1]
    /\ UNCHANGED <<bin, safe, locks, uses, shown, acked, drawn, faults>>

-----------------------------------------------------------------------------
(***************************************************************************)
(* sc_host_initialize, sc_host_close, and the two ways to be cut off.      *)
(***************************************************************************)
Unlocked_Always(p) == p \notin locks

\* flock(LOCK_EX | LOCK_NB) succeeds.
Unlocked(p) == locks = {}

Open(p) ==
    /\ Unlocked(p)
    /\ bin.whole
    /\ locks' = locks \cup {p}
    /\ host' = [host EXCEPT ![p] = Opened(bin)]
    /\ UNCHANGED <<bin, safe, uses, shown, acked, drawn, faults>>

\* What p keeps in memory means nothing once it has let go of the store.
Forgotten == Opened(Created)

Close(p) ==
    /\ Idle(p)
    /\ locks' = locks \ {p}
    /\ host' = [host EXCEPT ![p] = Forgotten]
    /\ UNCHANGED <<bin, safe, uses, shown, acked, drawn, faults>>

Die(p) ==
    /\ p \in locks
    /\ faults < MaxFaults
    /\ faults' = faults + 1
    /\ locks' = locks \ {p}
    /\ host' = [host EXCEPT ![p] = Forgotten]
    /\ UNCHANGED <<bin, safe, uses, shown, acked, drawn>>

PowerLoss ==
    /\ faults < MaxFaults
    /\ faults' = faults + 1
    /\ bin' \in {bin, safe}
    /\ safe' = bin'
    /\ locks' = {}
    /\ host' = [p \in Procs |-> Forgotten]
    /\ UNCHANGED <<uses, shown, acked, drawn>>

-----------------------------------------------------------------------------
Init ==
    /\ bin = Created
    /\ safe = Created
    /\ locks = {}
    /\ host = [p \in Procs |-> Forgotten]
    /\ uses = [n \in Nonces |-> 0]
    /\ shown = {}
    /\ acked = {}
    /\ drawn = 0
    /\ faults = 0

Next ==
    \/ \E p \in Procs : Open(p) \/ Close(p) \/ Die(p)
    \/ \E p \in Procs : Save(p) \/ Reserve(p) \/ Seal(p) \/ SealFails(p)
    \/ \E p \in Procs, call \in Calls \ {"idle"} :
          \/ WriteTemporary(p, call)
          \/ RenameTemporary(p, call)
          \/ PersistFails(p, call)
          \/ SyncFails(p, call)
          \/ SyncDirectory(p, call)
    \/ PowerLoss

Spec == Init /\ [][Next]_vars

-----------------------------------------------------------------------------
(***************************************************************************)
(* Properties.                                                             *)
(***************************************************************************)

\* Every variable keeps its shape: generations and nonces stay within their
\* width.
TypeOK ==
    /\ bin \in Stored /\ safe \in Stored
    /\ locks \subseteq Procs
    /\ host \in [Procs -> Host]
    /\ uses \in [Nonces -> Nat]
    /\ shown \subseteq Updates /\ acked \subseteq Updates
    /\ drawn \in 0 .. MaxUpdates
    /\ faults \in 0 .. MaxFaults

\* No nonce is sealed with twice, whichever process holds the store, whatever
\* was cut off, and also when a lease or a commit failed half way.
NoncesNeverReused == \A n \in Nonces : uses[n] <= 1

\* A released frame rests only on updates that the worst power loss keeps: not
\* even a process that opened a record whose rename is not yet certain can
\* send from it before the record is.
ReleasedIsDurable == shown \subseteq safe.record

\* A commit that reported success survives everything.
AcknowledgedSurvives == acked \subseteq safe.record

\* Whenever the store is cut off, the next start finds a whole record.
Reopenable == bin.whole /\ safe.whole

\* The core and its provider agree on the record whenever no call is running,
\* so the generation comparison of the next commit cannot fail.
CopiesAgree ==
    \A p \in locks :
        /\ host[p].generation = host[p].disk.generation
        /\ host[p].record = host[p].disk.record

\* What survives a power loss is never replaced by an older generation or a
\* lower nonce mark, and loses no update.
DurableOnlyGrows ==
    [][/\ safe.generation <= safe'.generation
       /\ safe.next <= safe'.next
       /\ safe.record \subseteq safe'.record]_vars
=============================================================================
