------------------------- MODULE RecordStoreProofs --------------------------
(***************************************************************************)
(* RecordStore for every number of processes, lease length, width of the   *)
(* counters and number of faults.                                          *)
(*                                                                         *)
(* At most one process holds the store (Single).  What it may rely on is   *)
(* Holds: unless it is poisoned its copy is the file it would read back,   *)
(* or, between rename and directory sync, the one it replaced; and as long *)
(* as it has a nonce left, that copy also survives a power loss.  Sealing  *)
(* needs a nonce, and the first nonce of a process needs a persist: hence  *)
(* no frame rests on a record that is not yet certain.                     *)
(***************************************************************************)
EXTENDS RecordStore, TLAPS

\* t is a store that may replace s.
Below(s, t) ==
    /\ s.generation <= t.generation
    /\ s.next <= t.next
    /\ s.record \subseteq t.record

Single == \A p \in locks : \A q \in locks : p = q

\* The state h of a process that holds the store, over the files b and s.
Holds(h, b, s, u) ==
    /\ h.generation = h.disk.generation
    /\ h.record = h.disk.record
    /\ h.disk.whole
    /\ h.poisoned => h.call = "idle"
    /\ ~h.poisoned =>
          /\ b = IF h.call # "idle" /\ h.step = "sync" THEN h.target ELSE h.disk
          /\ Below(s, h.disk)
          /\ h.call # "idle" => Below(h.disk, h.target) /\ (h.step # "write" => h.target.whole)
          /\ h.call = "reserve" => /\ h.target.generation = h.disk.generation
                                   /\ h.target.record = h.disk.record
          /\ h.nonce_next # h.nonce_limit => s = h.disk
    /\ h.nonce_next <= h.nonce_limit
    /\ h.nonce_limit <= s.next
    /\ \A n \in Nonces : h.nonce_next <= n /\ n < h.nonce_limit => u[n] = 0

Used == \A n \in Nonces : uses[n] <= 1 /\ (uses[n] > 0 => n < safe.next)

Kept == shown \subseteq safe.record /\ acked \subseteq safe.record

Inv ==
    /\ TypeOK
    /\ Single
    /\ Below(safe, bin) /\ bin.whole /\ safe.whole
    /\ Used
    /\ Kept
    /\ \A p \in locks : Holds(host[p], bin, safe, uses)

-----------------------------------------------------------------------------
LEMMA CreatedType == Created \in Stored /\ Forgotten \in Host
  BY LeaseAssumption, BoundsAssumption
     DEF Created, Stored, Nonces, Forgotten, Opened, Host, Calls, Steps

LEMMA InitInv == Init => Inv
  BY CreatedType, BoundsAssumption
     DEF Init, Inv, TypeOK, Single, Below, Used, Kept, Created, Nonces

\* A step of the holder p alone, to the state h, over the files b and s.
LEMMA HolderStep ==
    ASSUME Inv, NEW p \in locks, NEW h \in Host,
           host' = [host EXCEPT ![p] = h], locks' = locks,
           Holds(h, bin', safe', uses')
    PROVE  /\ host' \in [Procs -> Host]
           /\ Single'
           /\ \A q \in locks' : Holds(host'[q], bin', safe', uses')
<1>1. p \in Procs /\ host \in [Procs -> Host] /\ \A q \in locks : q = p
  BY DEF Inv, TypeOK, Single
<1> QED
  BY <1>1 DEF Inv, Single

\* What the holder's invariant says of a running call.
LEMMA RunningFacts ==
    ASSUME Inv, NEW p \in Procs, NEW call \in Calls \ {"idle"}, NEW step,
           Running(p, call, step)
    PROVE  /\ p \in locks /\ host[p] \in Host /\ ~host[p].poisoned
           /\ host[p].call = call /\ host[p].step = step
           /\ Holds(host[p], bin, safe, uses)
  BY DEF Inv, TypeOK, Running, Holds, Host

LEMMA IdleFacts ==
    ASSUME Inv, NEW p \in Procs, Idle(p)
    PROVE  /\ p \in locks /\ host[p] \in Host /\ host[p].call = "idle"
           /\ Holds(host[p], bin, safe, uses)
  BY DEF Inv, TypeOK, Idle

-----------------------------------------------------------------------------
(***************************************************************************)
(* The steps of persist().                                                 *)
(***************************************************************************)
LEMMA WriteInv ==
    ASSUME Inv, NEW p \in Procs, NEW call \in Calls \ {"idle"},
           WriteTemporary(p, call)
    PROVE  Inv'
<1> DEFINE h == [host[p] EXCEPT !.step = "rename", !.target = Written(@)]
<1>1. /\ p \in locks /\ host[p] \in Host /\ ~host[p].poisoned
      /\ host[p].call = call /\ host[p].step = "write"
      /\ Holds(host[p], bin, safe, uses)
  BY RunningFacts DEF WriteTemporary
<1>2. /\ Written(host[p].target) \in Stored /\ Written(host[p].target).whole
      /\ Written(host[p].target).generation = host[p].target.generation
      /\ Written(host[p].target).record = host[p].target.record
  BY <1>1 DEF Host, Stored, Written
<1>3. h \in Host
  BY <1>1, <1>2 DEF Host, Steps
<1>4. Below(host[p].disk, Written(host[p].target))
  BY <1>1 DEF Holds, Below, Written, Host, Stored
<1>5. Holds(h, bin, safe, uses)
  BY <1>1, <1>2, <1>4 DEF Holds, Host
<1>6. host' = [host EXCEPT ![p] = h]
  BY DEF WriteTemporary
<1>7. UNCHANGED <<bin, safe, locks, uses, shown, acked, drawn, faults>>
  BY DEF WriteTemporary
<1>8. Holds(h, bin', safe', uses')
  BY <1>5, <1>7
<1>9. /\ host' \in [Procs -> Host] /\ Single'
      /\ \A q \in locks' : Holds(host'[q], bin', safe', uses')
  BY <1>1, <1>3, <1>6, <1>7, <1>8, HolderStep
<1> QED
  BY <1>7, <1>9 DEF Inv, TypeOK, Used, Kept
LEMMA RenameInv ==
    ASSUME Inv, NEW p \in Procs, NEW call \in Calls \ {"idle"},
           RenameTemporary(p, call)
    PROVE  Inv'
<1> DEFINE h == [host[p] EXCEPT !.step = "sync"]
<1>1. /\ p \in locks /\ host[p] \in Host /\ ~host[p].poisoned
      /\ host[p].call = call /\ host[p].step = "rename"
      /\ Holds(host[p], bin, safe, uses)
  BY RunningFacts DEF RenameTemporary
<1>2. /\ host' = [host EXCEPT ![p] = h] /\ bin' = host[p].target
      /\ UNCHANGED <<safe, locks, uses, shown, acked, drawn, faults>>
  BY DEF RenameTemporary
<1>3. h \in Host
  BY <1>1 DEF Host, Steps
<1>4. Holds(h, bin', safe, uses)
  BY <1>1, <1>2 DEF Holds, Host
<1>5. /\ host' \in [Procs -> Host] /\ Single'
      /\ \A q \in locks' : Holds(host'[q], bin', safe', uses')
  BY <1>1, <1>2, <1>3, <1>4, HolderStep
<1>6. bin' \in Stored /\ bin'.whole /\ Below(safe, bin')
  <2>1. /\ Below(safe, host[p].disk) /\ Below(host[p].disk, host[p].target)
        /\ host[p].target.whole
    BY <1>1 DEF Holds
  <2>2. safe \in Stored /\ host[p].disk \in Stored /\ host[p].target \in Stored
    BY <1>1 DEF Inv, TypeOK, Host
  <2> QED
    BY <1>2, <2>1, <2>2, BoundsAssumption, LeaseAssumption DEF Below, Stored, Nonces
<1> QED
  BY <1>2, <1>5, <1>6 DEF Inv, TypeOK, Used, Kept

LEMMA PersistFailsInv ==
    ASSUME Inv, NEW p \in Procs, NEW call \in Calls \ {"idle"},
           PersistFails(p, call)
    PROVE  Inv'
<1> DEFINE h == [host[p] EXCEPT !.call = "idle"]
<1>1. /\ p \in locks /\ host[p] \in Host /\ ~host[p].poisoned
      /\ host[p].call = call /\ host[p].step \in {"write", "rename"}
      /\ Holds(host[p], bin, safe, uses)
  BY RunningFacts DEF PersistFails
<1>2. /\ host' = [host EXCEPT ![p] = h]
      /\ UNCHANGED <<bin, safe, locks, uses, shown, acked, drawn, faults>>
  BY DEF PersistFails
<1>3. h \in Host
  BY <1>1 DEF Host, Calls
<1>4. Holds(h, bin, safe, uses)
  BY <1>1 DEF Holds, Host
<1>5. Holds(h, bin', safe', uses')
  BY <1>2, <1>4
<1>6. /\ host' \in [Procs -> Host] /\ Single'
      /\ \A q \in locks' : Holds(host'[q], bin', safe', uses')
  BY <1>1, <1>2, <1>3, <1>5, HolderStep
<1> QED
  BY <1>2, <1>6 DEF Inv, TypeOK, Used, Kept

LEMMA SyncFailsInv ==
    ASSUME Inv, NEW p \in Procs, NEW call \in Calls \ {"idle"},
           SyncFails(p, call)
    PROVE  Inv'
<1> DEFINE h == [host[p] EXCEPT !.call = "idle", !.poisoned = TRUE]
<1>1. /\ p \in locks /\ host[p] \in Host /\ Holds(host[p], bin, safe, uses)
  BY RunningFacts DEF SyncFails
<1>2. /\ host' = [host EXCEPT ![p] = h]
      /\ UNCHANGED <<bin, safe, locks, uses, shown, acked, drawn>>
  BY DEF SyncFails
<1>f. faults' \in 0 .. MaxFaults
  BY BoundsAssumption DEF SyncFails, Inv, TypeOK
<1>3. h \in Host
  BY <1>1 DEF Host, Calls
<1>4. Holds(h, bin, safe, uses)
  BY <1>1 DEF Holds, Host
<1>5. Holds(h, bin', safe', uses')
  BY <1>2, <1>4
<1>6. /\ host' \in [Procs -> Host] /\ Single'
      /\ \A q \in locks' : Holds(host'[q], bin', safe', uses')
  BY <1>1, <1>2, <1>3, <1>5, HolderStep
<1> QED
  BY <1>2, <1>f, <1>6 DEF Inv, TypeOK, Used, Kept

\* The persist is complete: the file that was renamed is now certain, and it
\* is one that may replace what was certain before.
LEMMA SyncFacts ==
    ASSUME Inv, NEW p \in Procs, NEW call \in Calls \ {"idle"},
           SyncDirectory(p, call)
    PROVE  /\ safe' = bin /\ bin = host[p].target
           /\ Below(safe, host[p].disk) /\ Below(host[p].disk, host[p].target)
           /\ Below(safe, bin)
<1>1. /\ host[p].call = call /\ host[p].step = "sync" /\ ~host[p].poisoned
      /\ Holds(host[p], bin, safe, uses)
  BY RunningFacts DEF SyncDirectory
<1> QED
  BY <1>1 DEF SyncDirectory, Settled, Holds, Inv

LEMMA SyncInv ==
    ASSUME Inv, NEW p \in Procs, NEW call \in Calls \ {"idle"},
           SyncDirectory(p, call)
    PROVE  Inv'
<1> DEFINE g == host[p]
<1> DEFINE h == Finished(g)
<1>1. /\ p \in locks /\ g \in Host /\ ~g.poisoned
      /\ g.call = call /\ g.step = "sync" /\ Holds(g, bin, safe, uses)
  BY RunningFacts DEF SyncDirectory
<1>2. /\ host' = [host EXCEPT ![p] = h]
      /\ UNCHANGED <<bin, locks, uses, drawn, faults>>
      /\ acked' \subseteq acked \cup g.target.record
      /\ shown' \subseteq shown \cup g.target.record
  BY DEF SyncDirectory
<1>3. /\ safe' = bin /\ bin = g.target /\ g.target.whole
      /\ Below(safe, g.disk) /\ Below(g.disk, g.target) /\ Below(safe, bin)
  BY <1>1, SyncFacts DEF Holds
<1>4. /\ g.disk \in Stored /\ g.target \in Stored /\ safe \in Stored
      /\ bin \in Stored /\ g.nonce_next \in Nonces /\ g.nonce_limit \in Nonces
  BY <1>1 DEF Host, Inv, TypeOK
<1>5. h \in Host
  BY <1>1, <1>4 DEF Finished, Host, Calls, Stored
<1>6. Holds(h, bin, bin, uses)
  <2>1. CASE g.call = "reserve"
    <3>1. /\ h.disk = g.target /\ h.call = "idle" /\ h.poisoned = g.poisoned
          /\ h.nonce_next = g.disk.next /\ h.nonce_limit = g.target.next
          /\ h.generation = g.generation /\ h.record = g.record
      BY <1>1, <2>1 DEF Finished, Host
    <3>2. g.target.generation = g.disk.generation /\ g.target.record = g.disk.record
      BY <1>1, <2>1 DEF Holds
    <3>3. g.disk.next <= g.target.next /\ safe.next <= g.disk.next
      BY <1>3 DEF Below
    <3>n. g.disk.next \in Nat /\ g.target.next \in Nat /\ safe.next \in Nat
      BY <1>4, LeaseAssumption DEF Stored, Nonces
    <3>4. ASSUME NEW n \in Nonces, g.disk.next <= n
          PROVE  uses[n] = 0
      <4>1. ~(n < safe.next)
        BY <3>3, <3>4, <3>n, LeaseAssumption DEF Nonces
      <4>2. uses[n] \in Nat /\ (uses[n] > 0 => n < safe.next)
        BY DEF Inv, TypeOK, Used
      <4> QED
        BY <4>1, <4>2
    <3>5. Below(bin, h.disk) /\ h.disk.whole
      BY <1>3, <1>4, <3>1, BoundsAssumption, LeaseAssumption DEF Below, Stored, Nonces
    <3>6. \A n \in Nonces : h.nonce_next <= n /\ n < h.nonce_limit => uses[n] = 0
      BY <3>1, <3>4
    <3>7. h.nonce_next <= h.nonce_limit /\ h.nonce_limit <= bin.next
      BY <1>3, <3>1, <3>3, <3>n
    <3>8. h.generation = h.disk.generation /\ h.record = h.disk.record
      BY <1>1, <3>1, <3>2 DEF Holds
    <3> QED
      BY <1>1, <1>3, <3>1, <3>5, <3>6, <3>7, <3>8 DEF Holds
  <2>2. CASE g.call # "reserve"
    <3>1. /\ h.disk = g.target /\ h.call = "idle" /\ h.poisoned = g.poisoned
          /\ h.nonce_next = g.nonce_next /\ h.nonce_limit = g.nonce_limit
          /\ h.generation = g.target.generation /\ h.record = g.target.record
      BY <1>1, <2>2 DEF Finished, Host
    <3> QED
      BY <1>1, <1>3, <1>4, <3>1 DEF Holds, Below, Stored, Nonces
  <2> QED
    BY <2>1, <2>2
<1>7. Holds(h, bin', safe', uses')
  BY <1>2, <1>3, <1>6
<1>8. /\ host' \in [Procs -> Host] /\ Single'
      /\ \A q \in locks' : Holds(host'[q], bin', safe', uses')
  BY <1>1, <1>2, <1>5, <1>7, HolderStep
<1>9. Used' /\ Kept'
  <2>1. safe.next <= bin.next /\ safe.record \subseteq bin.record
    BY <1>3 DEF Below
  <2>2. safe.next \in Nat /\ bin.next \in Nat
    BY <1>4, LeaseAssumption DEF Stored, Nonces
  <2>3. ASSUME NEW n \in Nonces
        PROVE  uses[n] <= 1 /\ (uses[n] > 0 => n < bin.next)
    <3>1. uses[n] <= 1 /\ (uses[n] > 0 => n < safe.next) /\ n \in Nat
      BY LeaseAssumption DEF Inv, Used, Nonces
    <3> QED
      BY <3>1, <2>1, <2>2
  <2>4. Used'
    BY <1>2, <1>3, <2>3 DEF Used
  <2>5. Kept'
    BY <1>2, <1>3, <2>1 DEF Inv, Kept
  <2> QED
    BY <2>4, <2>5
<1>10. Below(safe', bin') /\ safe'.whole /\ bin'.whole
  BY <1>2, <1>3, <1>4, BoundsAssumption, LeaseAssumption DEF Below, Stored, Nonces
<1>11. TypeOK'
  BY <1>2, <1>3, <1>4, <1>8 DEF Inv, TypeOK, Stored
<1> QED
  BY <1>8, <1>9, <1>10, <1>11 DEF Inv

-----------------------------------------------------------------------------
(***************************************************************************)
(* The calls that enter persist() or seal a frame.                         *)
(***************************************************************************)

\* A commit asks for a store that may replace the provider's copy.
LEMMA CommittedType ==
    ASSUME Inv, NEW h \in Host, h.generation = h.disk.generation,
           h.record = h.disk.record, h.generation < MaxGeneration,
           drawn < MaxUpdates
    PROVE  /\ Committed(h, drawn + 1) \in Stored
           /\ Below(h.disk, Committed(h, drawn + 1))
<1>1. h.disk \in Stored /\ h.record \subseteq Updates /\ h.generation \in 1 .. MaxGeneration
  BY DEF Host
<1>2. drawn + 1 \in Updates /\ h.generation + 1 \in 1 .. MaxGeneration
  BY <1>1, BoundsAssumption DEF Inv, TypeOK, Updates
<1>3. Committed(h, drawn + 1) \in Stored
  BY <1>1, <1>2 DEF Committed, Stored
<1>4. /\ Committed(h, drawn + 1).generation = h.disk.generation + 1
      /\ Committed(h, drawn + 1).next = h.disk.next
      /\ h.disk.record \subseteq Committed(h, drawn + 1).record
  BY <1>1 DEF Committed, Stored
<1> QED
  BY <1>1, <1>3, <1>4, BoundsAssumption, LeaseAssumption DEF Below, Stored, Nonces

LEMMA SaveInv ==
    ASSUME Inv, NEW p \in Procs, Save(p)
    PROVE  Inv'
<1> DEFINE g == host[p]
<1> DEFINE t == [Committed(g, drawn + 1) EXCEPT !.whole = FALSE]
<1> DEFINE h == [g EXCEPT !.call = "commit", !.step = "write", !.target = t]
<1>1. /\ p \in locks /\ g \in Host /\ g.call = "idle"
      /\ Holds(g, bin, safe, uses)
  BY IdleFacts DEF Save
<1>2. /\ ~g.poisoned /\ g.generation < MaxGeneration /\ drawn < MaxUpdates
      /\ g.generation = g.disk.generation /\ g.record = g.disk.record
  BY <1>1 DEF Save, CanCommit, Holds
<1>3. Committed(g, drawn + 1) \in Stored /\ Below(g.disk, Committed(g, drawn + 1))
  BY <1>1, <1>2, CommittedType
<1>4. t \in Stored /\ Below(g.disk, t)
  BY <1>3 DEF Stored, Below
<1>5. h \in Host
  BY <1>1, <1>4 DEF Host, Calls, Steps
<1>6. /\ host' = [host EXCEPT ![p] = h] /\ drawn' = drawn + 1
      /\ UNCHANGED <<bin, safe, locks, uses, shown, acked, faults>>
  BY DEF Save, Persist
<1>7. Holds(h, bin, safe, uses)
  BY <1>1, <1>2, <1>4 DEF Holds, Host
<1>8. Holds(h, bin', safe', uses')
  BY <1>6, <1>7
<1>9. /\ host' \in [Procs -> Host] /\ Single'
      /\ \A q \in locks' : Holds(host'[q], bin', safe', uses')
  BY <1>1, <1>5, <1>6, <1>8, HolderStep
<1>10. drawn' \in 0 .. MaxUpdates
  BY <1>2, <1>6, BoundsAssumption DEF Inv, TypeOK
<1> QED
  BY <1>6, <1>9, <1>10 DEF Inv, TypeOK, Used, Kept

LEMMA ReserveInv ==
    ASSUME Inv, NEW p \in Procs, Reserve(p)
    PROVE  Inv'
<1> DEFINE g == host[p]
<1> DEFINE t == [Reserved(g) EXCEPT !.whole = FALSE]
<1> DEFINE h == [g EXCEPT !.call = "reserve", !.step = "write", !.target = t]
<1>1. /\ p \in locks /\ g \in Host /\ g.call = "idle"
      /\ Holds(g, bin, safe, uses)
  BY IdleFacts DEF Reserve
<1>2. ~g.poisoned /\ g.nonce_next = g.nonce_limit /\ g.disk.next <= MaxNonce - Lease
  BY DEF Reserve, RangeLeft
<1>3. g.disk \in Stored /\ g.disk.next + Lease \in Nonces
  BY <1>1, <1>2, LeaseAssumption DEF Host, Stored, Nonces
<1>4. /\ t \in Stored /\ t.next = g.disk.next + Lease
      /\ t.generation = g.disk.generation /\ t.record = g.disk.record
  BY <1>3 DEF Reserved, Stored
<1>5. Below(g.disk, t)
  BY <1>3, <1>4, BoundsAssumption, LeaseAssumption DEF Below, Stored, Nonces
<1>6. h \in Host
  BY <1>1, <1>4 DEF Host, Calls, Steps
<1>7. /\ host' = [host EXCEPT ![p] = h]
      /\ UNCHANGED <<bin, safe, locks, uses, shown, acked, drawn, faults>>
  BY DEF Reserve, Persist
<1>8. Holds(h, bin, safe, uses)
  BY <1>1, <1>2, <1>4, <1>5 DEF Holds, Host
<1>9. Holds(h, bin', safe', uses')
  BY <1>7, <1>8
<1>10. /\ host' \in [Procs -> Host] /\ Single'
       /\ \A q \in locks' : Holds(host'[q], bin', safe', uses')
  BY <1>1, <1>6, <1>7, <1>9, HolderStep
<1> QED
  BY <1>7, <1>10 DEF Inv, TypeOK, Used, Kept

\* The holder's next nonce is unused, and its copy of the store is certain.
LEMMA NonceFacts ==
    ASSUME Inv, NEW p \in Procs, Idle(p), ~host[p].poisoned,
           host[p].nonce_next # host[p].nonce_limit
    PROVE  LET g == host[p] IN
           /\ p \in locks /\ g \in Host /\ g.call = "idle"
           /\ Holds(g, bin, safe, uses)
           /\ g.nonce_next \in Nonces /\ g.nonce_next + 1 \in Nonces
           /\ g.nonce_next < g.nonce_limit /\ g.nonce_next < safe.next
           /\ uses[g.nonce_next] = 0
           /\ safe = g.disk
<1> DEFINE g == host[p]
<1>1. /\ p \in locks /\ g \in Host /\ g.call = "idle"
      /\ Holds(g, bin, safe, uses)
  BY IdleFacts
<1>2. g.nonce_next \in Nonces /\ g.nonce_limit \in Nonces /\ safe.next \in Nonces
  BY <1>1 DEF Host, Inv, TypeOK, Stored
<1>3. g.nonce_next <= g.nonce_limit /\ g.nonce_limit <= safe.next /\ safe = g.disk
  BY <1>1 DEF Holds
<1>4. g.nonce_next < g.nonce_limit /\ g.nonce_next < safe.next /\ g.nonce_next + 1 \in Nonces
  BY <1>2, <1>3, LeaseAssumption DEF Nonces
<1>5. uses[g.nonce_next] = 0
  <2>1. g.nonce_next <= g.nonce_next /\ g.nonce_next < g.nonce_limit
    BY <1>2, <1>4, LeaseAssumption DEF Nonces
  <2> QED
    BY <1>1, <1>2, <2>1 DEF Holds
<1> QED
  BY <1>1, <1>2, <1>3, <1>4, <1>5

\* The holder after it took a nonce, whether or not it sealed with it.
LEMMA NonceTaken ==
    ASSUME NEW h \in Host, NEW b, NEW s \in Stored,
           NEW u \in [Nonces -> Nat], NEW v \in [Nonces -> Nat],
           Holds(h, b, s, u), h.nonce_next < h.nonce_limit,
           h.nonce_next + 1 \in Nonces, ~h.poisoned,
           \A n \in Nonces : n # h.nonce_next => v[n] = u[n]
    PROVE  LET k == [h EXCEPT !.nonce_next = h.nonce_next + 1]
           IN  k \in Host /\ Holds(k, b, s, v)
<1> DEFINE k == [h EXCEPT !.nonce_next = h.nonce_next + 1]
<1>1. k \in Host
  BY DEF Host
<1>2. /\ k.poisoned = h.poisoned /\ k.disk = h.disk /\ k.generation = h.generation
      /\ k.record = h.record /\ k.nonce_limit = h.nonce_limit /\ k.call = h.call
      /\ k.step = h.step /\ k.target = h.target /\ k.nonce_next = h.nonce_next + 1
  BY DEF Host
<1>3. h.nonce_next \in Int /\ h.nonce_limit \in Int
  BY LeaseAssumption DEF Host, Nonces
<1>4. ASSUME NEW n \in Nonces, k.nonce_next <= n, n < k.nonce_limit
      PROVE  v[n] = 0
  <2>1. h.nonce_next + 1 <= n /\ n < h.nonce_limit
    BY <1>2, <1>4
  <2>2. h.nonce_next <= n /\ n # h.nonce_next
    BY <1>3, <2>1, LeaseAssumption DEF Nonces
  <2>3. u[n] = 0
    BY <2>1, <2>2 DEF Holds
  <2> QED
    BY <2>2, <2>3
<1>5. s = h.disk
  BY <1>3 DEF Holds
<1> QED
  BY <1>1, <1>2, <1>3, <1>4, <1>5 DEF Holds

LEMMA SealFailsInv ==
    ASSUME Inv, NEW p \in Procs, SealFails(p)
    PROVE  Inv'
<1> DEFINE g == host[p]
<1> DEFINE h == [g EXCEPT !.nonce_next = g.nonce_next + 1]
<1>1. /\ p \in locks /\ g \in Host /\ Holds(g, bin, safe, uses) /\ ~g.poisoned
      /\ g.nonce_next + 1 \in Nonces /\ g.nonce_next < g.nonce_limit
  BY NonceFacts DEF SealFails
<1>2. /\ host' = [host EXCEPT ![p] = h]
      /\ UNCHANGED <<bin, safe, locks, uses, shown, acked, drawn, faults>>
  BY DEF SealFails
<1>3. safe \in Stored /\ uses \in [Nonces -> Nat]
  BY DEF Inv, TypeOK
<1>4. h \in Host /\ Holds(h, bin, safe, uses)
  BY <1>1, <1>3, NonceTaken
<1>5. Holds(h, bin', safe', uses')
  BY <1>2, <1>4
<1>6. /\ host' \in [Procs -> Host] /\ Single'
      /\ \A q \in locks' : Holds(host'[q], bin', safe', uses')
  BY <1>1, <1>2, <1>4, <1>5, HolderStep
<1> QED
  BY <1>2, <1>6 DEF Inv, TypeOK, Used, Kept
LEMMA SealInv ==
    ASSUME Inv, NEW p \in Procs, Seal(p)
    PROVE  Inv'
<1> DEFINE g == host[p]
<1> DEFINE n == g.nonce_next
<1> DEFINE h == [g EXCEPT !.nonce_next = n + 1]
<1>1. /\ p \in locks /\ g \in Host /\ g.call = "idle" /\ ~g.poisoned
      /\ Holds(g, bin, safe, uses)
      /\ n \in Nonces /\ n + 1 \in Nonces /\ n < g.nonce_limit /\ n < safe.next
      /\ uses[n] = 0 /\ safe = g.disk
  BY NonceFacts DEF Seal
<1>2. /\ uses' = [uses EXCEPT ![n] = uses[n] + 1]
      /\ UNCHANGED <<bin, safe, locks, acked, faults>>
  BY DEF Seal
<1>3. safe \in Stored /\ uses \in [Nonces -> Nat]
  BY DEF Inv, TypeOK
<1>4. uses' \in [Nonces -> Nat] /\ \A m \in Nonces : m # n => uses'[m] = uses[m]
  BY <1>1, <1>2, <1>3
<1>5. h \in Host /\ Holds(h, bin, safe, uses')
  BY <1>1, <1>3, <1>4, NonceTaken
<1>6. Used'
  BY <1>1, <1>2, <1>3 DEF Inv, Used
<1>7. CASE host' = [host EXCEPT ![p] = h] /\ shown' = shown \cup h.record /\ drawn' = drawn
  <2>1. Holds(h, bin', safe', uses')
    BY <1>2, <1>5
  <2>2. /\ host' \in [Procs -> Host] /\ Single'
        /\ \A q \in locks' : Holds(host'[q], bin', safe', uses')
    BY <1>1, <1>2, <1>5, <1>7, <2>1, HolderStep
  <2>3. h.record = safe.record
    BY <1>1 DEF Holds, Host
  <2>4. Kept' /\ shown' \subseteq Updates
    BY <1>2, <1>3, <1>7, <2>3 DEF Inv, TypeOK, Kept, Stored
  <2> QED
    BY <1>2, <1>4, <1>6, <1>7, <2>2, <2>4 DEF Inv, TypeOK
<1>8. CASE /\ CanCommit(p) /\ drawn' = drawn + 1 /\ shown' = shown
           /\ host' = [host EXCEPT ![p] =
                  [h EXCEPT !.call = "send", !.step = "write",
                            !.target = [Committed(h, drawn') EXCEPT !.whole = FALSE]]]
  <2> DEFINE t == [Committed(h, drawn + 1) EXCEPT !.whole = FALSE]
  <2> DEFINE k == [h EXCEPT !.call = "send", !.step = "write", !.target = t]
  <2>1. /\ h.generation = g.generation /\ h.disk = g.disk /\ h.record = g.record
        /\ h.poisoned = g.poisoned
    BY <1>1 DEF Host
  <2>2. /\ h.generation = h.disk.generation /\ h.record = h.disk.record
        /\ h.generation < MaxGeneration /\ drawn < MaxUpdates
    BY <1>1, <1>8, <2>1 DEF CanCommit, Holds
  <2>3. Committed(h, drawn + 1) \in Stored /\ Below(h.disk, Committed(h, drawn + 1))
    BY <1>5, <2>2, CommittedType
  <2>4. t \in Stored /\ Below(h.disk, t)
    BY <2>3 DEF Stored, Below
  <2>5. k \in Host
    BY <1>5, <2>4 DEF Host, Calls, Steps
  <2>6. h.call = "idle" /\ ~h.poisoned
    BY <1>1, <2>1 DEF Host
  <2>7. Holds(k, bin, safe, uses')
    BY <1>5, <2>4, <2>6 DEF Holds, Host
  <2>8. host' = [host EXCEPT ![p] = k] /\ drawn' = drawn + 1 /\ shown' = shown
    BY <1>8
  <2>9. Holds(k, bin', safe', uses')
    BY <1>2, <2>7
  <2>10. /\ host' \in [Procs -> Host] /\ Single'
         /\ \A q \in locks' : Holds(host'[q], bin', safe', uses')
    BY <1>1, <1>2, <2>5, <2>8, <2>9, HolderStep
  <2>11. drawn' \in 0 .. MaxUpdates
    BY <2>2, <2>8, BoundsAssumption DEF Inv, TypeOK
  <2>12. Kept'
    BY <1>2, <2>8 DEF Inv, Kept
  <2> QED
    BY <1>2, <1>4, <1>6, <2>8, <2>10, <2>11, <2>12 DEF Inv, TypeOK
<1> QED
  BY <1>7, <1>8 DEF Seal

-----------------------------------------------------------------------------
(***************************************************************************)
(* Opening, closing and being cut off.                                     *)
(***************************************************************************)
LEMMA OpenInv ==
    ASSUME Inv, NEW p \in Procs, Open(p)
    PROVE  Inv'
<1> DEFINE h == Opened(bin)
<1>1. /\ locks = {} /\ bin.whole /\ locks' = {p} /\ host' = [host EXCEPT ![p] = h]
      /\ UNCHANGED <<bin, safe, uses, shown, acked, drawn, faults>>
  BY DEF Open, Unlocked
<1>2. bin \in Stored /\ safe \in Stored /\ host \in [Procs -> Host] /\ Below(safe, bin)
  BY DEF Inv, TypeOK
<1>3. h \in Host
  BY <1>2, LeaseAssumption DEF Opened, Host, Stored, Nonces, Calls, Steps
<1>4. 0 <= safe.next
  BY <1>2, LeaseAssumption DEF Stored, Nonces
<1>5. /\ h.poisoned = FALSE /\ h.disk = bin /\ h.generation = bin.generation
      /\ h.record = bin.record /\ h.nonce_next = 0 /\ h.nonce_limit = 0
      /\ h.call = "idle"
  BY DEF Opened
<1>6. \A n \in Nonces : ~(h.nonce_next <= n /\ n < h.nonce_limit)
  BY <1>5, LeaseAssumption DEF Nonces
<1>7. Holds(h, bin, safe, uses)
  BY <1>1, <1>2, <1>4, <1>5, <1>6 DEF Holds
<1>8. host'[p] = h /\ host' \in [Procs -> Host]
  BY <1>1, <1>2, <1>3
<1>9. \A q \in locks' : Holds(host'[q], bin', safe', uses')
  BY <1>1, <1>7, <1>8
<1> QED
  BY <1>1, <1>8, <1>9 DEF Inv, TypeOK, Single, Used, Kept

\* Letting go of the store, with or without a fault.
LEMMA LeaveInv ==
    ASSUME Inv, NEW p \in Procs, locks' = locks \ {p},
           host' = [host EXCEPT ![p] = Forgotten], faults' \in 0 .. MaxFaults,
           UNCHANGED <<bin, safe, uses, shown, acked, drawn>>
    PROVE  Inv'
<1>1. host' \in [Procs -> Host] /\ \A q \in locks' : q \in locks /\ host'[q] = host[q]
  BY CreatedType DEF Inv, TypeOK
<1>2. \A q \in locks' : Holds(host'[q], bin', safe', uses')
  BY <1>1 DEF Inv
<1> QED
  BY <1>1, <1>2 DEF Inv, TypeOK, Single, Used, Kept

LEMMA PowerLossInv ==
    ASSUME Inv, PowerLoss
    PROVE  Inv'
<1>1. /\ locks' = {} /\ host' = [p \in Procs |-> Forgotten]
      /\ bin' \in {bin, safe} /\ safe' = bin'
      /\ UNCHANGED <<uses, shown, acked, drawn>>
  BY DEF PowerLoss
<1>2. faults' \in 0 .. MaxFaults
  BY BoundsAssumption DEF PowerLoss, Inv, TypeOK
<1>3. bin \in Stored /\ safe \in Stored /\ Below(safe, bin)
  BY DEF Inv, TypeOK
<1>4. bin' \in Stored /\ safe' \in Stored /\ bin'.whole /\ safe'.whole
  BY <1>1, <1>3 DEF Inv
<1>5. Below(safe, safe') /\ Below(safe', bin')
  BY <1>1, <1>3, BoundsAssumption, LeaseAssumption DEF Below, Stored, Nonces
<1>6. Kept'
  BY <1>1, <1>5 DEF Inv, Kept, Below
<1>7. Used'
  <2>1. safe.next \in Nat /\ safe'.next \in Nat /\ safe.next <= safe'.next
    BY <1>3, <1>4, <1>5, LeaseAssumption DEF Stored, Nonces, Below
  <2>2. \A n \in Nonces : uses[n] <= 1 /\ (uses[n] > 0 => n < safe.next) /\ n \in Nat
    BY LeaseAssumption DEF Inv, Used, Nonces
  <2> QED
    BY <1>1, <2>1, <2>2 DEF Used
<1> QED
  BY <1>1, <1>2, <1>4, <1>5, <1>6, <1>7, CreatedType DEF Inv, TypeOK, Single

-----------------------------------------------------------------------------
LEMMA NextInv == Inv /\ [Next]_vars => Inv'
<1> SUFFICES ASSUME Inv, [Next]_vars PROVE Inv'
  OBVIOUS
<1>1. ASSUME NEW p \in Procs, Open(p) \/ Close(p) \/ Die(p) PROVE Inv'
  <2>1. CASE Open(p)
    BY <2>1, OpenInv
  <2>2. CASE Close(p)
    <3>1. faults' \in 0 .. MaxFaults
      BY <2>2 DEF Close, Inv, TypeOK
    <3> QED
      BY <2>2, <3>1, LeaveInv DEF Close
  <2>3. CASE Die(p)
    <3>1. faults' \in 0 .. MaxFaults
      BY <2>3, BoundsAssumption DEF Die, Inv, TypeOK
    <3> QED
      BY <2>3, <3>1, LeaveInv DEF Die
  <2> QED
    BY <1>1, <2>1, <2>2, <2>3
<1>2. ASSUME NEW p \in Procs, Save(p) \/ Reserve(p) \/ Seal(p) \/ SealFails(p) PROVE Inv'
  BY <1>2, SaveInv, ReserveInv, SealInv, SealFailsInv
<1>3. ASSUME NEW p \in Procs, NEW call \in Calls \ {"idle"},
             \/ WriteTemporary(p, call) \/ RenameTemporary(p, call)
             \/ PersistFails(p, call) \/ SyncFails(p, call) \/ SyncDirectory(p, call)
      PROVE  Inv'
  BY <1>3, WriteInv, RenameInv, PersistFailsInv, SyncFailsInv, SyncInv
<1>4. CASE PowerLoss
  BY <1>4, PowerLossInv
<1>5. CASE UNCHANGED vars
  BY <1>5 DEF vars, Inv, TypeOK, Single, Used, Kept
<1> QED
  BY <1>1, <1>2, <1>3, <1>4, <1>5 DEF Next

\* Inv is inductive: it holds of a new store, and every system call, death and
\* power loss keeps it.
THEOREM Invariance == Spec => []Inv
  BY InitInv, NextInv, PTL DEF Spec

\* Generations and nonces stay within their width: the last range is refused
\* before the counter would pass its end.
THEOREM StoreTypeCorrect == Spec => []TypeOK
<1>1. Inv => TypeOK
  BY DEF Inv
<1> QED
  BY <1>1, Invariance, PTL

\* The core and its provider never disagree on the record or its generation.
THEOREM CoreAndProviderAgree == Spec => []CopiesAgree
<1>1. Inv => CopiesAgree
  BY DEF Inv, Holds, CopiesAgree
<1> QED
  BY <1>1, Invariance, PTL

\* No nonce is sealed with twice, however many processes compete for the
\* store and wherever a call is cut off.
THEOREM NonceUniqueness == Spec => []NoncesNeverReused
<1>1. Inv => NoncesNeverReused
  BY DEF Inv, Used, NoncesNeverReused
<1> QED
  BY <1>1, Invariance, PTL

\* A released frame rests only on updates that the worst power loss keeps.
THEOREM FramesRestOnDurableRecords == Spec => []ReleasedIsDurable
<1>1. Inv => ReleasedIsDurable
  BY DEF Inv, Kept, ReleasedIsDurable
<1> QED
  BY <1>1, Invariance, PTL

\* A commit that reported success survives everything.
THEOREM CommitsSurvive == Spec => []AcknowledgedSurvives
<1>1. Inv => AcknowledgedSurvives
  BY DEF Inv, Kept, AcknowledgedSurvives
<1> QED
  BY <1>1, Invariance, PTL

\* Whenever the store is cut off, the next start finds a whole record.
THEOREM AlwaysReopenable == Spec => []Reopenable
<1>1. Inv => Reopenable
  BY DEF Inv, Reopenable
<1> QED
  BY <1>1, Invariance, PTL

\* What survives a power loss is never replaced by something older.
THEOREM DurabilityNeverRegresses == Spec => DurableOnlyGrows
<1>1. ASSUME Inv, Inv', [Next]_vars
      PROVE  Below(safe, safe')
  <2>1. Below(safe, safe)
    <3>1. safe.generation \in Nat /\ safe.next \in Nat
      BY <1>1, BoundsAssumption, LeaseAssumption DEF Inv, TypeOK, Stored, Nonces
    <3> QED
      BY <3>1 DEF Below
  <2>2. CASE \E p \in Procs, call \in Calls \ {"idle"} : SyncDirectory(p, call)
    BY <1>1, <2>2, SyncFacts
  <2>3. CASE PowerLoss
    BY <1>1, <2>1, <2>3 DEF PowerLoss, Inv
  <2>4. CASE safe' = safe
    BY <2>1, <2>4
  <2>5. ASSUME NEW p \in Procs,
               \/ Open(p) \/ Close(p) \/ Die(p)
               \/ Save(p) \/ Reserve(p) \/ Seal(p) \/ SealFails(p)
        PROVE  safe' = safe
    BY <2>5 DEF Open, Close, Die, Save, Reserve, Seal, SealFails
  <2>6. ASSUME NEW p \in Procs, NEW call \in Calls \ {"idle"},
               \/ WriteTemporary(p, call) \/ RenameTemporary(p, call)
               \/ PersistFails(p, call) \/ SyncFails(p, call)
        PROVE  safe' = safe
    BY <2>6 DEF WriteTemporary, RenameTemporary, PersistFails, SyncFails
  <2>7. CASE UNCHANGED vars
    BY <2>4, <2>7 DEF vars
  <2> QED
    BY <1>1, <2>2, <2>3, <2>4, <2>5, <2>6, <2>7 DEF Next
<1>2. Inv /\ Inv' /\ [Next]_vars =>
          [/\ safe.generation <= safe'.generation
           /\ safe.next <= safe'.next
           /\ safe.record \subseteq safe'.record]_vars
  BY <1>1 DEF Below
<1> QED
  BY <1>2, Invariance, PTL DEF Spec, DurableOnlyGrows
=============================================================================
