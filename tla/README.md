# A verification project for simple-crypts

simple-crypts synchronizes small groups of typed values between one server and
one device over any link that can carry frames. The frames are sealed with
NaCl box; the link may lose, delay, repeat or reorder them; both ends may lose
power at any moment. This directory holds TLA+ models of that system, the TLC
configurations that check them on small instances, and theorems about them
that TLAPS proves for every value of the constants.

Every definition is translated from the C and JavaScript in this repository.
`PROJECT.json` names, for each definition, the lines it stands for.

## 1. The system

| component | state | operations | hard behaviour |
|---|---|---|---|
| **Resource engine** `src/core/sc.c`, `data.inc` | per group: values, frozen snapshot, request / snapshot / acknowledged / last-sent ids, three pending flags; the transmission cursor | `sc_data_update_group`, `sc_data_request`, `sc_outbound`, `sc_receive_at`, `sc_init` | a record commit may fail after it took effect; any frame may come late, twice or never |
| **Credits** `src/modules/credits` | the group of the default schema: issued (server), consumed (device) | set total, consume, request status | the totals live on two sides that restart independently |
| **Enrollment** `src/core/sc.c` | mode, registered, peer key, challenge, expiry, candidate; the volatile confirmation flag | enable, begin, cancel, approve, invitation, claim, confirmation | claims of replaced sessions; several devices with one serial; a confirmation that is never stored |
| **Host store and nonce leases** `src/providers/host/sc_host.c`, `next_nonce` | one file: record, generation, nonce mark; the lock; the process's copy | open, commit, reserve, seal, close | death or power loss between write, rename and directory sync |
| Core encodings | none | value and packet encoding, schema and UTF-8 checks | boundaries of lengths and ranges |
| Cryptography provider `src/providers/sodium` | key handles | seal, open, sign, verify | none of its own |
| Browser endpoint `src/examples/common` | Wasm memory, one IndexedDB checkpoint | the core's calls, suspended in storage | one input buffer across suspensions; a failed transaction |
| **Fleet manager worker** `fleet_manager/worker.mjs`, `transport.mjs` | fleet rows, endpoints, the command queue | create, reset, start, stop, connect, approve, update, exchange | row and checkpoints are separate transactions; each may fail, and the tab may close between them |
| Fleet manager page `fleet_manager/app.mjs` | busy page, drawn consoles, their order and line history | actions, answers, console lines | consoles that outlive the device they were drawn for; a worker that stops |
| **QT Py link** `qtpy-serial.mjs`, `main.c`, `wire.c` | one pending command, a sequence, bytes under way | open, command, close; receive loop | timeouts with unknown outcome, reconnects, bytes of another program |
| **QT Py sessions** `qtpy-session.mjs`, `qtpy-fleet.mjs`, `qtpy.mjs` | saved row and host, the last state read from the board; the Web Lock | connect, register, approve, update, exchange, disconnect | state read awaits ago; two tabs, one host identity |
| **QT Py flash store** `src/examples/embedded/qtpy_rp2040/store.c` | a ring of 32 flash sectors with one snapshot each, a sector for the intent to reset; fault, active sector, sequence, snapshot in memory | open, save, commit, reserve, reset | failure or power loss inside any erase or page program; decay |
| QT Py firmware `app.c`, `main.c`, `wire.c`, `controls.c`, `entropy.c` | the core, button and LED, entropy pool | setup, reset, reboot, serial commands | which commands a fault still admits |
| **Web lab** `src/web/lab.mjs` | two workers and their calls, epoch, packets | reset, provision, command, transmit, deliver, stop | operations in flight when a reset replaces the workers |
| **Guided tour** `src/web/app.mjs` | chapter, step, exercise, packet in hand | drag, drop, corrupt, next, restart | the visitor does something else than the guide says |
| Device console, bindings, adapters, tools, docs | no protocol state of their own | | |

The application calls the core; the core calls its provider for storage, nonces
and cryptography; the two cores meet only through frames. Every change of a
core's state is one `save()`: encode the whole record, let the provider commit
it under the expected generation, and only then replace the record in RAM.
Everything else follows from that order. Above the core, the browser programs
add a layer each: the fleet page posts to a worker (`FleetWorker`) or calls a
session (`HardwareSession`) that talks to the board over a link (`SerialLink`),
and the demo (`Tour`) draws what the lab (`Lab`) keeps. A layer is modelled over
what the one below promises.

What makes each part correct:

* *Resource engine.* Totals never roll back; what is acknowledged is recorded;
  the answers to one request are all the same; nothing leaves before the record
  that mentions it is durable; honest frames are never rejected, however late;
  the stored record always loads; and requests are in the end answered.
* *Credits.* Reported spending <= spending <= accepted grant <= grant, in any
  pair of records the two sides may restart from.
* *Enrollment.* A device that believes it is registered is right; a session that
  ended registers nobody; registration is final; and it completes, unless a late
  invitation displaces the session (section 6).
* *Host store.* No nonce twice; frames and reported commits rest on records no
  power loss can take back; the store always reopens.
* *Flash store.* One value, replaced atomically: a boot finds the snapshot a
  caller was told of or the one in flight, stays with it, and stops where it
  cannot know which it is; no nonce twice; a reset once begun is final, and ends.
* *Worker, sessions.* However work is cut off, what is saved can be taken up
  again; an approval approves what was displayed; what is reported as done is
  done; two sides that exchange fall silent, or the exchange fails on a request the
  board cannot take yet (section 6); and every operation ends.
* *Link.* Answers are taken in the order of the calls, and none twice; a command runs
  at most once; every call is settled; and a command that changes the board takes its
  own answer (true of two connections, not of three: section 6).
* *Lab, tour.* Nothing of a session that was replaced is shown or delivered; no
  operation waits for ever, unless for a worker that had failed to load; and what the
  guide says of the two sides is so, one sentence excepted (section 6).

## 2. Modules

| module | what it is |
|---|---|
| `ResourceSync` | the resource engine of both sides, their storage and the network |
| `ResourceSyncLive` | the same over a network that loses frames, with fairness |
| `Credits` | `ResourceSync` with the credits schema, its validator and calls |
| `CreditsLedger` | abstract: four totals, each learned from the one before |
| `Enrollment` | one server context and several devices of its serial |
| `EnrollmentLive` | the same over a network that loses frames, with fairness; every run of `Enrollment` checks it |
| `RecordStore` | the host store, one action per system call, under nonce leases |
| `DurableRegister` | abstract: one durable value, replaced atomically |
| `FlashStore` | the QT Py flash store, one action per erase or page program |
| `FlashStoreLive` | the same with fairness |
| `ResourceSyncProofs` | the inductive invariants of one record, of totals, and of pairs of frames and records; eight theorems about `ResourceSync`; and under the schema of `Credits`, the chain of totals, the refinements of the ledger and of `ManagedGroup`, and what the engine's theorems give for credits |
| `EnrollmentProofs` | the inductive invariant of `Enrollment` and five theorems |
| `RecordStoreProofs` | the inductive invariant of `RecordStore` and seven theorems |
| `FlashStoreProofs` | the inductive invariant of `FlashStore`, five theorems, and that it implements `DurableRegister` |
| `SerialCalls` | abstract: commands that run at most once, and calls that may give up |
| `SerialLink` | one owned serial port with deadlines; implements `SerialCalls` |
| `SerialLinkProofs` | the inductive invariant of `SerialLink`, whose answer a call takes, and the refinement of `SerialCalls` |
| `ManagedPair` | host and device as a page sees them: what each call makes of a record |
| `ManagedGroup` | abstract: the two records of an enrolled pair, and a network between them |
| `HardwareSession` | a page, its host identity and a board, over `SerialCalls` |
| `HardwareSessionProofs` | the inductive invariant of `HardwareSession`, step by step of an operation, and four theorems |
| `FleetWorker` | the fleet worker, its transactions and its queue |
| `FleetWorkerProofs` | the inductive invariant of `FleetWorker`, await by await of a handler, and three theorems |
| `Lab` | the demo's two workers and the operations on them |
| `Tour` | the guide and the visitor over the lab's packets |
| `LabProofs` | the inductive invariant of `Lab` and two theorems |
| `MC*` | instances for TLC |

Three conventions hold everywhere. A definition carries the name of the C
function or field it models. `ctx` is what is in RAM and `disk` what is in
storage. A definition `X_Y` is `X` with a plausible mistake `Y`; it is used only
to show that a property notices the mistake.

### ResourceSync

`ctx[r][g]` and `disk[r][g]` are the `sc_group_state` of role `r` for group `g`.
A call computes the next state `s` and ends in `Save`, which is either `Commit`
(storage and RAM change together, as `save()` does on success) or `CommitFails`:
storage holds the old or the new record, RAM keeps the old one, and the handle
is `poisoned` until `Restart` reloads `disk`. A commit that fails cleanly
changes nothing and is not an action. `net` is the set of frames released so
far: a frame in it may be delivered at any later time, any number of times, and
in any order. Not delivering it at all is always possible.

| code | action |
|---|---|
| `sc_data_update_group` | `UpdateGroup(r, g, w)`; `w` is the whole new vector of the group |
| `sc_data_request` | `DataRequest(g)` |
| `sc_outbound`, `make_packet` for a group | `OutboundGroup(r, g)`: select by cursor, build, commit the sent id, release, move the cursor |
| `sc_outbound`, confirmation | `OutboundConfirmation` |
| `sc_receive_at`, `receive_data` | `ReceiveRequest`, `ReceiveSnapshot`, `ReceiveReceipt` |
| `receive_report`, repeated claim | `ReceiveClaim` |
| `sc_init`, `restore` | `Restart(r)` |

Frames that the code rejects change nothing; the predicates `...Rejects...` say
which those are, and `HonestFramesAccepted` says that none of the frames in
`net` ever is one. Field types, encodings and sealing are abstracted: a frame
is the record of what it carries, and `ValidValues` stands for `values_valid`
and the group's validator.

### Credits

The two fields, their owners and the validator are constants of `ResourceSync`;
`CreditsSchema` says that they have the values of `schema/resources.json`; the
instance for TLC assumes it, and it is the hypothesis of the theorems about credits.
`Ledger` maps the stored totals of the two sides to `CreditsLedger`.

### Enrollment

One server context and the devices configured with its key and the same serial.
A challenge is a number drawn once (`random` never repeats), 0 is the zero
challenge, `Secret` stands for the legacy shared secret and for no token at
all. A frame is accepted only from the key it names, which is what the
signature and the box give. `candidate_revision` is set exactly when
`candidate_key` is, so one variable stands for both. `now` is the clock the
application passes in. `ended` is a history variable. In `EnrollmentLive`, `net` stays the history
of what was sent; `lost` holds the frames lost since they were last sent, which are
not delivered until the sender sends them again.

### RecordStore

`bin` is what a process that opens the store reads; `safe` is what the worst
power loss would leave. `rename` changes `bin`; only the directory sync makes
`safe` follow. `host[p]` is what process `p` has in memory: the provider's copy
of the file, the core's generation and record, the nonce lease and the persist
in progress. The record is the set of the updates it contains. `Die` and
`PowerLoss` may come between any two system calls. `uses`, `shown` and `acked`
are history variables.

`RecordStore` is the ground on which `ResourceSync` and `Enrollment` treat a
commit as one step with an uncertain outcome. A process that reopens the store
after a death, or after a failed directory sync, may read a record that a later
power loss still takes back. The other models resolve that at the failure. They
may: to seal a frame the process needs a nonce, its first nonce needs a
reservation, and the reservation persists the whole file, so no frame and no
reported commit rests on an uncertain record. That is `ReleasedIsDurable` and
`AcknowledgedSurvives`. What remains outside is what needs no nonce: a value
that was only displayed, and a signed invitation.

### FlashStore

`flash[i]` is a snapshot sector: its body pages, its commit page (`mark`) and
the snapshot written to it under its sequence. An area is `blank`, `whole` (what
the code programs, with a valid checksum) or `torn`; that is all `decode`
distinguishes. `intent` is the page of the reset sector. `job` is the call in
progress: `qt_store_save` and `qt_store_reset` run to their end without another
command in between, and each erase and each page program is a step of its own.
Such a step happens, or is cut off: the area keeps its old content, or ends
`torn`, or the effect is complete although the driver, the read-back or the power
failed. Afterwards the firmware is either in `fault` or without power.

| code | action |
|---|---|
| `qt_store_open` | `OpenRecovers`, `OpenFindsNothing`, `OpenRefuses` (a malformed commit page or body, one sequence twice), `OpenReadFails`, `OpenResumesReset` |
| `qt_store_save` called by `setup`, `qt_store_commit`, `qt_store_reserve` | `SaveIdentity`, `StoreCommit`, `StoreReserve`, each with `Save`: refused at the last sequence, or the job begins |
| the body of `qt_store_save` | `SaveErases`, `SaveProgramsBody` (once per page), `SaveCommits`; cut off: `SaveEraseCut`, `SaveBodyCut`, `SaveMarkCut` |
| `qt_store_reset` | `Reset`, `ResetRecords`, `ResetErases` (once per sector), `ResetFinishes`; cut off: `ResetRecordCut`, `ResetEraseCut`, `ResetFinishCut` |
| `QT_REBOOT`, or power lost between two calls | `Reboot` |
| a bit of a written page changes | `Decay`; the commit page stays nonblank, a single bit cannot blank it |

Some choices need a word. A failed `erase` or `program` may have had its whole
effect, which includes the failing read-back. `SaveIdentity` draws a new
identity each time, since the seed is fresh; the commits and reservations which
`sc_init` and `sc_receive_at` make after it are `StoreCommit` and
`StoreReserve`. The core asks for the generation it read or wrote last, so
`StoreCommit` has no conflict branch. After a reset the code also reboots; the
model lets the firmware serve the empty store in either case, as it does after
a reset resumed by `qt_store_open`. Commands that end in an error before they
touch the flash change nothing and are not actions; after a fault only reset and
reboot are admitted (`Ready`). `witnessed`, `ranges` and `retired` are history
variables: the newest snapshot any caller was told of, the nonce ranges handed
out, and the identities that a reset has given up.

`RegisterSpec` maps the ring to `DurableRegister`: its value is the snapshot in
memory while the firmware serves, else `witnessed`; its pending write is the
running save or, after a cut, the image on the flash that the next boot will
find. `Decay` is invisible to it: a decayed slot stays nonblank, so the boot
stops instead of forgetting it.

### ManagedPair

`Enrollment` and `ResourceSync` model the core in detail. A page needs less of it:
`ManagedPair` gives, for a committed record of each side, the frame it would send
next (`HostFrame`, `DeviceFrame`), what sending and receiving make of it, and which
frames are refused. Credit values are left out. It has operators only and is
checked through `HardwareSession`, `FleetWorker` and `Tour`, whose frames and
records are its own. That its account of an enrolled pair is the engine's is proved:
`ManagedGroup` lets the two records act over a network, and `Credits` implements it
(`PairSpec`).

### SerialLink and SerialCalls

| code | action of `SerialLink` |
|---|---|
| `SerialLink.open`, `close` | `Open`, `Close`, `PortCloses` |
| `command`: refused, or written with the next sequence | `Command(c)` |
| the deadline of `command`; `fail` | `Timeout`, `PortFails` |
| `read`: a frame that is damaged, that nobody waits for, that answers | `ReadReply` |
| `qt_rpc` | `BoardRuns(status)` |
| USB | `FrameLost`, `Unplugged` |

Each connection starts again at sequence 0, and what was under way when the port
was closed is still there when it is opened again. Matching numbers are therefore not
enough, and `OwnAnswer` says how far the code goes beyond them. Every connection
inspects first, and the port keeps order. So a late answer can be taken by the first
call of a connection, when it answers an inspection (`Borrowed`), and by a later call
only if that first one was borrowed, and if the late answer's own connection had gone
on in the same way. That takes three connections in a row:

1. the first connection's inspection times out;
2. the second takes the answer to it for the answer to its own inspection, and its
   next command, say `receive`, times out;
3. the board works off both; the third connection takes the second's inspection
   answer for its own, and its `receive` the second's, which has the same number.

`SerialCalls` says the same in terms of calls: `Return(j)` hands the answer of call `j`
to the running call.

A frame is what it carries, or `Garbage`: COBS, the CRC and the receive buffers of
both ends are not modelled. `Promise` of `SerialCalls` includes that no call waits
for ever; the link keeps it because the deadline is a timer.

### HardwareSession

`op` is the operation in progress and the await it is in; a command to the board is
`Answered` (it ran), or `Rejected`: the call gives up and the board has or has not
run it, now. That is what `SerialCalls` promises, and `SerialLink` is shown to keep,
with two restrictions: no answer is borrowed, and a command whose call gave up runs
before the next one is called or never. The wire keeps the board from running it
later than that next one; what is left out is only that the board is reset, rebooted
or registered elsewhere in between.

| code | action of `HardwareSession` |
|---|---|
| `HardwareFleet.connect`, `HardwareSession.connect`, `restore` | `Connect`, `Inspect`, `Restore` |
| `register` | `Command("register")`, `Identity`, `SaveRow`, `Begin`, `Setup`, `Check`, `Entropy`, then the exchange |
| `approve`, `update` | `Command`, `Check`, `Entropy`, `Approve` or `Update`, then the exchange |
| `exchange` | `Send`, `Forward`, `Collect`, `Take`, `Decide`, `Last` |
| the world | `UsbLost`, `BoardReboots`, `FactoryReset`, `RegisteredElsewhere`, `Reload`, `Disconnect` |

### FleetWorker

`disk` is what IndexedDB holds (the row and two checkpoints), `entry` what the
worker has in memory, `tasks` the handlers that have started and the await each is
in. The worker handles one message after another (`Start`); the model keeps every
handler a task of its own so that a mutant without the queue can be expressed.

| code | action of `FleetWorker` |
|---|---|
| `onmessage`, the queue | `Post`, `Start` |
| `create` | `CreateRow`, `CreateServer`, `CreateDevice`, `CreateReady` |
| start, stop, connection, `reset` | `OpenDevice`, `SaveRow`, `Reset` |
| enrollment, approval, requests | `HostCommand` |
| `exchange` of `transport.mjs` | `Exchange`, `Send`, `Receive`, `Settle` |
| a tab closed and opened again | `Reload` |

Every transaction may fail, which breaks that endpoint until it is reopened.

### Lab and Tour

In `Lab` a caller's operation is split at each await of `raw`: `Answer(role)`
resolves the oldest call of a worker and runs its operation on to the next await
or to its end. A result carries the epoch of the worker that gave it.

`Tour` runs on the other side of the same queue: `run()` of `app.mjs` lets one
handler in at a time, so that a handler is one action, except for a drag, which
picks a packet up in one and lets it go in another. `world` is what the lab holds;
`held` is the one drag, native (`dragged`) or by the pointer (`touch`); `intro()`
forgets the former only, `startChapter` ends both. `guide` is what the page tells the
visitor. Its chapters, steps and exercises are those of `lab.mjs`'s `tour` and of `place()`.

## 3. What is checked

All runs finish; none uses a state constraint. Deadlock is not checked: every
model has bounded counters and really stops when they are used up. Two runs expect a
violation: each checks what a document of the repository says and the code does not do
(section 6).

| run | instance | shows |
|---|---|---|
| `credits` | one group, values 0..2, ids 0..3, 2 faults, one claim still in the network; 441,975 states | `CreditChain`, `HonestFramesAccepted`, `ReleasedIsDurable`, `Restorable`, `FrozenAnswers`, `AcknowledgedIsRecorded`, `NoRollback`, and `LedgerSpec`: the stored totals implement `CreditsLedger` |
| `sync_live` | two groups with one server-owned field each, values 0..1, ids 0..1, 1 fault, lossy network, the frames of one group withheld at will; 60,585 | `RequestAnswered`, `ResponseAcknowledged` for the second: the cursor passes the stuck one |
| `enrollment` | two devices, two sessions, clock 0..2, 1 fault, lossy network, the traffic of one device withheld at will; 174,420 | `RecordsSound`, `ConfirmedByServer`, `CandidateAnsweredSession`, `EndedSessionRegistersNobody`, `RegistrationIsFinal`; and `EnrollmentCompletesUnlessDisplaced` for the other device |
| `enrollment_replaced` | one device, two sessions, no fault | `EnrollmentCompletes` fails: see section 6 |
| `record_store` | two processes, leases of 2 nonces, 4 updates, 3 faults; 155,968 | `NoncesNeverReused`, `ReleasedIsDurable`, `AcknowledgedSurvives`, `Reopenable` |
| `flash_store` | three sectors of two body pages, 4 sequences, 2 identities, 2 nonce domains, 2 failures, fairness; 423,318 | `RangesDisjoint`, `ResetIsFinal`, `ResetCompletes`, and `RegisterSpec`: the ring implements `DurableRegister` |
| `serial_link` | five calls, two of them on one connection, three connections, one lost or damaged frame, fairness; 250,367 | `OwnAnswer`, and `CallsSpec`: the link implements `SerialCalls`, settling every call |
| `hardware_session` | two host sessions, three board keys, three requests, three faults, fairness; 111,299 | `PinnedHostIsSaved`, `RegisteredTogether`, `ExchangeSettles`, `SuccessIsReal`, `OperationEnds` |
| `report_refused` | one host session, one board key, one request, one fault | `RequestReportRestores` fails: see section 6 |
| `fleet_worker` | five messages, two waiting, two faults, fairness; 248,176 | `SavedStateSound`, `ExchangeSettles`, `SuccessIsReal`, `EveryMessageAnswered` |
| `lab_session` | two callers, three resets or stops, a relay of two of three packets, either worker may fail to load, fairness; 48,619 | `NothingFromBefore`, `OperationsEnd` |
| `guided_tour` | a log of 12, a relay of two, one reset, two moves off the guided path; 111,453 | `PacketsSound`, `PickedIsDelivered`, `GuideTellsTheTruth` |

Where a property is a conjunction of named parts (`RecordsSound`, `SavedStateSound`,
`ExchangeSettles`, `SuccessIsReal`, `OperationsEnd`, `PacketsSound`,
`GuideTellsTheTruth`), each part is stated and explained above it. The type
invariant of a module without proofs is such a part; that of the others is proved.

Why these bounds are enough to be interesting:

* Three request ids give a stale frame, a current one and a newer one at the
  same time, on both sides; the device can hold one, the server the next, while
  a third is in the network. Two values above zero let a total grow twice, so a
  rollback to a value other than zero exists.
* Two faults let both sides fail, or one side fail on top of its own restart.
* Two sessions and two devices are the least that replace a session and contend
  for it; a clock up to 2 lets a session expire before, between and after its
  frames. One device whose traffic cannot be withheld for ever is enough for the
  completion: a server registers one.
* A lease of two nonces and a limit of five leave one nonce that can never be
  reserved (the overflow check), and three faults allow a death, a reopening
  and a power loss on the reopened store.
* Four sequences on three sectors make the ring wrap onto the oldest snapshot;
  two body pages separate the first, a middle and the last cut; two failures
  allow a cut and then decay, a failed boot or a second cut on what the first
  one left; two identities make a reset between them.
* Three connections, five calls and two sequence numbers are the least in which a
  command takes the late answer to another that changes the board (`OwnAnswer`
  states exactly when; with four calls it never happens); the one damaged frame can be
  a call or an answer. The proof covers all other numbers.
* Three faults let a board lose a confirmation, be reset or registered elsewhere,
  and the page be reloaded on top. No exchange counts `MaxPasses` (four)
  passes; section 4 says how many there can be. The code gives up at 8 in the worker
  and 32 in the session.
* Five messages are enough to create, begin, approve, stop and start again, and two
  may wait while a third is handled.
* Two callers overlap in every pair of operations, and three epochs allow a reset
  during a reset and a stop during either.
* A log of 12 leaves room for the packets of a chapter; two moves off it reach every pair
  of a stray delivery, replay, corruption, drop, restart or clock step.

Ids and values stop at their maximum instead of wrapping, as the code does
(`SC_ERR_EXHAUSTED`); the small maximum is the model of `UINT64_MAX`. The same
holds of sequences, generations and nonce marks of the two stores.
`MaxFaults`, `MaxUpdates`, `MaxSessions`, `MaxTime` and `MaxIdentities` only bound
the search.

### Fairness

Safety needs none. The live models assume:

* weak fairness of each side's `sc_outbound`, and of reopening a store that
  failed: an embedding polls and retries (`docs/protocol.md`, "Transport and
  retry"; the endpoint and fleet worker do);
* strong fairness of delivering a frame: one that is sent again and again is at
  some time delivered. Weak fairness would be false of a lossy link, which can
  drop each copy before it arrives.

In `enrollment` frames are lost once the server has registered a device. Before that
nothing has to be delivered, so that a frame is lost by staying where it is.

`FlashStoreLive` assumes that power returns, that the firmware goes on with a call
it has started, and that somebody power-cycles a device that stopped on a fault
(it answers `QT_HELLO` with the fault; only a boot or a reset ends it).

The programs above the core run on event loops. `SerialLink` assumes that the
deadline of a call goes off; `HardwareSession` that the operation in progress takes
its next step, since each of its awaits is a serial call that settles or a storage
transaction; `FleetWorker` that handlers that can run do; `Lab` that a worker that
has loaded answers. Nothing is assumed of the user.

No fairness is assumed of the application (issuing, consuming, approving), of
the clock, of reception in a withheld group, or of faults, which are bounded.
`sync_live` starts without claims in the network: a claim that is
replayed for ever makes the server confirm for ever before it serves any group,
and the code has no defence against that.

## 4. What is proved

The theorems hold for every schema (any fields, owners, monotonic set,
validator), every number of groups, processes and faults, and every maximum.
They rest on the named `ASSUME`s of the modules: the constants have their
types, the validator accepts the all-zero vector (a fresh context commits one),
a lease is positive and fits the counter.

### The resource engine and credits

`ResourceSyncProofs` proves `TypeCorrect`. The interesting part is the validator:
every path that writes a vector (update, merge, snapshot) checks it first. Its
invariant `BaseInv` adds `Shadow` to the types: unless the handle is poisoned,
RAM and storage hold the same record. Without it a retransmission that writes
nothing could not be shown to leave both alike. The module reduces every step
to one lemma, `StepCases`: a step rewrites at most one group of one role, and
`Change` lists the ways in which it may. Four more properties follow; none of them is
inductive alone.

* `RecordInv` says of each copy of each record that `restore()` accepts it, and
  that storage is never behind RAM. It gives `RecordsRestorable` (`Restorable`)
  and `NothingRollsBack` (`NoRollback`: a restart moves RAM to a record that has
  grown).
* `NothingReleasedEarly` (`ReleasedIsDurable`) follows from `RecordInv`: a frame
  leaves with an id its sender has committed, and committed ids only grow.
* `TotalsInv` is what `OwnerHoldsMost` (`OwnerAhead`) needs. A delayed frame may
  bring a total to the other side long after it was sent, so the invariant has
  to say of every frame in the network that its totals are covered by every
  record its sender may restart from (`Covered`); and since an answer repeats
  a frozen snapshot, that the snapshot never exceeds the current totals
  (`FrozenBelow`).

The second half of the module relates the two sides and the frames between them. `AgreeInv`
adds `AllAgree` to `TotalsInv`. Of two requests with one id, the server-owned values
are the same, of two answers with one id, all values are, and a later frame never
carries less of its sender's totals (`FramesAgree`). Of every pair of records the two
sides may restart from, and every frame of their group, `Agree` says: an
answer in the network with the id of the device's snapshot is that snapshot; the
server's snapshot came from such an answer; what the device has acknowledged,
or a receipt names, the server has recorded; and a request carries at least the
totals of every older record. The quantifiers range over pairs of copies
because either side may lose its latest commit, and over all frames because any of
them may be delivered last. The proof has a lemma for each way in which a
side changes a record (`DeviceKeepsAgrees` and its neighbours) and one for each kind of
frame released. It gives
`AnswersStayFrozen` (`FrozenAnswers`) and `AcknowledgementsHold`
(`AcknowledgedIsRecorded`) for every schema.

`NoConflictBetweenPeers` (`HonestFramesAccepted`) has a hypothesis on the schema,
`MergesValid`: a valid vector, with the server's fields replaced by those of a valid
vector that has no smaller server totals, is valid. Without it the property can be false:
`receive_data` runs the validator on the merged vector (`sc.c:650`), and a validator
that couples fields of both owners in another way may refuse what the server sent in
good faith. The credits validator (consumed <= issued) meets it: `CreditsMerge`.

The last part of the module assumes `CreditsSchema`, and nothing else of the
constants. It adds the validator to `OwnerHoldsMost`: the device's own record satisfies consumed <= issued, which closes the chain `CreditsNeverOverspent`; the
refinement `CreditsImplementLedger` maps each commit to one step of the ledger,
whose guard is the chain. `CreditsNeverConflict`, `CreditsNeverRollBack` and
`CreditReceiptsAreDurable` are the engine's theorems for `CreditsSpec`; there,
`MergesValid` is no longer a hypothesis.

`CreditsImplementPair` (`PairSpec`) joins two levels of the project. A page's model has,
for each endpoint, one committed record with a request number and two flags; the
engine has RAM and storage, counters for what was sent, recorded and acknowledged, a
cursor and values. The theorem maps the stored records, the frames and the due
confirmation to `ManagedGroup` and shows that every step of `CreditsSpec` is a step of it
or a stutter: a failed commit that replaced the record is a frame that never left, and a restart
of the host only loses the confirmation. Two
facts make it true. A side that is not poisoned runs from its stored record (`Shadow`).
And a receipt is due only for the server's last request unless a newer request is
open (`ReceiptIsCurrent`): the engine's receipt carries `snapshot_id`, that of
`ManagedPair` the request number. The theorem says nothing of the enrollment, whose
frames `ManagedPair` also has.

### Enrollment

`EnrollmentProofs` proves the five safety properties that the run checks, for any set of
devices and any number of sessions and faults. Two facts carry the argument. No call
that writes runs on a poisoned or a registered handle; so a copy that is
registered in RAM is the committed one (`Settled`), and a server that has once
confirmed a device cannot forget it: every confirmation ever sent describes every
copy that the server may continue from (`ConfirmationsHold`). A device registers
from nothing else, which gives `DevicesConfirmed`. And the sessions that ended lie
below the draws, none of them in a copy of the server (`SessionsFresh`), which gives
`EndedSessionsStayEnded`. `CandidatesAnswered` needs the claim of whoever a copy
offers to stay in the network (`Answered`); `RegistrationStaysFinal` follows from
`Settled`, since a restart reloads a registered record as it was.

### The stores

`RecordStoreProofs` proves every property of `RecordStore` from one invariant: at
most one process holds the store (`Single`); its copy is the file it would read
back, or, between rename and directory sync, the one being replaced; and as long
as it has a nonce left, that copy also survives a power loss (`Holds`); every
nonce ever used lies below the mark that survives a power loss (`Used`); what was
shown or acknowledged is in the surviving record (`Kept`); and the surviving
record is one the visible file may replace (`Below`). The clause about the nonce
left is the heart: it is what makes sealing wait for durability although
`sc_outbound` never asks whether the record it sends from is certain.

`FlashStoreProofs` proves the invariants of `FlashStore` from `StoreInv`.
`FlashInv` is its core: as long as no intent is there, every slot a boot takes
notice of carries a sequence of at most one beyond the newest witnessed one, and
the witnessed image itself is among them. That one successor is the write in
doubt; `Follows` says that it gives back no nonce, which is what makes a range
handed out after it disjoint from those before (`RangeInv`). `MemoryInv` ties the
memory of a serving device to the flash and says that nothing newer is there
while it serves; `SaveInv` says that a save in progress has left the commit page
of its destination blank and, before the last page, the body whole. The lemma
`DestinationIsFree` is where two sectors are needed. It yields
`FlashNeverRollsBack`, `ReservationsDisjoint`, `ResetsAreFinal`,
`SequencesStayDistinct` and `FlashStoreTypeCorrect`.

The module also proves that each step is a step of `DurableRegister` or
invisible to it (`FlashStoreImplementsRegister`). The mapping chooses the image in doubt with a `CHOOSE`;
`DoubtIsUnique` (at most one slot can hold it, since sequences are distinct) and
`NothingNewer` compute it, and the rest is one lemma per group of actions.

### The serial link

`SerialLinkProofs` proves `AnswersBelongToTheirCalls` (`OwnAnswer`) and
`LinkImplementsCalls`: every step of the link is one of `SerialCalls` or invisible
to it, which is the safety part of `CallsSpec`. Both rest on one invariant. `WiresInv`
says that the two wires are in the order of the calls, that everything on its way to
the page is older than everything on its way to the board, and younger than every
answer taken so far (`Unread`), and that the board has run exactly the former.
`Follows` says what a sequence number tells: 1 is an inspection, and a higher one
means that the previous call was answered. With `Unread` that is the argument of
`OwnAnswer`: an answer taken by a call with a number above 1 is its own, or both it
and the call come after inspections that were answered, and those two were not
answered by themselves. `LinkInv` ties the pending command to the last call.

### The page and the board

`HardwareSessionProofs` proves all four safety properties of the run, for any number of
host identities, board identities, requests and faults: `PinnedHost`, `Together`,
`Settles` and `Success`. The invariant `Inv` (TLC finds it true of the run's instance)
has three layers.

* *The records.* `Pair` relates a host's record to the record of a board pinned to it.
  It has to hold at any moment, since a reload, a reset or a lost call may end any
  operation anywhere. It survives a new registration because `setup` pins the board only to
  a host that has just begun a session, and so has no candidate (lemma `Pinned`); it
  survives a candidate that the page still shows for an identity the board has lost,
  because `start` inspects the board again.
* *The link.* What an operation has learned about the board is claimed only while the
  port is `Open`: a board that reboots or is reset takes the port with it, and the call
  under way fails. The lemma `LinkLost` is that argument, once for the four faults.
* *The operation.* `AtSend`, `AtForward`, `AtCollect`, `AtTake` and `AtDecide` say at
  each await which frame is in hand and what is left to say. `Quiescent` and `OneLeft`
  count the passes: the first ends with nothing to say, or one confirmation or receipt;
  the second with nothing; and a third, silent, ends the exchange. So `op.pass` never exceeds 2,
  which is why `exchange()` never gives up at 32. `Settles` assumes `MaxPasses > 2`,
  the point from which the model's counter can tell: with a smaller one the counter
  would stand at its bound although the exchange ends.

The same layers show which command is refused: a frame in hand is the host's present one
and the board is pinned to that host, so it takes every kind but one, whatever went
before; only a group request presumes a registration that the board may have missed.
`ForwardAccepts` is that equivalence: the board refuses exactly the early request.

### The fleet worker

`FleetWorkerProofs` proves all three safety properties of the run, for any number of
messages, keys, challenges, requests and faults: `FleetSavedStateSound`,
`FleetExchangeSettles` and `FleetSuccessIsReal`. Its invariant `Inv` (TLC finds it true
of the run's instance) has these parts.

* *What is saved* (`DiskSound`). Any step may be the last before the tab closes, so this
  part does not mention the handlers: a checkpoint has a row that accounts for it
  (`RowSound`), and `Pair` relates the two checkpoints as two sides of one enrollment.
* *What a handler knows* (`Knows`), for each step between two awaits: which of the three
  records `create` has written, what the row about to be saved will say (`NextRow`),
  which frame is in hand and which of its parties has not yet seen it (`AtDevice`,
  `AtHost`). All of that is read from storage awaits ago. It still holds because no
  second handler runs (`OneHandler`, which is the queue of `worker.mjs`) and because a
  closed tab takes the handler with it (`InvReload`).
* *The entry* (`EntryInv`): when it can be used, it is the saved row, unless a `create`
  is still under way.
* *The passes of the loop* (`PassStarts`, `PassHalf`, `PassOver`), whatever interrupted
  the exchanges before: after the first, no confirmation is due; after the second, no
  request is pending; after the third, both sides are silent; and the fourth delivers
  nothing. Four passes do occur (TLC finds them with seven messages), a comment in
  `transport.mjs` expects two, and the code gives up after eight. `op.pass` counts the
  passes that delivered something, so `FleetExchangeSettles` assumes `MaxPasses > 3`.
* *The work done* (`Work`): every key, challenge and request was paid for by a message.
  It keeps the model's numbers within the sets that `Ids` and `Requests` bound.

`FleetSuccessIsReal` then needs two facts about single steps. A host record is registered
by nothing but an approval, which compares what its message displayed with the record
it is about to change (`ApprovalRegistersDisplayed`). And a handler that is in its last
step ends by itself or with the tab (`ExchangesEnd`); if by itself, the pass over
delivered nothing, and a pass that delivers nothing is `Quiet`.

### The lab

`LabProofs` proves that nothing of an earlier session survives in the lab, for any
number of callers, resets and packets. Its invariant ties five things together: the
types; that a caller awaits at most one call (`Together`); that a session is ready,
or a call unanswered, only while it is `Live`, that is, between the reset that gave
it workers and its stop; and that everything a live session keeps, its calls and the
packets that operations hold across an await among it, is `OfThisSession`. Only a
reset and a stop move the epoch, and both take the calls with them, so that no
answer can bring anything in from before (`LabNothingFromBefore`). `Bounded` gives
`LabRelayWithinLimit`: two transmissions may both pass the first check of the relay,
and the second check, after the await, is what keeps the limit.

### What is only model-checked

Proved and not run: the type invariants of `ResourceSync`, `RecordStore`, `FlashStore`
and `Lab`, `OwnerAhead`, `CopiesAgree`, `DurableOnlyGrows`, `NeverRollsBack`,
`SequencesDistinct`, `RelayWithinLimit` and `PairSpec`.

Only model-checked: everything under fairness (TLAPS does not handle `ENABLED`), the
liveness part of `CallsSpec`, `OperationEnds` and `EveryMessageAnswered` among it; and
all of `Tour`.

## 5. What is not modelled

* Encodings and cryptography are taken as ideal: a frame is what it carries.
  Frames that were not made by this code are outside every model.
* `sc_init` failures that leave an endpoint unopened, and argument checks of the
  public API: they change no state.
* Creation of a host store, its identity and permission checks, injected
  failures: before the store exists there is nothing to lose, and the checks
  end in an error.
* Group traffic during enrollment and enrollment during group traffic are in
  two models; they share the record, but touch disjoint fields of it, and no
  group traffic exists before both sides are registered. The one meeting point,
  a repeated claim, is an action of both.
* The bytes of a serial frame: COBS, CRC, the board's receive loop in `main.c` and
  what another program may leave in its buffer. A frame arrives whole or not at all.
* In `HardwareSession`: borrowed answers, and a command that runs after a later one was
  called; `SerialLink` has both.
* A second tab: the Web Lock in `qtpy.mjs` and `qtpy-fleet.mjs` keeps it away from the
  host data, which is taken as given. So are the standalone page's life cycle and the
  fleet page's consoles, their drawing and their line history.
* In `FleetWorker`: the debug switch, the activity log, and console commands that only
  read or consume. In `Tour`: positions, tips, scrolling and wording.
* Button, LED and entropy pool of the board.
* `src/site/` holds copies of the pages under `src/web/` and `src/examples/` as they are
  deployed, and generated documentation; the originals are what is modelled.
* The components marked `not_modelled` in `PROJECT.json`, each with its reason.

## 6. Where the repository says otherwise

Two runs check what a document says and find it violated. Three more disagreements are
stated exactly by the property of a passing run, which names the case and quotes what it
contradicts; without that case the property is violated in the same run.

**A delayed invitation can strand a registered device** (`EnrollmentCompletes`, violated
in `enrollment_replaced`). Until it is registered, a device lets any validly signed
invitation replace its challenge (`receive_invitation`, `sc.c:488-494`); sessions
have no order. The run: session 1 is opened and its invitation is delayed;
session 2 replaces it; the device takes session 2 and claims; the server
approves; now the invitation of session 1 arrives and the device takes the dead
challenge. The server is registered and sends no further invitation; it refuses
each repeated claim, because the claim's token is not its own challenge
(`receive_report`, `sc.c:826-830`); the confirmation it already sent no longer
matches. `docs/protocol.md:53-54` says that "A repeated claim can regenerate a
lost confirmation." The same page says (lines 61-63) that a clockless device may
accept an old signed challenge and that the server rejects a response to it; the
run shows that this refusal can come after the registration, and is then final
unless the network still holds an invitation of session 2. Safety is not
affected: no device is registered that should not be. `enrollment` checks
`EnrollmentCompletesUnlessDisplaced`, that nothing else keeps a device from completing.

**An early request is refused** (`RequestReportRestores`, violated in `report_refused`).
The run: a board is registered and approved, and the page is reloaded before the
confirmation leaves, which is volatile. The user reconnects and selects "Request
report". That opens a group request, which `exchange` forwards before it collects the
board's claim (`qtpy-session.mjs:152-153`); the board, pinned but not yet registered,
refuses it (`DeviceAccepts`), and the exchange fails. The request stays pending, so each later
exchange does the same, until the board is reset. `examples/fleet_manager/README.md:135-137`
says: "After a reboot or page reload, reconnect using the same browser profile and
site address, then select **Request report**. This supplies fresh per-boot
entropy and restores the existing host/device relationship." `ExchangeSettles` says,
and `Settles` proves, that this request is refused and nothing else is.

**A load error that nobody awaits** (`OperationsEnd` in `lab_session`). `onerror` rejects
the calls pending for a worker (`lab.mjs:93-100`). When the device worker's load error
arrives while the reset still awaits the server, a later call to the device worker never
settles, although `lab.mjs:182` says "runtime errors reject". `EveryCallSettles` and
`ResetSucceeds` hold unless a caller awaits such a worker (`AwaitsBroken`).

**A grant that was none** (`GuideTellsTheTruth` in `guided_tour`). A claim replayed after
the registration makes a confirmation due again; the Credits chapter keeps the enrolled
pair as it is (`web/app.mjs:242`), the server's next packet is that confirmation, and
step 3 announces "The device accepted 100 issued credits" (`lab.mjs:482`) when it is
delivered. `ReportStepsHold` says that this sentence is true exactly when the packet
was not a confirmation.

**A borrowed answer** (`OwnAnswer` in `serial_link`). After a reconnection an inspection
may be answered by the report of an inspection before it; and after two connections whose
calls timed out, the third's `receive`, `setup` or `start` by the answer to the second's
(section 2, SerialLink). `qtpy-serial.mjs:87` says that `read` matches "each response to
its request"; it compares the command and a number that starts again with every link. The
page then goes on while its own command is still to run. `OwnAnswer` states exactly which
calls this can happen to; a number that is not reused between links would exclude it.

## 7. What is left

1. An abstract promise for `RecordStore`. It is not `DurableRegister`: after the
   death of a process, the next one may serve a record that was renamed but
   not yet made durable, which a later power loss takes back. What the store does
   promise is stated by `AcknowledgedSurvives` and `ReleasedIsDurable`, and proved.
2. The board's controls: the long press, the button and the commands each state admits.
3. The bytes of the serial link, and the tabs that contend for the host data.
4. `values_encode`, `values_decode`, `schema_valid` and `valid_utf8` as recursive
   functions against reference definitions over bounded inputs.
5. Proofs: `Tour`'s `PacketsSound`; and for enrollment what `CreditsImplementPair`
   is for requests. `Enrollment` alone does not give it: the core signs an invitation
   without asking the store, so a server whose commit failed still invites under
   the session in RAM. `endpoint.c:304` refuses that call, which a refinement would have to
   compose with `Enrollment`.
6. `HardwareSession` over a link that borrows answers.
