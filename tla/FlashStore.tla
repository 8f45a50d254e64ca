----------------------------- MODULE FlashStore -----------------------------
(***************************************************************************)
(* The snapshot store of the QT Py firmware                                *)
(* (examples/embedded/qtpy_rp2040/store.c): a ring of flash sectors, each  *)
(* with body pages and one commit page, and a sector that records the      *)
(* intent to reset.  Every erase and every program may fail, and the power *)
(* may go, before, in the middle of or after its effect; a bit of a        *)
(* written page may decay.                                                 *)
(*                                                                         *)
(* A page area is "blank" (all ones), "whole" (what the code programs) or  *)
(* "torn" (neither).  A definition named X_Y is X with a plausible mistake *)
(* Y; only the mutation runs use it.                                       *)
(***************************************************************************)
EXTENDS Integers, FiniteSets

CONSTANTS
    Sectors,        \* QT_SNAPSHOT_SECTORS
    Pages,          \* body pages of a sector, QT_BODY / QT_PAGE
    MaxSequence,    \* UINT64_MAX for snapshot sequences
    MaxGeneration,  \* UINT64_MAX for record generations
    MaxNonce,       \* UINT64_MAX for nonce counters
    Domains,        \* nonce domains
    MaxIdentities,  \* bound on the identities set up
    MaxFaults       \* bound on failed operations, power losses and decays

\* With one sector the destination of a save would be the active snapshot.
ASSUME SectorsAssumption == Sectors \in Nat /\ Sectors >= 2
ASSUME PagesAssumption == Pages \in Nat \ {0}
ASSUME LimitsAssumption ==
    /\ MaxSequence \in Nat \ {0} /\ MaxGeneration \in Nat /\ MaxNonce \in Nat
    /\ Domains \subseteq Nat
ASSUME BoundsAssumption == MaxIdentities \in Nat /\ MaxFaults \in Nat

Slots      == 0 .. Sectors - 1
Identities == 1 .. MaxIdentities

\* qt_snapshot.  identity is 0 while nothing is provisioned.
Snapshot ==
    [identity : 0 .. MaxIdentities, generation : 0 .. MaxGeneration,
     domain : {0} \cup Domains, nonce_end : 0 .. MaxNonce]

Unprovisioned == [identity |-> 0, generation |-> 0, domain |-> 0, nonce_end |-> 0]

\* A snapshot under its sequence; sequence 0 is never written.
Image   == [sequence : 0 .. MaxSequence, state : Snapshot]
NoImage == [sequence |-> 0, state |-> Unprovisioned]

Area   == {"blank", "torn", "whole"}
Sector == [body : Area, mark : Area, image : Image]
Erased == [body |-> "blank", mark |-> "blank", image |-> NoImage]

\* What a range of nonces was reserved for, and from where to where.
Range == [identity : Identities, first : 0 .. MaxNonce, end : 0 .. MaxNonce]

\* The call in progress; at counts the body pages or the sectors done.
Calls == {"none", "save", "reset"}
Steps == {"erase", "body", "mark", "intent"}
Job   == [call : Calls, step : Steps, at : 0 .. Sectors + Pages, next : Snapshot, reserves : BOOLEAN]
NoJob == [call |-> "none", step |-> "erase", at |-> 0, next |-> Unprovisioned, reserves |-> FALSE]

VARIABLES
    flash,      \* flash[i]: snapshot sector i
    intent,     \* the page that records the intent to reset
    up,         \* the firmware runs
    fault,      \* qt_store.fault
    active,     \* qt_store.active, -1 when there is none
    sequence,   \* qt_store.sequence
    state,      \* qt_store.state
    job,        \* the flash call in progress
    witnessed,  \* history: the newest image a caller was told of
    ranges,     \* history: the nonce ranges handed out
    drawn,      \* identities set up so far
    retired,    \* history: identities up to this one belong to a reset device
    faults      \* failures, power losses and decays so far

store == <<fault, active, sequence, state>>
vars  == <<flash, intent, up, store, job, witnessed, ranges, drawn, retired, faults>>

-----------------------------------------------------------------------------
(***************************************************************************)
(* What an interrupted operation leaves of an area.                        *)
(***************************************************************************)
AfterErase(area)   == IF area = "blank" THEN {"blank"} ELSE {area, "torn", "blank"}
AfterProgram(area) == {area, "torn", "whole"}

\* fail(): the fault stays until the next boot or a completed reset.
Fail ==
    /\ fault' = TRUE
    /\ job' = NoJob
    /\ UNCHANGED <<up, active, sequence, state>>

\* The power goes: what was in memory is gone.
PowerOff ==
    /\ up' = FALSE
    /\ fault' = FALSE
    /\ active' = -1
    /\ sequence' = 0
    /\ state' = Unprovisioned
    /\ job' = NoJob

\* An erase or program is cut off, by the driver or by the power.
CutOff == faults < MaxFaults /\ faults' = faults + 1 /\ (Fail \/ PowerOff)

\* decode(): a blank commit page is an empty slot.
Empty(s)     == s.mark = "blank"
Committed(s) == s.mark = "whole" /\ s.body = "whole"

Damaged(s) == ~Empty(s) /\ ~Committed(s)

-----------------------------------------------------------------------------
(***************************************************************************)
(* qt_store_open.                                                          *)
(***************************************************************************)
\* The scan meets a malformed slot or one sequence twice.
Ambiguous ==
    \/ \E i \in Slots : Damaged(flash[i])
    \/ \E i, j \in Slots :
          /\ i # j /\ Committed(flash[i]) /\ Committed(flash[j])
          /\ flash[i].image.sequence = flash[j].image.sequence

IsNewest_FirstFound(i) ==
    Committed(flash[i]) /\ \A j \in Slots : Committed(flash[j]) => i <= j

\* Slot i holds the highest sequence.
IsNewest(i) ==
    /\ Committed(flash[i])
    /\ \A j \in Slots :
          Committed(flash[j]) => flash[j].image.sequence <= flash[i].image.sequence

Newer(image) == IF image.sequence > witnessed.sequence THEN image ELSE witnessed

StartReset ==
    job' = [NoJob EXCEPT !.call = "reset", !.step = "intent"]

\* The boot finds a reset that was not finished and resumes it.
OpenResumesReset ==
    /\ ~up /\ intent # "blank"
    /\ up' = TRUE
    /\ StartReset
    /\ UNCHANGED <<flash, intent, store, witnessed, ranges, drawn, retired, faults>>

OpenRefuses ==
    /\ ~up /\ intent = "blank" /\ Ambiguous
    /\ up' = TRUE
    /\ fault' = TRUE
    /\ UNCHANGED <<flash, intent, active, sequence, state, job, witnessed, ranges, drawn, retired, faults>>

\* The driver fails to read a sector.
OpenReadFails ==
    /\ ~up /\ faults < MaxFaults
    /\ up' = TRUE
    /\ fault' = TRUE
    /\ faults' = faults + 1
    /\ UNCHANGED <<flash, intent, active, sequence, state, job, witnessed, ranges, drawn, retired>>

OpenFindsNothing ==
    /\ ~up /\ intent = "blank" /\ \A i \in Slots : Empty(flash[i])
    /\ up' = TRUE
    /\ UNCHANGED <<flash, intent, store, job, witnessed, ranges, drawn, retired, faults>>

OpenRecovers(i) ==
    /\ ~up /\ intent = "blank" /\ ~Ambiguous /\ IsNewest(i)
    /\ up' = TRUE
    /\ active' = i
    /\ sequence' = flash[i].image.sequence
    /\ state' = flash[i].image.state
    /\ witnessed' = Newer(flash[i].image)
    /\ UNCHANGED <<flash, intent, fault, job, ranges, drawn, retired, faults>>

-----------------------------------------------------------------------------
(***************************************************************************)
(* qt_store_save and its three callers.                                    *)
(***************************************************************************)
Ready == up /\ ~fault /\ job.call = "none"

Save(next, reserves) ==
    IF sequence = MaxSequence
    THEN Fail
    ELSE /\ job' = [call |-> "save", step |-> "erase", at |-> 0, next |-> next, reserves |-> reserves]
         /\ UNCHANGED <<up, store>>

\* setup() saves the identity it derived from a fresh seed and invitation; what
\* sc_init and sc_receive_at then write are commits and reservations.
SaveIdentity ==
    /\ Ready /\ state.identity = 0 /\ drawn < MaxIdentities
    /\ drawn' = drawn + 1
    /\ Save([Unprovisioned EXCEPT !.identity = drawn + 1], FALSE)
    /\ UNCHANGED <<flash, intent, witnessed, ranges, retired, faults>>

\* qt_store_commit: the core passes the generation it read or wrote last.
StoreCommit(generation) ==
    /\ Ready /\ state.identity # 0
    /\ generation = state.generation /\ generation < MaxGeneration
    /\ Save([state EXCEPT !.generation = generation + 1], FALSE)
    /\ UNCHANGED <<flash, intent, witnessed, ranges, drawn, retired, faults>>

MayReserve(domain, count) ==
    /\ count > 0 /\ count <= MaxNonce - state.nonce_end
    /\ state.nonce_end # 0 => state.domain = domain

\* qt_store_reserve.
StoreReserve(domain, count) ==
    /\ Ready /\ state.identity # 0
    /\ MayReserve(domain, count)
    /\ Save([state EXCEPT !.domain = domain, !.nonce_end = @ + count], TRUE)
    /\ UNCHANGED <<flash, intent, witnessed, ranges, drawn, retired, faults>>

Destination_Active == IF active < 0 THEN 0 ELSE active

Destination == IF active < 0 THEN 0 ELSE (active + 1) % Sectors

Saving(step) == up /\ job.call = "save" /\ job.step = step

Goal == [sequence |-> sequence + 1, state |-> job.next]

SaveErases ==
    /\ Saving("erase")
    /\ flash' = [flash EXCEPT ![Destination] = Erased]
    /\ job' = [job EXCEPT !.step = "body"]
    /\ UNCHANGED <<intent, up, store, witnessed, ranges, drawn, retired, faults>>

SaveEraseCut ==
    /\ Saving("erase")
    /\ \E body \in AfterErase(flash[Destination].body), mark \in AfterErase(flash[Destination].mark) :
          flash' = [flash EXCEPT ![Destination].body = body, ![Destination].mark = mark]
    /\ CutOff
    /\ UNCHANGED <<intent, witnessed, ranges, drawn, retired>>

SaveProgramsBody ==
    /\ Saving("body")
    /\ flash' = [flash EXCEPT ![Destination].body = IF job.at + 1 = Pages THEN "whole" ELSE "torn",
                              ![Destination].image = Goal]
    /\ job' = [job EXCEPT !.at = @ + 1, !.step = IF job.at + 1 = Pages THEN "mark" ELSE "body"]
    /\ UNCHANGED <<intent, up, store, witnessed, ranges, drawn, retired, faults>>

SaveBodyCut ==
    /\ Saving("body")
    /\ \E body \in AfterProgram(flash[Destination].body) :
          /\ body = "whole" => job.at + 1 = Pages
          /\ flash' = [flash EXCEPT ![Destination].body = body, ![Destination].image = Goal]
    /\ CutOff
    /\ UNCHANGED <<intent, witnessed, ranges, drawn, retired>>

\* Programming the commit page and telling the caller.
SaveCommits ==
    /\ Saving("mark")
    /\ flash' = [flash EXCEPT ![Destination].mark = "whole"]
    /\ state' = job.next
    /\ sequence' = sequence + 1
    /\ active' = Destination
    /\ job' = NoJob
    /\ witnessed' = Goal
    /\ ranges' = ranges \cup
          IF job.reserves
          THEN {[identity |-> state.identity, first |-> state.nonce_end, end |-> job.next.nonce_end]}
          ELSE {}
    /\ UNCHANGED <<intent, up, fault, drawn, retired, faults>>

SaveMarkCut ==
    /\ Saving("mark")
    /\ \E mark \in AfterProgram("blank") : flash' = [flash EXCEPT ![Destination].mark = mark]
    /\ CutOff
    /\ UNCHANGED <<intent, witnessed, ranges, drawn, retired>>

-----------------------------------------------------------------------------
(***************************************************************************)
(* qt_store_reset: the intent, every snapshot sector, the intent sector.   *)
(***************************************************************************)
\* From the first bit of the intent on, the old identity is given up.
Retire == retired' = drawn /\ witnessed' = NoImage

\* The operator's command or the long press; a fault does not prevent it.
Reset ==
    /\ up /\ job.call = "none"
    /\ StartReset
    /\ UNCHANGED <<flash, intent, up, store, witnessed, ranges, drawn, retired, faults>>

Resetting(step) == up /\ job.call = "reset" /\ job.step = step

ResetRecords_Unrecorded ==
    /\ Resetting("intent")
    /\ Retire
    /\ job' = [job EXCEPT !.step = "erase"]
    /\ UNCHANGED <<flash, intent, up, store, ranges, drawn, faults>>

ResetRecords_Reprograms ==
    /\ Resetting("intent") /\ intent = "blank"
    /\ intent' = "whole"
    /\ Retire
    /\ job' = [job EXCEPT !.step = "erase"]
    /\ UNCHANGED <<flash, up, store, ranges, drawn, faults>>

\* An intent that is there already is not programmed again.
ResetRecords ==
    /\ Resetting("intent")
    /\ intent' = IF intent = "blank" THEN "whole" ELSE intent
    /\ Retire
    /\ job' = [job EXCEPT !.step = "erase"]
    /\ UNCHANGED <<flash, up, store, ranges, drawn, faults>>

ResetRecordCut ==
    /\ Resetting("intent") /\ intent = "blank"
    /\ CutOff
    /\ intent' \in AfterProgram(intent)
    /\ IF intent' = "blank" THEN UNCHANGED <<retired, witnessed>> ELSE Retire
    /\ UNCHANGED <<flash, ranges, drawn>>

ResetErases ==
    /\ Resetting("erase") /\ job.at < Sectors
    /\ flash' = [flash EXCEPT ![job.at] = Erased]
    /\ job' = [job EXCEPT !.at = @ + 1]
    /\ UNCHANGED <<intent, up, store, witnessed, ranges, drawn, retired, faults>>

ResetEraseCut ==
    /\ Resetting("erase") /\ job.at < Sectors
    /\ \E body \in AfterErase(flash[job.at].body), mark \in AfterErase(flash[job.at].mark) :
          flash' = [flash EXCEPT ![job.at].body = body, ![job.at].mark = mark]
    /\ CutOff
    /\ UNCHANGED <<intent, witnessed, ranges, drawn, retired>>

ResetFinishes ==
    /\ Resetting("erase") /\ job.at = Sectors
    /\ intent' = "blank"
    /\ fault' = FALSE
    /\ active' = -1
    /\ sequence' = 0
    /\ state' = Unprovisioned
    /\ job' = NoJob
    /\ UNCHANGED <<flash, up, witnessed, ranges, drawn, retired, faults>>

ResetFinishCut ==
    /\ Resetting("erase") /\ job.at = Sectors
    /\ intent' \in AfterErase(intent)
    /\ CutOff
    /\ UNCHANGED <<flash, witnessed, ranges, drawn, retired>>

-----------------------------------------------------------------------------
\* The device is rebooted, or the power goes between two operations.
Reboot ==
    /\ up /\ job.call = "none"
    /\ PowerOff
    /\ UNCHANGED <<flash, intent, witnessed, ranges, drawn, retired, faults>>

\* A page of a slot in use changes: the commit page stays nonblank.
Decay(i) ==
    /\ faults < MaxFaults /\ Committed(flash[i])
    /\ \/ flash' = [flash EXCEPT ![i].body = "torn"]
       \/ flash' = [flash EXCEPT ![i].mark = "torn"]
    /\ faults' = faults + 1
    /\ UNCHANGED <<intent, up, store, job, witnessed, ranges, drawn, retired>>

Init ==
    /\ flash = [i \in Slots |-> Erased]
    /\ intent = "blank"
    /\ up = FALSE
    /\ fault = FALSE /\ active = -1 /\ sequence = 0 /\ state = Unprovisioned
    /\ job = NoJob
    /\ witnessed = NoImage
    /\ ranges = {}
    /\ drawn = 0 /\ retired = 0 /\ faults = 0

Open ==
    \/ OpenResumesReset \/ OpenRefuses \/ OpenReadFails \/ OpenFindsNothing
    \/ \E i \in Slots : OpenRecovers(i)

SaveSteps == SaveErases \/ SaveProgramsBody \/ SaveCommits
SaveCuts  == SaveEraseCut \/ SaveBodyCut \/ SaveMarkCut

ResetSteps == ResetRecords \/ ResetErases \/ ResetFinishes
ResetCuts  == ResetRecordCut \/ ResetEraseCut \/ ResetFinishCut

Next ==
    \/ Open
    \/ SaveIdentity
    \/ \E generation \in 0 .. MaxGeneration : StoreCommit(generation)
    \/ \E domain \in Domains, count \in 1 .. MaxNonce : StoreReserve(domain, count)
    \/ SaveSteps \/ SaveCuts
    \/ Reset \/ ResetSteps \/ ResetCuts
    \/ Reboot
    \/ \E i \in Slots : Decay(i)

Spec == Init /\ [][Next]_vars

-----------------------------------------------------------------------------
TypeOK ==
    /\ flash \in [Slots -> Sector] /\ intent \in Area
    /\ up \in BOOLEAN /\ fault \in BOOLEAN
    /\ active \in Slots \cup {-1} /\ sequence \in 0 .. MaxSequence /\ state \in Snapshot
    /\ job \in Job
    /\ witnessed \in Image /\ ranges \in SUBSET Range
    /\ drawn \in 0 .. MaxIdentities /\ retired \in 0 .. drawn /\ faults \in 0 .. MaxFaults

\* The firmware serves a snapshot: no fault, and no reset in progress.
Serving == up /\ ~fault /\ job.call # "reset"

\* The device never serves a state older than, or different from, the newest
\* one a caller was told of: qt_store_open picks the newest snapshot whatever
\* was interrupted, and refuses to boot where it cannot know which that is.
NeverRollsBack == Serving => [sequence |-> sequence, state |-> state] = witnessed

\* qt_store_reserve never hands out one nonce of one identity twice, whatever
\* failed, was cut off or decayed between the two reservations.
RangesDisjoint ==
    \A r, s \in ranges :
        r # s /\ r.identity = s.identity => r.end <= s.first \/ s.end <= r.first

\* An identity whose reset put one bit into the intent page is never served
\* again: qt_store_open resumes the reset, and the intent is erased last.
ResetIsFinal == Serving /\ state.identity # 0 => state.identity > retired

\* qt_store_open never meets one sequence twice: its check guards against
\* images this firmware cannot write.
SequencesDistinct ==
    \A i, j \in Slots :
        ~Empty(flash[i]) /\ ~Empty(flash[j]) /\ i # j =>
            flash[i].image.sequence # flash[j].image.sequence

\* The write the next boot will find done, if it can read the flash at all.
InDoubt ==
    IF \E i \in Slots : ~Empty(flash[i]) /\ flash[i].image.sequence = witnessed.sequence + 1
    THEN flash[CHOOSE i \in Slots :
                  ~Empty(flash[i]) /\ flash[i].image.sequence = witnessed.sequence + 1].image
    ELSE NoImage

Pending ==
    IF intent # "blank" THEN NoImage
    ELSE IF up /\ job.call = "save" THEN Goal
    ELSE InDoubt

Value == IF Serving THEN [sequence |-> sequence, state |-> state] ELSE witnessed

Mode == IF ~up THEN "off" ELSE IF Serving THEN "on" ELSE "stopped"

Register ==
    INSTANCE DurableRegister WITH
        Images <- Image, None <- NoImage, value <- Value, pending <- Pending, mode <- Mode

\* The ring of sectors is an atomic durable register: whatever is cut off, a
\* boot of qt_store_open finds the acknowledged snapshot or the one in flight.
RegisterSpec == Register!Spec
=============================================================================
