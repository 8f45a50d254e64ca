-------------------------- MODULE FlashStoreProofs --------------------------
(***************************************************************************)
(* What the snapshot store guarantees for every number of sectors (at      *)
(* least two), body pages, identities and failures.                        *)
(***************************************************************************)
EXTENDS FlashStore, TLAPS

\* A slot a boot takes notice of.
Used(i) == ~Empty(flash[i])

\* next may follow the snapshot state: it keeps the identity and gives back no
\* nonce, or it is a fresh identity over none.
Follows(next) ==
    IF witnessed.sequence = 0
    THEN next.nonce_end = 0
    ELSE /\ next.identity = witnessed.state.identity
         /\ next.nonce_end >= witnessed.state.nonce_end

\* The images on the flash: one per sequence, none of a retired identity, the
\* newest witnessed one among them, and at most one that is newer.
FlashInv ==
    intent = "blank" =>
        /\ \A i \in Slots : Used(i) =>
              /\ flash[i].image.sequence \in 1 .. witnessed.sequence + 1
              /\ flash[i].image.state.identity \in retired + 1 .. drawn
              /\ flash[i].image.sequence = witnessed.sequence => flash[i].image = witnessed
              /\ flash[i].image.sequence = witnessed.sequence + 1 => Follows(flash[i].image.state)
        /\ witnessed.sequence # 0 => \E i \in Slots : Used(i) /\ flash[i].image = witnessed

WitnessInv ==
    IF witnessed.sequence = 0
    THEN witnessed = NoImage
    ELSE witnessed.state.identity \in retired + 1 .. drawn

MemoryInv ==
    /\ ~up => ~fault /\ active = -1 /\ sequence = 0 /\ state = Unprovisioned /\ job = NoJob
    /\ Serving =>
          /\ intent = "blank"
          /\ witnessed = [sequence |-> sequence, state |-> state]
          /\ active = -1 <=> sequence = 0
          /\ active # -1 => Used(active) /\ flash[active].image = witnessed
          /\ \A i \in Slots : Used(i) => flash[i].image.sequence <= sequence

SaveInv ==
    job.call = "save" =>
        /\ up /\ ~fault
        /\ sequence < MaxSequence
        /\ job.next.identity \in retired + 1 .. drawn
        /\ Follows(job.next)
        /\ job.reserves => state.identity # 0
        /\ job.step \in {"erase", "body", "mark"}
        /\ job.at \in 0 .. Pages
        /\ job.step # "mark" => job.at < Pages
        /\ job.step # "erase" => ~Used(Destination)
        /\ job.step = "mark" => flash[Destination].image = Goal

ResetInv ==
    /\ job.call = "reset" =>
          /\ up
          /\ job.step \in {"intent", "erase"}
          /\ job.at \in 0 .. Sectors
          /\ job.step = "intent" => job.at = 0
          /\ job.step = "erase" => intent # "blank"
          /\ \A i \in 0 .. job.at - 1 : ~Used(i)
    /\ intent # "blank" => witnessed = NoImage /\ retired = drawn

RangeInv ==
    /\ \A r \in ranges :
          /\ r.identity \in 1 .. drawn
          /\ r.identity > retired => r.identity = witnessed.state.identity
          /\ r.identity = witnessed.state.identity => r.end <= witnessed.state.nonce_end
    /\ RangesDisjoint

\* The inductive invariant.
StoreInv ==
    /\ TypeOK /\ FlashInv /\ WitnessInv /\ MemoryInv /\ SaveInv /\ ResetInv /\ RangeInv
    /\ SequencesDistinct

-----------------------------------------------------------------------------
\* A save never erases the active snapshot: this is what two sectors are for.
LEMMA DestinationIsFree ==
    ASSUME TypeOK
    PROVE  Destination \in Slots /\ Destination # active
<1>1. CASE active = -1
  BY <1>1, SectorsAssumption DEF Destination, Slots
<1>2. CASE active # -1
  <2>1. active \in 0 .. Sectors - 1 /\ Sectors \in Nat /\ Sectors >= 2
    BY <1>2, SectorsAssumption DEF TypeOK, Slots
  <2>2. CASE active + 1 < Sectors
    <3>1. (active + 1) % Sectors = active + 1
      BY <2>1, <2>2
    <3>2. QED
      BY <2>1, <2>2, <3>1 DEF Destination, Slots
  <2>3. CASE active + 1 = Sectors
    <3>1. (active + 1) % Sectors = 0
      BY <2>1, <2>3
    <3>2. QED
      BY <2>1, <2>3, <3>1 DEF Destination, Slots
  <2>4. QED
    BY <2>1, <2>2, <2>3
<1>3. QED
  BY <1>1, <1>2
-----------------------------------------------------------------------------
\* Facts about the values.
LEMMA ConstantFacts ==
    /\ Unprovisioned \in Snapshot /\ NoImage \in Image /\ Erased \in Sector /\ NoJob \in Job
    /\ Sectors \in Nat /\ Sectors >= 2 /\ Pages \in Nat /\ Pages > 0
    /\ MaxSequence \in Nat /\ MaxGeneration \in Nat /\ MaxNonce \in Nat
    /\ MaxIdentities \in Nat /\ MaxFaults \in Nat
<1>1. Sectors \in Nat /\ Sectors >= 2 /\ Pages \in Nat /\ Pages > 0
  BY SectorsAssumption, PagesAssumption
<1>2. MaxSequence \in Nat /\ MaxGeneration \in Nat /\ MaxNonce \in Nat
  BY LimitsAssumption
<1>3. MaxIdentities \in Nat /\ MaxFaults \in Nat
  BY BoundsAssumption
<1>4. Unprovisioned \in Snapshot
  BY <1>2, <1>3 DEF Unprovisioned, Snapshot
<1>5. NoImage \in Image
  BY <1>2, <1>4 DEF NoImage, Image
<1>6. Erased \in Sector
  BY <1>5 DEF Erased, Sector, Area
<1>7. NoJob \in Job
  <2>1. 0 \in 0 .. Sectors + Pages
    BY <1>1
  <2> QED
    BY <1>4, <2>1 DEF NoJob, Job, Calls, Steps
<1> QED
  BY <1>1, <1>2, <1>3, <1>4, <1>5, <1>6, <1>7

\* The initial state satisfies the invariant.
LEMMA InitStore == Init => StoreInv
<1> SUFFICES ASSUME Init PROVE StoreInv
  OBVIOUS
<1>1. TypeOK
  <2>1. flash \in [Slots -> Sector] /\ intent \in Area
    BY ConstantFacts DEF Init, Area
  <2>2. up \in BOOLEAN /\ fault \in BOOLEAN /\ job \in Job /\ state \in Snapshot /\ witnessed \in Image
    BY ConstantFacts DEF Init
  <2>3. active \in Slots \cup {-1} /\ sequence \in 0 .. MaxSequence /\ ranges \in SUBSET Range
    BY ConstantFacts DEF Init
  <2>4. drawn \in 0 .. MaxIdentities /\ retired \in 0 .. drawn /\ faults \in 0 .. MaxFaults
    BY ConstantFacts DEF Init
  <2> QED
    BY <2>1, <2>2, <2>3, <2>4 DEF TypeOK
<1>2. \A i \in Slots : ~Used(i)
  BY DEF Init, Used, Empty, Erased
<1>3. FlashInv /\ SequencesDistinct /\ WitnessInv
  BY <1>2 DEF Init, FlashInv, SequencesDistinct, WitnessInv, Used, NoImage
<1>4. MemoryInv /\ SaveInv /\ ResetInv /\ RangeInv
  BY DEF Init, MemoryInv, SaveInv, ResetInv, RangeInv, RangesDisjoint, Serving, NoJob
<1> QED
  BY <1>1, <1>3, <1>4 DEF StoreInv

\* A change of the flash that puts no new image on it and keeps the witnessed one.
LEMMA FlashKeeps ==
    ASSUME FlashInv, SequencesDistinct,
           UNCHANGED <<intent, witnessed, drawn, retired>>,
           \A i \in Slots : Used(i)' => Used(i) /\ flash'[i].image = flash[i].image,
           intent = "blank" /\ witnessed.sequence # 0 =>
               \E i \in Slots : Used(i)' /\ flash'[i].image = witnessed
    PROVE  FlashInv' /\ SequencesDistinct'
<1>1. FlashInv'
  BY DEF FlashInv, Follows
<1>2. SequencesDistinct'
  BY DEF SequencesDistinct, Used
<1> QED
  BY <1>1, <1>2

\* A call that ends in a failure or a power loss serves nothing any more.
LEMMA CutMemory ==
    ASSUME TypeOK, CutOff, up
    PROVE  /\ job' = NoJob /\ ~Serving'
           /\ MemoryInv' /\ SaveInv'
           /\ up' \in BOOLEAN /\ fault' \in BOOLEAN /\ active' \in Slots \cup {-1}
           /\ sequence' \in 0 .. MaxSequence /\ state' \in Snapshot /\ job' \in Job
           /\ faults' \in 0 .. MaxFaults
<1>1. faults' \in 0 .. MaxFaults
  BY ConstantFacts DEF CutOff, TypeOK
<1>2. CASE Fail
  <2>1. /\ up' /\ fault' /\ job' = NoJob /\ active' = active /\ sequence' = sequence /\ state' = state
        /\ up' \in BOOLEAN /\ fault' \in BOOLEAN
    BY <1>2 DEF Fail, TypeOK
  <2>2. job'.call = "none"
    BY <2>1 DEF NoJob
  <2>3. ~Serving' /\ MemoryInv' /\ SaveInv'
    BY <2>1, <2>2 DEF Serving, MemoryInv, SaveInv
  <2> QED
    BY <1>1, <2>1, <2>3, ConstantFacts DEF TypeOK
<1>3. CASE PowerOff
  <2>1. /\ ~up' /\ ~fault' /\ job' = NoJob /\ active' = -1 /\ sequence' = 0 /\ state' = Unprovisioned
        /\ up' \in BOOLEAN /\ fault' \in BOOLEAN
    BY <1>3 DEF PowerOff
  <2>2. job'.call = "none"
    BY <2>1 DEF NoJob
  <2>3. ~Serving' /\ MemoryInv' /\ SaveInv'
    BY <2>1, <2>2 DEF Serving, MemoryInv, SaveInv
  <2>4. -1 \in Slots \cup {-1} /\ 0 \in 0 .. MaxSequence
    BY ConstantFacts
  <2> QED
    BY <1>1, <2>1, <2>3, <2>4, ConstantFacts
<1> QED
  BY <1>1, <1>2, <1>3 DEF CutOff
-----------------------------------------------------------------------------
(***************************************************************************)
(* The boot.                                                               *)
(***************************************************************************)
LEMMA OpenResumesResetKeeps ==
    ASSUME StoreInv, OpenResumesReset
    PROVE  StoreInv'
<1>1. job' = [NoJob EXCEPT !.call = "reset", !.step = "intent"] /\ up' /\ ~Serving'
  BY DEF OpenResumesReset, StartReset, Serving, NoJob
<1>2. TypeOK'
  <2>1. job' \in Job
    BY <1>1, ConstantFacts DEF Job, NoJob, Calls, Steps
  <2> QED
    BY <2>1 DEF StoreInv, TypeOK, OpenResumesReset, store
<1>3. UNCHANGED <<flash, intent, witnessed, ranges, drawn, retired>> /\ intent # "blank"
  BY DEF OpenResumesReset
<1>6. FlashInv' /\ WitnessInv' /\ SequencesDistinct' /\ RangeInv'
  BY <1>3 DEF StoreInv, FlashInv, WitnessInv, SequencesDistinct, RangeInv, RangesDisjoint
<1>4. MemoryInv' /\ SaveInv'
  BY <1>1 DEF MemoryInv, SaveInv, NoJob
<1>5. ResetInv'
  BY <1>1, ConstantFacts DEF StoreInv, ResetInv, NoJob, OpenResumesReset
<1> QED
  BY <1>2, <1>4, <1>5, <1>6 DEF StoreInv

LEMMA OpenStopsKeeps ==
    ASSUME StoreInv, OpenRefuses \/ OpenReadFails
    PROVE  StoreInv'
<1>1. /\ ~up /\ up' /\ fault' /\ fault' \in BOOLEAN /\ up' \in BOOLEAN /\ faults' \in 0 .. MaxFaults
      /\ UNCHANGED <<flash, intent, active, sequence, state, job, witnessed, ranges, drawn, retired>>
  <2>1. CASE OpenRefuses
    BY <2>1 DEF StoreInv, TypeOK, OpenRefuses
  <2>2. CASE OpenReadFails
    <3>1. faults' \in 0 .. MaxFaults
      BY <2>2, ConstantFacts DEF StoreInv, TypeOK, OpenReadFails
    <3> QED
      BY <2>2, <3>1 DEF OpenReadFails
  <2> QED
    BY <2>1, <2>2
<1>2. job = NoJob /\ job.call = "none" /\ ~Serving'
  BY <1>1 DEF StoreInv, MemoryInv, NoJob, Serving
<1>3. TypeOK'
  BY <1>1 DEF StoreInv, TypeOK
<1>4. FlashInv' /\ WitnessInv' /\ SequencesDistinct' /\ RangeInv'
  BY <1>1 DEF StoreInv, FlashInv, Follows, WitnessInv, SequencesDistinct, RangeInv, RangesDisjoint, Used
<1>5. MemoryInv' /\ SaveInv' /\ ResetInv'
  BY <1>1, <1>2 DEF StoreInv, MemoryInv, SaveInv, ResetInv
<1> QED
  BY <1>3, <1>4, <1>5 DEF StoreInv

LEMMA OpenFindsNothingKeeps ==
    ASSUME StoreInv, OpenFindsNothing
    PROVE  StoreInv'
<1>1. /\ ~up /\ up' /\ up' \in BOOLEAN /\ intent = "blank"
      /\ UNCHANGED <<flash, intent, fault, active, sequence, state, job, witnessed, ranges, drawn, retired, faults>>
  BY DEF OpenFindsNothing, store
<1>2. /\ job = NoJob /\ job.call = "none" /\ ~fault
      /\ active = -1 /\ sequence = 0 /\ state = Unprovisioned
  BY <1>1 DEF StoreInv, MemoryInv, NoJob
<1>3. \A i \in Slots : ~Used(i)
  BY DEF OpenFindsNothing, Used
<1>4. witnessed = NoImage
  BY <1>1, <1>3 DEF StoreInv, FlashInv, WitnessInv
<1>5. TypeOK'
  BY <1>1 DEF StoreInv, TypeOK
<1>6. FlashInv' /\ WitnessInv' /\ SequencesDistinct' /\ RangeInv'
  BY <1>1 DEF StoreInv, FlashInv, Follows, WitnessInv, SequencesDistinct, RangeInv, RangesDisjoint, Used
<1>7. MemoryInv'
  BY <1>1, <1>2, <1>3, <1>4 DEF MemoryInv, NoImage, Used
<1>8. SaveInv' /\ ResetInv'
  BY <1>1, <1>2 DEF StoreInv, SaveInv, ResetInv
<1> QED
  BY <1>5, <1>6, <1>7, <1>8 DEF StoreInv
\* The newest image is the witnessed one or its successor.
LEMMA OpenRecoversKeeps ==
    ASSUME StoreInv, NEW i \in Slots, OpenRecovers(i)
    PROVE  StoreInv'
<1> DEFINE image == flash[i].image
<1>1. /\ ~up /\ up' /\ up' \in BOOLEAN /\ intent = "blank"
      /\ active' = i /\ sequence' = image.sequence /\ state' = image.state /\ witnessed' = Newer(image)
      /\ UNCHANGED <<flash, intent, fault, job, ranges, drawn, retired, faults>>
  BY DEF OpenRecovers
<1>2. job = NoJob /\ job.call = "none" /\ ~fault
  BY <1>1 DEF StoreInv, MemoryInv, NoJob
<1>3. Committed(flash[i]) /\ Used(i)
  BY DEF OpenRecovers, IsNewest, Committed, Used, Empty
<1>4. image \in Image /\ image.sequence \in 0 .. MaxSequence /\ image.state \in Snapshot
  BY DEF StoreInv, TypeOK, Sector, Image
<1>5. witnessed \in Image /\ witnessed.sequence \in 0 .. MaxSequence
  BY DEF StoreInv, TypeOK, Image
<1>6. \A j \in Slots : Used(j) => flash[j].image.sequence <= image.sequence
  <2> SUFFICES ASSUME NEW j \in Slots, Used(j) PROVE flash[j].image.sequence <= image.sequence
    OBVIOUS
  <2>1. ~Damaged(flash[j])
    BY DEF OpenRecovers, Ambiguous
  <2>2. Committed(flash[j])
    BY <2>1 DEF Damaged, Used
  <2> QED
    BY <2>2 DEF OpenRecovers, IsNewest
<1>7. image.sequence >= 1 /\ image.state.identity \in retired + 1 .. drawn
  BY <1>1, <1>3, <1>4, <1>5, ConstantFacts DEF StoreInv, FlashInv
<1>8. witnessed' = image
  <2>1. CASE witnessed.sequence = 0
    BY <1>1, <1>4, <1>7, <2>1 DEF Newer
  <2>2. CASE witnessed.sequence # 0
    <3>1. PICK j \in Slots : Used(j) /\ flash[j].image = witnessed
      BY <1>1, <2>2 DEF StoreInv, FlashInv
    <3>2. witnessed.sequence <= image.sequence
      BY <1>6, <3>1
    <3>3. image.sequence = witnessed.sequence => image = witnessed
      BY <1>1, <1>3 DEF StoreInv, FlashInv
    <3> QED
      BY <1>1, <1>4, <1>5, <3>2, <3>3 DEF Newer
  <2> QED
    BY <2>1, <2>2
<1>9. TypeOK'
  BY <1>1, <1>4, <1>8 DEF StoreInv, TypeOK
<1>10. SequencesDistinct'
  BY <1>1 DEF StoreInv, SequencesDistinct
<1>11. FlashInv'
  <2>1. \A j \in Slots : Used(j) =>
           /\ flash[j].image.sequence \in 1 .. image.sequence + 1
           /\ flash[j].image.state.identity \in retired + 1 .. drawn
    BY <1>1, <1>4, <1>6, ConstantFacts DEF StoreInv, FlashInv, TypeOK, Sector, Image
  <2>2. \A j \in Slots : Used(j) /\ flash[j].image.sequence = image.sequence => flash[j].image = image
    BY <1>3 DEF StoreInv, SequencesDistinct, Used
  <2>3. \A j \in Slots : Used(j) => flash[j].image.sequence # image.sequence + 1
    BY <1>4, <1>6 DEF StoreInv, TypeOK, Sector, Image
  <2> QED
    BY <1>1, <1>3, <1>8, <2>1, <2>2, <2>3 DEF FlashInv, Used
<1>12. WitnessInv'
  BY <1>1, <1>4, <1>7, <1>8 DEF WitnessInv
<1>13. MemoryInv'
  <2>1. [sequence |-> image.sequence, state |-> image.state] = image
    BY <1>4 DEF Image
  <2>2. i # -1
    BY ConstantFacts DEF Slots
  <2> QED
    BY <1>1, <1>3, <1>4, <1>6, <1>7, <1>8, <2>1, <2>2 DEF MemoryInv, Used
<1>14. SaveInv' /\ ResetInv'
  BY <1>1, <1>2 DEF StoreInv, SaveInv, ResetInv
<1>15. RangeInv'
  <2>1. CASE witnessed.sequence = 0
    <3>1. witnessed.state.identity = 0
      BY <2>1 DEF StoreInv, WitnessInv, NoImage, Unprovisioned
    <3>2. \A r \in ranges : r.identity \in 1 .. drawn /\ r.identity <= retired
      BY <3>1, ConstantFacts DEF StoreInv, RangeInv, TypeOK
    <3> QED
      BY <1>1, <1>7, <1>8, <3>2, ConstantFacts DEF StoreInv, RangeInv, RangesDisjoint, TypeOK
  <2>2. CASE witnessed.sequence # 0
    <3>1. image.state.identity = witnessed.state.identity
          /\ image.state.nonce_end >= witnessed.state.nonce_end
      <4>1. CASE image.sequence = witnessed.sequence
        <5>1. image = witnessed
          BY <1>1, <1>3, <4>1 DEF StoreInv, FlashInv
        <5> QED
          BY <1>4, <5>1, ConstantFacts DEF Snapshot
      <4>2. CASE image.sequence # witnessed.sequence
        <5>1. PICK j \in Slots : Used(j) /\ flash[j].image = witnessed
          BY <1>1, <2>2 DEF StoreInv, FlashInv
        <5>2. witnessed.sequence <= image.sequence
          BY <1>6, <5>1
        <5>3. image.sequence = witnessed.sequence + 1
          BY <1>1, <1>3, <1>4, <1>5, <4>2, <5>2 DEF StoreInv, FlashInv
        <5> QED
          BY <1>1, <1>3, <2>2, <5>3 DEF StoreInv, FlashInv, Follows
      <4> QED
        BY <4>1, <4>2
    <3>2. witnessed.state \in Snapshot
      BY <1>5 DEF Image
    <3>3. \A r \in ranges : r.end \in Nat
      BY ConstantFacts DEF StoreInv, TypeOK, Range
    <3> QED
      BY <1>1, <1>4, <1>8, <3>1, <3>2, <3>3, ConstantFacts
      DEF StoreInv, RangeInv, RangesDisjoint, Snapshot
  <2> QED
    BY <2>1, <2>2
<1> QED
  BY <1>9, <1>10, <1>11, <1>12, <1>13, <1>14, <1>15 DEF StoreInv
-----------------------------------------------------------------------------
(***************************************************************************)
(* A save begins.                                                          *)
(***************************************************************************)
\* The callers of qt_store_save differ only in the snapshot they ask for.
LEMMA SaveBeginsKeeps ==
    ASSUME StoreInv, Ready,
           NEW next \in Snapshot, NEW reserves \in BOOLEAN, Save(next, reserves),
           UNCHANGED <<flash, intent, witnessed, ranges, retired, faults>>,
           drawn' \in drawn .. MaxIdentities,
           next.identity \in retired + 1 .. drawn', Follows(next),
           reserves => state.identity # 0
    PROVE  StoreInv'
<1>1. drawn \in 0 .. MaxIdentities /\ retired \in 0 .. drawn /\ drawn \in Nat /\ drawn' \in Nat
  BY ConstantFacts DEF StoreInv, TypeOK
<1>2. Serving /\ up /\ ~fault /\ job.call = "none" /\ intent = "blank"
  BY DEF Ready, Serving, StoreInv, MemoryInv
<1>3. /\ UNCHANGED <<up, active, sequence, state>>
      /\ \/ fault' /\ fault' \in BOOLEAN /\ job' = NoJob
         \/ /\ sequence < MaxSequence /\ UNCHANGED fault
            /\ job' = [call |-> "save", step |-> "erase", at |-> 0, next |-> next, reserves |-> reserves]
  <2>1. CASE sequence = MaxSequence
    BY <2>1 DEF Save, Fail
  <2>2. CASE sequence # MaxSequence
    <3>1. sequence < MaxSequence
      BY <2>2, ConstantFacts DEF StoreInv, TypeOK
    <3> QED
      BY <2>2, <3>1 DEF Save, store
  <2> QED
    BY <2>1, <2>2
<1>4. TypeOK'
  <2>1. job' \in Job
    <3>1. 0 \in 0 .. Sectors + Pages
      BY ConstantFacts
    <3> QED
      BY <1>3, <3>1, ConstantFacts DEF Job, Calls, Steps
  <2>2. drawn' \in 0 .. MaxIdentities /\ retired' \in 0 .. drawn'
    BY <1>1, ConstantFacts
  <2>3. fault' \in BOOLEAN
    BY <1>3 DEF StoreInv, TypeOK
  <2> QED
    BY <1>3, <2>1, <2>2, <2>3 DEF StoreInv, TypeOK
<1>5. FlashInv' /\ WitnessInv' /\ SequencesDistinct'
  <2>1. \A n \in retired + 1 .. drawn : n \in retired' + 1 .. drawn'
    BY <1>1, ConstantFacts
  <2> QED
    BY <2>1 DEF StoreInv, FlashInv, Follows, WitnessInv, SequencesDistinct, Used
<1>6. RangeInv'
  <2>1. \A n \in 1 .. drawn : n \in 1 .. drawn'
    BY <1>1, ConstantFacts
  <2> QED
    BY <2>1 DEF StoreInv, RangeInv, RangesDisjoint
<1>7. MemoryInv'
  <2>1. Serving' => UNCHANGED <<active, sequence, state>>
    BY <1>3
  <2> QED
    BY <1>2, <1>3, <2>1 DEF StoreInv, MemoryInv, Used
<1>8. SaveInv' /\ ResetInv'
  <2>1. CASE job' = NoJob
    <3>1. job'.call = "none"
      BY <2>1 DEF NoJob
    <3> QED
      BY <1>2, <3>1 DEF SaveInv, ResetInv
  <2>2. CASE job' # NoJob
    <3>1. /\ job'.call = "save" /\ job'.step = "erase" /\ job'.at = 0 /\ job'.next = next
          /\ job'.reserves = reserves /\ UNCHANGED fault /\ sequence < MaxSequence
      BY <1>3, <2>2
    <3>2. Follows(job.next)'
      BY <3>1 DEF Follows
    <3> QED
      BY <1>2, <1>3, <3>1, <3>2, ConstantFacts DEF SaveInv, ResetInv
  <2> QED
    BY <2>1, <2>2
<1> QED
  BY <1>4, <1>5, <1>6, <1>7, <1>8 DEF StoreInv

\* While it serves, the snapshot in memory is the witnessed one.
LEMMA ReadyFacts ==
    ASSUME StoreInv, Ready
    PROVE  /\ witnessed.sequence = sequence /\ witnessed.state = state
           /\ state \in Snapshot
           /\ drawn \in 0 .. MaxIdentities /\ retired \in 0 .. drawn
           /\ state.identity # 0 =>
                 sequence # 0 /\ state.identity \in retired + 1 .. drawn
           /\ state.identity = 0 => sequence = 0
<1>1. witnessed = [sequence |-> sequence, state |-> state]
  BY DEF Ready, Serving, StoreInv, MemoryInv
<1>2. /\ witnessed.sequence = sequence /\ witnessed.state = state /\ state \in Snapshot
      /\ drawn \in 0 .. MaxIdentities /\ retired \in 0 .. drawn
  BY <1>1 DEF StoreInv, TypeOK
<1>3. CASE sequence = 0
  <2>1. witnessed = NoImage
    BY <1>2, <1>3 DEF StoreInv, WitnessInv
  <2>2. state.identity = 0
    BY <1>2, <2>1 DEF NoImage, Unprovisioned
  <2> QED
    BY <1>2, <1>3, <2>2
<1>4. CASE sequence # 0
  <2>1. state.identity \in retired + 1 .. drawn
    BY <1>2, <1>4 DEF StoreInv, WitnessInv
  <2>2. state.identity # 0
    BY <1>2, <2>1, ConstantFacts
  <2> QED
    BY <1>2, <1>4, <2>1, <2>2
<1> QED
  BY <1>3, <1>4

LEMMA SaveIdentityKeeps ==
    ASSUME StoreInv, SaveIdentity
    PROVE  StoreInv'
<1> DEFINE next == [Unprovisioned EXCEPT !.identity = drawn + 1]
<1>1. Ready /\ state.identity = 0 /\ drawn < MaxIdentities /\ drawn' = drawn + 1 /\ Save(next, FALSE)
      /\ UNCHANGED <<flash, intent, witnessed, ranges, retired, faults>>
  BY DEF SaveIdentity
<1>2. drawn \in Nat /\ retired \in 0 .. drawn
  BY ConstantFacts DEF StoreInv, TypeOK
<1>3. next \in Snapshot /\ next.identity = drawn + 1 /\ next.nonce_end = 0
  BY <1>1, <1>2, ConstantFacts DEF Unprovisioned, Snapshot
<1>4. Follows(next)
  BY <1>1, <1>3, ReadyFacts DEF Follows
<1>5. drawn' \in drawn .. MaxIdentities /\ next.identity \in retired + 1 .. drawn'
  BY <1>1, <1>2, <1>3, ConstantFacts
<1> HIDE DEF next
<1> QED
  BY <1>1, <1>3, <1>4, <1>5, SaveBeginsKeeps

LEMMA StoreCommitKeeps ==
    ASSUME StoreInv, NEW generation \in 0 .. MaxGeneration, StoreCommit(generation)
    PROVE  StoreInv'
<1> DEFINE next == [state EXCEPT !.generation = generation + 1]
<1>1. Ready /\ state.identity # 0 /\ generation < MaxGeneration /\ Save(next, FALSE)
      /\ UNCHANGED <<flash, intent, witnessed, ranges, drawn, retired, faults>>
  BY DEF StoreCommit
<1>2. state \in Snapshot /\ generation + 1 \in 0 .. MaxGeneration
  BY <1>1, ReadyFacts, ConstantFacts
<1>3. next \in Snapshot /\ next.identity = state.identity /\ next.nonce_end = state.nonce_end
  BY <1>2 DEF Snapshot
<1>4. Follows(next)
  BY <1>1, <1>2, <1>3, ReadyFacts, ConstantFacts DEF Follows, Snapshot
<1>5. drawn' \in drawn .. MaxIdentities /\ next.identity \in retired + 1 .. drawn'
  BY <1>1, <1>3, ReadyFacts, ConstantFacts
<1> HIDE DEF next
<1> QED
  BY <1>1, <1>3, <1>4, <1>5, SaveBeginsKeeps

LEMMA StoreReserveKeeps ==
    ASSUME StoreInv, NEW domain \in Domains, NEW count \in 1 .. MaxNonce, StoreReserve(domain, count)
    PROVE  StoreInv'
<1> DEFINE next == [state EXCEPT !.domain = domain, !.nonce_end = @ + count]
<1>1. Ready /\ state.identity # 0 /\ MayReserve(domain, count) /\ Save(next, TRUE)
      /\ UNCHANGED <<flash, intent, witnessed, ranges, drawn, retired, faults>>
  BY DEF StoreReserve
<1>2. state \in Snapshot /\ state.nonce_end \in 0 .. MaxNonce
  BY <1>1, ReadyFacts DEF Snapshot
<1>3. state.nonce_end + count \in 0 .. MaxNonce
  BY <1>1, <1>2, ConstantFacts DEF MayReserve
<1>4. next \in Snapshot /\ next.identity = state.identity /\ next.nonce_end = state.nonce_end + count
  BY <1>2, <1>3 DEF Snapshot
<1>5. Follows(next)
  BY <1>1, <1>2, <1>4, ReadyFacts, ConstantFacts DEF Follows
<1>6. drawn' \in drawn .. MaxIdentities /\ next.identity \in retired + 1 .. drawn'
  BY <1>1, <1>4, ReadyFacts, ConstantFacts
<1> HIDE DEF next
<1> QED
  BY <1>1, <1>4, <1>5, <1>6, SaveBeginsKeeps
-----------------------------------------------------------------------------
(***************************************************************************)
(* A save goes on, or is cut off.                                          *)
(***************************************************************************)
\* What holds while a save is under way, whatever step it is at.
LEMMA SavingFacts ==
    ASSUME StoreInv, up, job.call = "save"
    PROVE  /\ Serving /\ ~fault /\ intent = "blank"
           /\ witnessed.sequence = sequence /\ witnessed.state = state
           /\ sequence \in 0 .. MaxSequence - 1 /\ state \in Snapshot /\ job.next \in Snapshot
           /\ Destination \in Slots /\ Destination # active
           /\ flash[Destination] \in Sector
           /\ Goal \in Image /\ Goal.sequence = sequence + 1 /\ Goal.state = job.next
           /\ job.next.identity \in retired + 1 .. drawn /\ Follows(job.next)
           /\ active = -1 <=> sequence = 0
           /\ active # -1 => active \in Slots /\ Used(active) /\ flash[active].image = witnessed
           /\ \A i \in Slots : Used(i) => flash[i].image.sequence <= sequence
<1>1. Serving /\ ~fault
  BY DEF StoreInv, SaveInv, Serving
<1>2. /\ intent = "blank" /\ witnessed = [sequence |-> sequence, state |-> state]
      /\ active = -1 <=> sequence = 0
      /\ active # -1 => Used(active) /\ flash[active].image = witnessed
      /\ \A i \in Slots : Used(i) => flash[i].image.sequence <= sequence
  BY <1>1 DEF StoreInv, MemoryInv
<1>3. sequence \in 0 .. MaxSequence - 1
  BY ConstantFacts DEF StoreInv, TypeOK, SaveInv
<1>4. /\ state \in Snapshot /\ job.next \in Snapshot /\ flash \in [Slots -> Sector]
      /\ active # -1 => active \in Slots
  BY DEF StoreInv, TypeOK, Job
<1>5. Goal \in Image /\ Goal.sequence = sequence + 1 /\ Goal.state = job.next
  BY <1>3, <1>4, ConstantFacts DEF Goal, Image
<1>6. Destination \in Slots /\ Destination # active
  BY DestinationIsFree DEF StoreInv
<1>7. job.next.identity \in retired + 1 .. drawn /\ Follows(job.next)
  BY DEF StoreInv, SaveInv
<1> QED
  BY <1>1, <1>2, <1>3, <1>4, <1>5, <1>6, <1>7

\* A step of a save that serves on: the flash changes at the destination only,
\* and no image appears on it.
LEMMA SaveStepKeeps ==
    ASSUME StoreInv, up, job.call = "save",
           UNCHANGED <<intent, up, store, witnessed, ranges, drawn, retired, faults>>,
           NEW sector \in Sector, flash' = [flash EXCEPT ![Destination] = sector],
           sector.mark = "blank",
           job' \in Job, job'.call = "save", job'.next = job.next, job'.reserves = job.reserves,
           job'.step \in {"body", "mark"}, job'.at \in 0 .. Pages,
           job'.step # "mark" => job'.at < Pages,
           job'.step = "mark" => sector.image = Goal
    PROVE  StoreInv'
<1>1. UNCHANGED <<fault, active, sequence, state>>
  BY DEF store
<1>2. flash'[Destination] = sector /\ \A i \in Slots : i # Destination => flash'[i] = flash[i]
  BY SavingFacts DEF StoreInv, TypeOK
<1>3. TypeOK'
  BY <1>1, SavingFacts DEF StoreInv, TypeOK
<1>4. ~Used(Destination)' /\ \A i \in Slots : i # Destination => (Used(i)' <=> Used(i))
  <2>1. Destination' = Destination
    BY <1>1 DEF Destination
  <2> QED
    BY <1>2, <2>1 DEF Used, Empty
<1>5. FlashInv' /\ SequencesDistinct'
  <2>1. \A i \in Slots : Used(i)' => i # Destination
    BY <1>2 DEF Used, Empty
  <2>2. \A i \in Slots : Used(i)' => Used(i) /\ flash'[i].image = flash[i].image
    BY <1>2, <1>4, <2>1
  <2>3. witnessed.sequence # 0 => \E i \in Slots : Used(i)' /\ flash'[i].image = witnessed
    BY <1>2, <1>4, SavingFacts
  <2> QED
    BY <2>2, <2>3, FlashKeeps DEF StoreInv
<1>6. WitnessInv' /\ RangeInv'
  BY DEF StoreInv, WitnessInv, RangeInv, RangesDisjoint
<1>7. MemoryInv'
  <2>1. \A i \in Slots : Used(i)' => flash'[i].image.sequence <= sequence
    <3>1. \A i \in Slots : Used(i)' => i # Destination
      BY <1>2 DEF Used, Empty
    <3> QED
      BY <1>2, <1>4, <3>1, SavingFacts
  <2>2. active # -1 => flash'[active] = flash[active] /\ ~Empty(flash'[active]) /\ flash'[active].image = witnessed
    <3>1. active # -1 => active \in Slots /\ active # Destination /\ ~Empty(flash[active])
                         /\ flash[active].image = witnessed
      BY SavingFacts DEF Used
    <3> QED
      BY <1>2, <3>1 DEF Empty
  <2>3. /\ intent' = "blank" /\ witnessed' = [sequence |-> sequence', state |-> state']
        /\ active' = -1 <=> sequence' = 0
    BY <1>1, SavingFacts DEF StoreInv, MemoryInv
  <2>4. active' # -1 => ~Empty(flash'[active']) /\ flash'[active'].image = witnessed'
    BY <1>1, <2>2
  <2>5. up'
    OBVIOUS
  <2> QED
    BY <1>1, <2>1, <2>3, <2>4, <2>5 DEF MemoryInv, Used
<1>8. SaveInv'
  <2>1. Goal' = Goal /\ Destination' = Destination
    BY <1>1 DEF Goal, Destination
  <2>2. Follows(job.next)'
    BY SavingFacts DEF Follows
  <2>3. sequence' < MaxSequence
    BY <1>1, SavingFacts, ConstantFacts
  <2>4. ~Used(Destination)' /\ (job'.step = "mark" => flash'[Destination].image = Goal)
    BY <1>2, <1>4
  <2>5. up' /\ ~fault' /\ (job'.reserves => state'.identity # 0)
        /\ job'.next.identity \in retired' + 1 .. drawn'
    BY <1>1, SavingFacts DEF StoreInv, SaveInv
  <2> QED
    BY <2>1, <2>2, <2>3, <2>4, <2>5 DEF SaveInv
<1>9. ResetInv'
  BY DEF StoreInv, ResetInv
<1> QED
  BY <1>3, <1>5, <1>6, <1>7, <1>8, <1>9 DEF StoreInv

LEMMA SaveErasesKeeps ==
    ASSUME StoreInv, SaveErases
    PROVE  StoreInv'
<1>1. /\ up /\ job.call = "save" /\ job.step = "erase"
      /\ UNCHANGED <<intent, up, store, witnessed, ranges, drawn, retired, faults>>
      /\ flash' = [flash EXCEPT ![Destination] = Erased] /\ job' = [job EXCEPT !.step = "body"]
  BY DEF SaveErases, Saving
<1>2. job \in Job /\ job.at \in 0 .. Pages /\ job.at < Pages
  BY <1>1 DEF StoreInv, TypeOK, SaveInv
<1>3. /\ job' \in Job /\ job'.call = "save" /\ job'.next = job.next /\ job'.reserves = job.reserves
      /\ job'.step = "body" /\ job'.at = job.at
  BY <1>1, <1>2 DEF Job, Steps
<1>4. Erased \in Sector /\ Erased.mark = "blank"
  BY ConstantFacts DEF Erased
<1> QED
  BY <1>1, <1>2, <1>3, <1>4, SaveStepKeeps

LEMMA SaveProgramsBodyKeeps ==
    ASSUME StoreInv, SaveProgramsBody
    PROVE  StoreInv'
<1> DEFINE body == IF job.at + 1 = Pages THEN "whole" ELSE "torn"
           sector == [flash[Destination] EXCEPT !.body = body, !.image = Goal]
<1>1. /\ up /\ job.call = "save" /\ job.step = "body"
      /\ UNCHANGED <<intent, up, store, witnessed, ranges, drawn, retired, faults>>
      /\ flash' = [flash EXCEPT ![Destination].body = body, ![Destination].image = Goal]
      /\ job' = [job EXCEPT !.at = @ + 1, !.step = IF job.at + 1 = Pages THEN "mark" ELSE "body"]
  BY DEF SaveProgramsBody, Saving
<1>2. job \in Job /\ job.at \in 0 .. Pages /\ job.at < Pages
  BY <1>1 DEF StoreInv, TypeOK, SaveInv
<1>3. job.at + 1 \in 0 .. Pages /\ job.at + 1 \in 0 .. Sectors + Pages
  BY <1>2, ConstantFacts
<1>4. /\ job' \in Job /\ job'.call = "save" /\ job'.next = job.next /\ job'.reserves = job.reserves
      /\ job'.step \in {"body", "mark"} /\ job'.at = job.at + 1
      /\ job'.step # "mark" => job'.at < Pages
  <2>1. job.at + 1 # Pages => job.at + 1 < Pages
    BY <1>3, ConstantFacts
  <2>2. (IF job.at + 1 = Pages THEN "mark" ELSE "body") \in {"body", "mark"}
    OBVIOUS
  <2> QED
    BY <1>1, <1>2, <1>3, <2>1, <2>2 DEF Job, Steps
<1>5. flash' = [flash EXCEPT ![Destination] = sector]
  BY <1>1, SavingFacts DEF StoreInv, TypeOK, Sector
<1>6. flash[Destination].mark = "blank"
  BY <1>1 DEF StoreInv, SaveInv, Used, Empty
<1>7. sector \in Sector /\ sector.mark = "blank" /\ sector.image = Goal
  BY <1>1, <1>6, SavingFacts DEF Sector, Area
<1> HIDE DEF sector
<1> QED
  BY <1>1, <1>3, <1>4, <1>5, <1>7, SaveStepKeeps

\* A new image appears on the flash: the successor of the witnessed one.
LEMMA FlashGains ==
    ASSUME StoreInv, up, job.call = "save", job.step = "mark",
           UNCHANGED <<intent, drawn, retired>>,
           NEW mark \in Area, flash' = [flash EXCEPT ![Destination].mark = mark]
    PROVE  /\ flash' \in [Slots -> Sector]
           /\ \A i \in Slots : i # Destination => flash'[i] = flash[i]
           /\ flash'[Destination].image = Goal /\ flash'[Destination].mark = mark
           /\ SequencesDistinct'
<1>1. flash[Destination].image = Goal
  BY DEF StoreInv, SaveInv
<1>2. flash \in [Slots -> Sector] /\ Destination \in Slots
  BY SavingFacts DEF StoreInv, TypeOK
<1>3. /\ flash' \in [Slots -> Sector]
      /\ \A i \in Slots : i # Destination => flash'[i] = flash[i]
      /\ flash'[Destination].image = Goal /\ flash'[Destination].mark = mark
  BY <1>1, <1>2 DEF Sector
<1>4. \A i \in Slots : i # Destination /\ ~Empty(flash'[i]) => flash'[i].image.sequence <= sequence
  BY <1>3, SavingFacts DEF Used
<1>5. Goal.sequence = sequence + 1 /\ sequence \in Nat /\ \A i \in Slots : flash'[i].image.sequence \in Nat
  BY <1>3, SavingFacts, ConstantFacts DEF Sector, Image
<1>6. \A i, j \in Slots : i # j /\ i # Destination /\ j # Destination
         /\ ~Empty(flash'[i]) /\ ~Empty(flash'[j]) => flash'[i].image.sequence # flash'[j].image.sequence
  BY <1>3 DEF StoreInv, SequencesDistinct
<1>7. SequencesDistinct'
  BY <1>3, <1>4, <1>5, <1>6 DEF SequencesDistinct
<1> QED
  BY <1>3, <1>7

LEMMA SaveCommitsKeeps ==
    ASSUME StoreInv, SaveCommits
    PROVE  StoreInv'
<1>1. /\ up /\ job.call = "save" /\ job.step = "mark"
      /\ UNCHANGED <<intent, up, fault, drawn, retired, faults>>
      /\ flash' = [flash EXCEPT ![Destination].mark = "whole"]
      /\ state' = job.next /\ sequence' = sequence + 1 /\ active' = Destination /\ job' = NoJob
      /\ witnessed' = Goal
  BY DEF SaveCommits, Saving
<1>2. "whole" \in Area
  BY DEF Area
<1>3. /\ flash' \in [Slots -> Sector]
      /\ \A i \in Slots : i # Destination => flash'[i] = flash[i]
      /\ flash'[Destination].image = Goal /\ flash'[Destination].mark = "whole"
      /\ SequencesDistinct'
  BY <1>1, <1>2, FlashGains
<1>4. ~Empty(flash'[Destination])
  BY <1>3 DEF Empty
<1>5. sequence' \in 0 .. MaxSequence /\ sequence' # 0 /\ sequence \in Nat
  BY <1>1, SavingFacts, ConstantFacts
<1>6. DEFINE range == [identity |-> state.identity, first |-> state.nonce_end, end |-> job.next.nonce_end]
<1>7. job.reserves => range \in Range /\ range.identity = job.next.identity
  <2> SUFFICES ASSUME job.reserves PROVE range \in Range /\ range.identity = job.next.identity
    OBVIOUS
  <2>1. state.identity # 0 /\ state \in Snapshot /\ job.next \in Snapshot
    BY <1>1, SavingFacts DEF StoreInv, SaveInv
  <2>2. sequence # 0
    BY <1>1, <2>1, SavingFacts DEF StoreInv, WitnessInv, NoImage, Unprovisioned
  <2>3. job.next.identity = state.identity
    BY <1>1, <2>2, SavingFacts DEF Follows
  <2>4. state.identity \in Identities
    BY <2>1, ConstantFacts DEF Snapshot, Identities
  <2> QED
    BY <2>1, <2>3, <2>4 DEF Range, Snapshot
<1>8. ranges' = IF job.reserves THEN ranges \cup {range} ELSE ranges
  BY DEF SaveCommits
<1> HIDE DEF range
<1>9. TypeOK'
  <2>1. ranges' \in SUBSET Range
    BY <1>7, <1>8 DEF StoreInv, TypeOK
  <2>2. state' \in Snapshot /\ active' \in Slots \cup {-1} /\ witnessed' \in Image /\ job' \in Job
    BY <1>1, SavingFacts, ConstantFacts
  <2> QED
    BY <1>1, <1>3, <1>5, <2>1, <2>2 DEF StoreInv, TypeOK
<1>10. FlashInv'
  <2>1. Goal.sequence = sequence + 1 /\ Goal.state.identity \in retired + 1 .. drawn
    BY <1>1, SavingFacts
  <2>2. \A i \in Slots : i # Destination /\ ~Empty(flash'[i]) =>
           /\ flash'[i].image.sequence \in 1 .. sequence
           /\ flash'[i].image.state.identity \in retired + 1 .. drawn
    BY <1>1, <1>3, <1>5, SavingFacts DEF StoreInv, FlashInv, Used
  <2>3. \A i \in Slots : ~Empty(flash'[i]) =>
           /\ flash'[i].image.sequence \in 1 .. sequence + 1
           /\ flash'[i].image.state.identity \in retired + 1 .. drawn
           /\ flash'[i].image.sequence = sequence + 1 => flash'[i].image = Goal
           /\ flash'[i].image.sequence # sequence + 2
    BY <1>3, <1>5, <2>1, <2>2
  <2>4. \E i \in Slots : ~Empty(flash'[i]) /\ flash'[i].image = Goal
    BY <1>1, <1>3, <1>4, SavingFacts
  <2>5. witnessed' = Goal /\ witnessed'.sequence = sequence + 1 /\ UNCHANGED <<retired, drawn>>
    BY <1>1, <2>1
  <2>6. \A i \in Slots : ~Empty(flash'[i]) =>
           /\ flash'[i].image.sequence \in 1 .. witnessed'.sequence + 1
           /\ flash'[i].image.state.identity \in retired' + 1 .. drawn'
           /\ flash'[i].image.sequence = witnessed'.sequence => flash'[i].image = witnessed'
           /\ flash'[i].image.sequence # witnessed'.sequence + 1
    BY <1>5, <2>3, <2>5
  <2> QED
    BY <2>4, <2>5, <2>6 DEF FlashInv, Used
<1>11. WitnessInv'
  BY <1>1, <1>5, SavingFacts DEF WitnessInv
<1>12. MemoryInv'
  <2>1. [sequence |-> sequence', state |-> state'] = witnessed'
    BY <1>1 DEF Goal
  <2>2. \A i \in Slots : ~Empty(flash'[i]) => flash'[i].image.sequence <= sequence'
    <3> SUFFICES ASSUME NEW i \in Slots, ~Empty(flash'[i]) PROVE flash'[i].image.sequence <= sequence'
      OBVIOUS
    <3>1. CASE i = Destination
      BY <1>1, <1>3, <1>5, <3>1, SavingFacts
    <3>2. CASE i # Destination
      <4>1. flash'[i] = flash[i] /\ flash[i].image.sequence <= sequence
        BY <1>1, <1>3, <3>2, SavingFacts DEF Used
      <4>2. flash[i].image.sequence \in Nat
        BY ConstantFacts DEF StoreInv, TypeOK, Sector, Image
      <4> QED
        BY <1>1, <1>5, <4>1, <4>2
    <3> QED
      BY <3>1, <3>2
  <2>3. active' # -1 /\ sequence' # 0
    BY <1>1, <1>5, SavingFacts, ConstantFacts DEF Slots
  <2>4. ~Empty(flash'[active']) /\ flash'[active'].image = witnessed'
    BY <1>1, <1>3, <1>4
  <2>5. up' /\ intent' = "blank"
    BY <1>1, SavingFacts
  <2> QED
    BY <2>1, <2>2, <2>3, <2>4, <2>5 DEF MemoryInv, Used
<1>13. SaveInv' /\ ResetInv'
  <2>1. job'.call = "none" /\ intent' = "blank"
    BY <1>1, SavingFacts DEF NoJob
  <2> QED
    BY <2>1 DEF SaveInv, ResetInv
<1>14. RangeInv'
  <2>1. /\ \A r \in ranges : /\ r.identity \in 1 .. drawn /\ r.end \in Nat
                             /\ r.identity > retired => r.identity = job.next.identity
                             /\ r.identity = job.next.identity =>
                                   r.identity = state.identity /\ r.end <= state.nonce_end
                                   /\ state.nonce_end <= job.next.nonce_end
    <3>1. CASE sequence = 0
      <4>1. state.identity = 0
        BY <1>1, <3>1, SavingFacts DEF StoreInv, WitnessInv, NoImage, Unprovisioned
      <4>2. \A r \in ranges : r.identity \in 1 .. drawn /\ r.identity <= retired /\ r.end \in Nat
        BY <1>1, <4>1, SavingFacts, ConstantFacts DEF StoreInv, RangeInv, TypeOK, Range
      <4> QED
        BY <1>1, <4>2, SavingFacts, ConstantFacts DEF StoreInv, TypeOK
    <3>2. CASE sequence # 0
      <4>1. job.next.identity = state.identity /\ job.next.nonce_end >= state.nonce_end
        BY <1>1, <3>2, SavingFacts DEF Follows
      <4>2. state.nonce_end \in Nat /\ job.next.nonce_end \in Nat
        BY <1>1, SavingFacts, ConstantFacts DEF Snapshot
      <4>3. \A r \in ranges : r.end \in Nat
        BY ConstantFacts DEF StoreInv, TypeOK, Range
      <4> QED
        BY <1>1, <4>1, <4>2, <4>3, SavingFacts DEF StoreInv, RangeInv
    <3> QED
      BY <3>1, <3>2
  <2>2. job.next.nonce_end \in Nat
    BY <1>1, SavingFacts, ConstantFacts DEF Snapshot
  <2>3. witnessed'.state = job.next /\ job.next.identity \in retired + 1 .. drawn
    BY <1>1, SavingFacts
  <2>4. CASE ~job.reserves
    <3>1. ranges' = ranges
      BY <1>8, <2>4
    <3>2. \A r \in ranges : r.identity = job.next.identity => r.end <= job.next.nonce_end
      BY <1>1, <2>1, <2>2, SavingFacts, ConstantFacts DEF Snapshot
    <3> QED
      BY <1>1, <2>1, <2>3, <3>1, <3>2 DEF StoreInv, RangeInv, RangesDisjoint
  <2>5. CASE job.reserves
    <3>1. ranges' = ranges \cup {range} /\ range.identity = job.next.identity
      BY <1>7, <1>8, <2>5
    <3>2. range.first = state.nonce_end /\ range.end = job.next.nonce_end
      BY DEF range
    <3>3. range.identity \in 1 .. drawn
      BY <1>1, <2>3, <3>1, ConstantFacts DEF StoreInv, TypeOK
    <3>4. \A r \in ranges : r.identity = job.next.identity => r.end <= job.next.nonce_end
      BY <1>1, <2>1, <2>2, SavingFacts, ConstantFacts DEF Snapshot
    <3>5. \A r \in ranges : r.identity = range.identity => r.end <= range.first
      BY <2>1, <3>1, <3>2
    <3>6. RangesDisjoint'
      BY <3>1, <3>5 DEF StoreInv, RangeInv, RangesDisjoint
    <3>7. \A r \in ranges' :
             /\ r.identity \in 1 .. drawn
             /\ r.identity > retired => r.identity = job.next.identity
             /\ r.identity = job.next.identity => r.end <= job.next.nonce_end
      BY <2>1, <2>2, <3>1, <3>2, <3>3, <3>4
    <3> QED
      BY <1>1, <2>3, <3>6, <3>7 DEF RangeInv
  <2> QED
    BY <2>4, <2>5
<1> QED
  BY <1>3, <1>9, <1>10, <1>11, <1>12, <1>13, <1>14 DEF StoreInv

\* After a cut, the call is over; what it did to the flash is all that matters.
LEMMA CutKeeps ==
    ASSUME StoreInv, up, CutOff, UNCHANGED <<intent, witnessed, ranges, drawn, retired>>,
           flash' \in [Slots -> Sector], FlashInv', SequencesDistinct'
    PROVE  StoreInv'
<1>1. TypeOK
  BY DEF StoreInv
<1>2. TypeOK'
  BY <1>1, CutMemory DEF TypeOK
<1>3. WitnessInv' /\ RangeInv'
  BY DEF StoreInv, WitnessInv, RangeInv, RangesDisjoint
<1>4. ResetInv'
  <2>1. job'.call = "none"
    BY <1>1, CutMemory DEF NoJob
  <2> QED
    BY <2>1 DEF StoreInv, ResetInv
<1> QED
  BY <1>1, <1>2, <1>3, <1>4, CutMemory DEF StoreInv

\* An interrupted erase keeps the image of a slot it does not blank.
LEMMA EraseCutFlash ==
    ASSUME TypeOK, NEW d \in Slots,
           NEW body \in AfterErase(flash[d].body), NEW mark \in AfterErase(flash[d].mark),
           flash' = [flash EXCEPT ![d].body = body, ![d].mark = mark]
    PROVE  /\ flash' \in [Slots -> Sector]
           /\ \A i \in Slots : Used(i)' => Used(i) /\ flash'[i].image = flash[i].image
           /\ \A i \in Slots : i # d => flash'[i] = flash[i]
<1>1. flash \in [Slots -> Sector] /\ flash[d] \in Sector
  BY DEF TypeOK
<1>2. body \in Area /\ mark \in Area /\ (flash[d].mark = "blank" => mark = "blank")
  BY <1>1 DEF AfterErase, Sector, Area
<1>3. flash' = [flash EXCEPT ![d] = [flash[d] EXCEPT !.body = body, !.mark = mark]]
  BY <1>1 DEF Sector
<1>4. [flash[d] EXCEPT !.body = body, !.mark = mark] \in Sector
  BY <1>1, <1>2 DEF Sector
<1>5. flash' \in [Slots -> Sector] /\ \A i \in Slots : i # d => flash'[i] = flash[i]
  BY <1>1, <1>3, <1>4
<1>6. flash'[d].mark = mark /\ flash'[d].image = flash[d].image
  BY <1>1, <1>3 DEF Sector
<1> QED
  BY <1>2, <1>5, <1>6 DEF Used, Empty

LEMMA SaveEraseCutKeeps ==
    ASSUME StoreInv, SaveEraseCut
    PROVE  StoreInv'
<1>1. /\ up /\ job.call = "save" /\ CutOff
      /\ UNCHANGED <<intent, witnessed, ranges, drawn, retired>>
  BY DEF SaveEraseCut, Saving
<1>2. PICK body \in AfterErase(flash[Destination].body), mark \in AfterErase(flash[Destination].mark) :
         flash' = [flash EXCEPT ![Destination].body = body, ![Destination].mark = mark]
  BY DEF SaveEraseCut
<1>3. /\ flash' \in [Slots -> Sector]
      /\ \A i \in Slots : Used(i)' => Used(i) /\ flash'[i].image = flash[i].image
      /\ \A i \in Slots : i # Destination => flash'[i] = flash[i]
  BY <1>1, <1>2, SavingFacts, EraseCutFlash DEF StoreInv
<1>4. witnessed.sequence # 0 => \E i \in Slots : Used(i)' /\ flash'[i].image = witnessed
  BY <1>1, <1>3, SavingFacts DEF Used
<1>5. FlashInv' /\ SequencesDistinct'
  BY <1>1, <1>3, <1>4, FlashKeeps DEF StoreInv
<1> QED
  BY <1>1, <1>3, <1>5, CutKeeps

LEMMA SaveBodyCutKeeps ==
    ASSUME StoreInv, SaveBodyCut
    PROVE  StoreInv'
<1>1. /\ up /\ job.call = "save" /\ job.step = "body" /\ CutOff
      /\ UNCHANGED <<intent, witnessed, ranges, drawn, retired>>
  BY DEF SaveBodyCut, Saving
<1>2. PICK body \in AfterProgram(flash[Destination].body) :
         flash' = [flash EXCEPT ![Destination].body = body, ![Destination].image = Goal]
  BY DEF SaveBodyCut
<1>3. flash \in [Slots -> Sector] /\ Destination \in Slots /\ Goal \in Image
      /\ flash[Destination].mark = "blank" /\ body \in Area
  BY <1>1, SavingFacts DEF StoreInv, TypeOK, SaveInv, Used, Empty, AfterProgram, Sector, Area
<1>4. /\ flash' \in [Slots -> Sector]
      /\ \A i \in Slots : i # Destination => flash'[i] = flash[i]
      /\ flash'[Destination].mark = "blank"
  BY <1>2, <1>3 DEF Sector
<1>5. \A i \in Slots : Used(i)' => Used(i) /\ flash'[i].image = flash[i].image
  BY <1>4 DEF Used, Empty
<1>6. witnessed.sequence # 0 => \E i \in Slots : Used(i)' /\ flash'[i].image = witnessed
  BY <1>1, <1>4, SavingFacts DEF Used
<1>7. FlashInv' /\ SequencesDistinct'
  BY <1>1, <1>5, <1>6, FlashKeeps DEF StoreInv
<1> QED
  BY <1>1, <1>4, <1>7, CutKeeps

\* A cut in the commit page leaves the new image in doubt.
LEMMA SaveMarkCutKeeps ==
    ASSUME StoreInv, SaveMarkCut
    PROVE  StoreInv'
<1>1. /\ up /\ job.call = "save" /\ job.step = "mark" /\ CutOff
      /\ UNCHANGED <<intent, witnessed, ranges, drawn, retired>>
  BY DEF SaveMarkCut, Saving
<1>2. PICK mark \in Area : flash' = [flash EXCEPT ![Destination].mark = mark]
  BY DEF SaveMarkCut, AfterProgram, Area
<1>3. /\ flash' \in [Slots -> Sector]
      /\ \A i \in Slots : i # Destination => flash'[i] = flash[i]
      /\ flash'[Destination].image = Goal
      /\ SequencesDistinct'
  BY <1>1, <1>2, FlashGains
<1>4. FlashInv'
  <2>1. \A i \in Slots : i # Destination /\ ~Empty(flash'[i]) =>
           /\ flash'[i].image.sequence \in 1 .. sequence
           /\ flash'[i].image.state.identity \in retired + 1 .. drawn
           /\ flash'[i].image.sequence = sequence => flash'[i].image = witnessed
    BY <1>1, <1>3, SavingFacts, ConstantFacts DEF StoreInv, FlashInv, Used
  <2>2. Goal.sequence = sequence + 1 /\ Goal.state = job.next /\ sequence \in Nat
        /\ job.next.identity \in retired + 1 .. drawn /\ Follows(job.next)
        /\ witnessed.sequence = sequence
    BY <1>1, SavingFacts, ConstantFacts
  <2>3. \A i \in Slots : ~Empty(flash'[i]) =>
           /\ flash'[i].image.sequence \in 1 .. sequence + 1
           /\ flash'[i].image.state.identity \in retired + 1 .. drawn
           /\ flash'[i].image.sequence = sequence => flash'[i].image = witnessed
           /\ flash'[i].image.sequence = sequence + 1 => flash'[i].image.state = job.next
    BY <1>3, <2>1, <2>2
  <2>4. witnessed.sequence # 0 => \E i \in Slots : ~Empty(flash'[i]) /\ flash'[i].image = witnessed
    BY <1>1, <1>3, SavingFacts DEF Used
  <2> QED
    BY <1>1, <2>2, <2>3, <2>4 DEF FlashInv, Used, Follows
<1> QED
  BY <1>1, <1>3, <1>4, CutKeeps

LEMMA DecayKeeps ==
    ASSUME StoreInv, NEW d \in Slots, Decay(d)
    PROVE  StoreInv'
<1>1. /\ faults < MaxFaults /\ faults' = faults + 1 /\ Committed(flash[d])
      /\ UNCHANGED <<intent, up, fault, active, sequence, state, job, witnessed, ranges, drawn, retired>>
  BY DEF Decay, store
<1>2. flash \in [Slots -> Sector] /\ flash[d] \in Sector
  BY DEF StoreInv, TypeOK
<1>3. PICK sector \in Sector : /\ sector.image = flash[d].image /\ ~Empty(sector)
                               /\ flash' = [flash EXCEPT ![d] = sector]
  <2>1. CASE flash' = [flash EXCEPT ![d].body = "torn"]
    <3>1. flash' = [flash EXCEPT ![d] = [flash[d] EXCEPT !.body = "torn"]]
      BY <1>2, <2>1
    <3>2. [flash[d] EXCEPT !.body = "torn"] \in Sector /\ [flash[d] EXCEPT !.body = "torn"].image = flash[d].image
          /\ [flash[d] EXCEPT !.body = "torn"].mark = flash[d].mark
      BY <1>2 DEF Sector, Area
    <3> QED
      BY <1>1, <3>1, <3>2 DEF Committed, Empty
  <2>2. CASE flash' = [flash EXCEPT ![d].mark = "torn"]
    <3>1. flash' = [flash EXCEPT ![d] = [flash[d] EXCEPT !.mark = "torn"]]
      BY <1>2, <2>2
    <3>2. [flash[d] EXCEPT !.mark = "torn"] \in Sector /\ [flash[d] EXCEPT !.mark = "torn"].image = flash[d].image
          /\ [flash[d] EXCEPT !.mark = "torn"].mark = "torn"
      BY <1>2 DEF Sector, Area
    <3> QED
      BY <1>1, <3>1, <3>2 DEF Empty
  <2> QED
    BY <2>1, <2>2 DEF Decay
<1>4. /\ flash' \in [Slots -> Sector]
      /\ \A i \in Slots : (Used(i)' <=> Used(i)) /\ flash'[i].image = flash[i].image
  BY <1>1, <1>2, <1>3 DEF Used, Committed, Empty
<1>5. TypeOK'
  BY <1>1, <1>4, ConstantFacts DEF StoreInv, TypeOK
<1>6. intent = "blank" /\ witnessed.sequence # 0 => \E i \in Slots : Used(i)' /\ flash'[i].image = witnessed
  BY <1>4 DEF StoreInv, FlashInv
<1>7. FlashInv' /\ SequencesDistinct'
  BY <1>1, <1>4, <1>6, FlashKeeps DEF StoreInv
<1>8. WitnessInv' /\ RangeInv'
  BY <1>1 DEF StoreInv, WitnessInv, RangeInv, RangesDisjoint
<1>9. MemoryInv'
  <2>1. \A i \in Slots : (~Empty(flash'[i]) <=> Used(i)) /\ flash'[i].image = flash[i].image
    BY <1>4 DEF Used
  <2>2. Serving' = Serving
    BY <1>1 DEF Serving
  <2>3. active # -1 => active \in Slots
    BY DEF StoreInv, TypeOK
  <2> QED
    BY <1>1, <2>1, <2>2, <2>3 DEF StoreInv, MemoryInv, Used
<1>10. SaveInv'
  <2>1. Goal' = Goal /\ Destination' = Destination /\ Destination \in Slots
    BY <1>1, DestinationIsFree DEF StoreInv, Goal, Destination
  <2>2. (~Used(Destination))' <=> ~Used(Destination)
    BY <1>4, <2>1 DEF Used
  <2>3. flash'[Destination'].image = flash[Destination].image
    BY <1>4, <2>1
  <2>4. Follows(job.next)' <=> Follows(job.next)
    BY <1>1 DEF Follows
  <2> QED
    BY <1>1, <2>1, <2>2, <2>3, <2>4 DEF StoreInv, SaveInv
<1>11. ResetInv'
  <2>1. job.call = "reset" => \A i \in 0 .. job.at - 1 : i \in Slots /\ ~Used(i)
    BY ConstantFacts DEF StoreInv, ResetInv, Slots
  <2> QED
    BY <1>1, <1>4, <2>1 DEF StoreInv, ResetInv
<1> QED
  BY <1>5, <1>7, <1>8, <1>9, <1>10, <1>11 DEF StoreInv
-----------------------------------------------------------------------------
(***************************************************************************)
(* A reset, and a reboot.                                                  *)
(***************************************************************************)
LEMMA ResetKeeps ==
    ASSUME StoreInv, Reset
    PROVE  StoreInv'
<1>1. /\ up /\ job' = [NoJob EXCEPT !.call = "reset", !.step = "intent"]
      /\ UNCHANGED <<flash, intent, up, fault, active, sequence, state, witnessed, ranges, drawn, retired, faults>>
  BY DEF Reset, StartReset, store
<1>2. job'.call = "reset" /\ job'.step = "intent" /\ job'.at = 0 /\ job' \in Job
  BY <1>1, ConstantFacts DEF NoJob, Job, Calls, Steps
<1>3. TypeOK'
  BY <1>1, <1>2 DEF StoreInv, TypeOK
<1>4. FlashInv' /\ WitnessInv' /\ SequencesDistinct' /\ RangeInv'
  BY <1>1 DEF StoreInv, FlashInv, Follows, WitnessInv, SequencesDistinct, RangeInv, RangesDisjoint, Used
<1>5. MemoryInv' /\ SaveInv'
  BY <1>1, <1>2 DEF MemoryInv, SaveInv, Serving
<1>6. ResetInv'
  BY <1>1, <1>2, ConstantFacts DEF StoreInv, ResetInv
<1> QED
  BY <1>3, <1>4, <1>5, <1>6 DEF StoreInv

\* Giving the old identity up settles every claim about it.
LEMMA RetireKeeps ==
    ASSUME StoreInv, Retire, UNCHANGED <<flash, ranges, drawn>>, intent' # "blank"
    PROVE  /\ FlashInv' /\ WitnessInv' /\ SequencesDistinct' /\ RangeInv'
           /\ witnessed' = NoImage /\ retired' = drawn' /\ retired' \in 0 .. drawn' /\ witnessed' \in Image
<1>1. witnessed' = NoImage /\ retired' = drawn /\ drawn \in Nat
  BY ConstantFacts DEF Retire, StoreInv, TypeOK
<1>2. witnessed'.sequence = 0 /\ witnessed'.state.identity = 0
  BY <1>1 DEF NoImage, Unprovisioned
<1>3. FlashInv' /\ SequencesDistinct'
  BY DEF StoreInv, FlashInv, SequencesDistinct
<1>4. WitnessInv'
  BY <1>1, <1>2 DEF WitnessInv
<1>5. \A r \in ranges : r.identity \in 1 .. drawn /\ ~(r.identity > drawn) /\ r.identity # 0
  BY <1>1 DEF StoreInv, RangeInv
<1>6. RangeInv'
  BY <1>1, <1>2, <1>5 DEF StoreInv, RangeInv, RangesDisjoint
<1> QED
  BY <1>1, <1>3, <1>4, <1>6, ConstantFacts

LEMMA ResetRecordsKeeps ==
    ASSUME StoreInv, ResetRecords
    PROVE  StoreInv'
<1>1. /\ up /\ job.call = "reset" /\ job.step = "intent" /\ Retire
      /\ intent' = IF intent = "blank" THEN "whole" ELSE intent
      /\ job' = [job EXCEPT !.step = "erase"]
      /\ UNCHANGED <<flash, up, fault, active, sequence, state, ranges, drawn, faults>>
  BY DEF ResetRecords, Resetting, store
<1>2. job \in Job /\ job.at = 0 /\ intent \in Area
  BY <1>1 DEF StoreInv, TypeOK, ResetInv
<1>3. job'.call = "reset" /\ job'.step = "erase" /\ job'.at = 0 /\ job' \in Job
  BY <1>1, <1>2 DEF Job, Steps
<1>4. intent' # "blank" /\ intent' \in Area
  BY <1>1, <1>2 DEF Area
<1>5. /\ FlashInv' /\ WitnessInv' /\ SequencesDistinct' /\ RangeInv'
      /\ witnessed' = NoImage /\ retired' = drawn' /\ retired' \in 0 .. drawn' /\ witnessed' \in Image
  BY <1>1, <1>4, RetireKeeps
<1>6. TypeOK'
  BY <1>1, <1>3, <1>4, <1>5 DEF StoreInv, TypeOK
<1>7. MemoryInv' /\ SaveInv'
  BY <1>1, <1>3 DEF MemoryInv, SaveInv, Serving
<1>8. ResetInv'
  BY <1>1, <1>3, <1>4, <1>5, ConstantFacts DEF ResetInv
<1> QED
  BY <1>5, <1>6, <1>7, <1>8 DEF StoreInv

LEMMA ResetRecordCutKeeps ==
    ASSUME StoreInv, ResetRecordCut
    PROVE  StoreInv'
<1>1. up /\ intent = "blank" /\ CutOff /\ UNCHANGED <<flash, ranges, drawn>> /\ intent' \in Area
  BY DEF ResetRecordCut, Resetting, AfterProgram, Area
<1>2. CASE intent' = "blank"
  <2>1. UNCHANGED <<intent, witnessed, retired>>
    BY <1>1, <1>2 DEF ResetRecordCut
  <2>2. FlashInv' /\ SequencesDistinct' /\ flash' \in [Slots -> Sector]
    BY <1>1, <2>1 DEF StoreInv, FlashInv, Follows, SequencesDistinct, Used, TypeOK
  <2> QED
    BY <1>1, <2>1, <2>2, CutKeeps
<1>3. CASE intent' # "blank"
  <2>1. Retire
    BY <1>3 DEF ResetRecordCut
  <2>2. /\ FlashInv' /\ WitnessInv' /\ SequencesDistinct' /\ RangeInv'
        /\ witnessed' = NoImage /\ retired' = drawn' /\ retired' \in 0 .. drawn' /\ witnessed' \in Image
    BY <1>1, <1>3, <2>1, RetireKeeps
  <2>3. TypeOK /\ TypeOK'
    BY <1>1, <2>2, CutMemory DEF StoreInv, TypeOK
  <2>4. ResetInv'
    BY <1>1, <2>2, <2>3, CutMemory DEF ResetInv, NoJob
  <2> QED
    BY <1>1, <2>2, <2>3, <2>4, CutMemory DEF StoreInv
<1> QED
  BY <1>2, <1>3

\* While a reset erases, no claim about the flash is left.
LEMMA ErasingFacts ==
    ASSUME StoreInv, Resetting("erase")
    PROVE  /\ up /\ job.call = "reset" /\ intent # "blank" /\ witnessed = NoImage /\ retired = drawn
           /\ job \in Job /\ job.at \in 0 .. Sectors /\ \A i \in 0 .. job.at - 1 : ~Used(i)
           /\ flash \in [Slots -> Sector]
  BY DEF StoreInv, Resetting, ResetInv, TypeOK

LEMMA ResetErasesKeeps ==
    ASSUME StoreInv, ResetErases
    PROVE  StoreInv'
<1>1. /\ Resetting("erase") /\ job.step = "erase" /\ job.at < Sectors
      /\ flash' = [flash EXCEPT ![job.at] = Erased] /\ job' = [job EXCEPT !.at = @ + 1]
      /\ UNCHANGED <<intent, up, fault, active, sequence, state, witnessed, ranges, drawn, retired, faults>>
  BY DEF ResetErases, Resetting, store
<1>2. job.at \in Slots /\ job.at + 1 \in 0 .. Sectors /\ job.at + 1 \in 0 .. Sectors + Pages
  BY <1>1, ErasingFacts, ConstantFacts DEF Slots
<1>3. job'.call = "reset" /\ job'.step = "erase" /\ job'.at = job.at + 1 /\ job' \in Job
  BY <1>1, <1>2, ErasingFacts DEF Job
<1>4. /\ flash' \in [Slots -> Sector] /\ flash'[job.at] = Erased
      /\ \A i \in Slots : i # job.at => flash'[i] = flash[i]
  BY <1>1, <1>2, ErasingFacts, ConstantFacts
<1>5. \A i \in Slots : ~Empty(flash'[i]) => i # job.at /\ ~Empty(flash[i])
  BY <1>4 DEF Empty, Erased
<1>6. TypeOK'
  BY <1>1, <1>3, <1>4 DEF StoreInv, TypeOK
<1>7. FlashInv' /\ SequencesDistinct'
  BY <1>1, <1>4, <1>5, ErasingFacts DEF StoreInv, FlashInv, SequencesDistinct
<1>8. WitnessInv' /\ RangeInv'
  BY <1>1 DEF StoreInv, WitnessInv, RangeInv, RangesDisjoint
<1>9. MemoryInv' /\ SaveInv'
  BY <1>1, <1>3, ErasingFacts DEF MemoryInv, SaveInv, Serving
<1>10. ResetInv'
  <2>1. \A i \in 0 .. job'.at - 1 : Empty(flash'[i])
    <3> SUFFICES ASSUME NEW i \in 0 .. job'.at - 1 PROVE Empty(flash'[i])
      OBVIOUS
    <3>1. CASE i = job.at
      BY <1>4, <3>1 DEF Empty, Erased
    <3>2. CASE i # job.at
      <4>1. i \in 0 .. job.at - 1 /\ i \in Slots
        BY <1>2, <1>3, <3>2, ConstantFacts DEF Slots
      <4> QED
        BY <1>1, <1>4, <3>2, <4>1, ErasingFacts DEF Used
    <3> QED
      BY <3>1, <3>2
  <2> QED
    BY <1>1, <1>2, <1>3, <2>1, ErasingFacts DEF ResetInv, Used
<1> QED
  BY <1>6, <1>7, <1>8, <1>9, <1>10 DEF StoreInv

LEMMA ResetEraseCutKeeps ==
    ASSUME StoreInv, ResetEraseCut
    PROVE  StoreInv'
<1>1. /\ Resetting("erase") /\ job.at < Sectors /\ CutOff
      /\ UNCHANGED <<intent, witnessed, ranges, drawn, retired>>
  BY DEF ResetEraseCut
<1>2. job.at \in Slots
  BY <1>1, ErasingFacts, ConstantFacts DEF Slots
<1>3. PICK body \in AfterErase(flash[job.at].body), mark \in AfterErase(flash[job.at].mark) :
         flash' = [flash EXCEPT ![job.at].body = body, ![job.at].mark = mark]
  BY DEF ResetEraseCut
<1>4. /\ flash' \in [Slots -> Sector]
      /\ \A i \in Slots : Used(i)' => Used(i) /\ flash'[i].image = flash[i].image
  BY <1>2, <1>3, EraseCutFlash DEF StoreInv
<1>5. FlashInv' /\ SequencesDistinct'
  BY <1>1, <1>4, ErasingFacts, FlashKeeps DEF StoreInv
<1> QED
  BY <1>1, <1>4, <1>5, ErasingFacts, CutKeeps

\* With every snapshot erased, the flash holds no image.
LEMMA AllErased ==
    ASSUME StoreInv, Resetting("erase"), job.at = Sectors, UNCHANGED <<flash, witnessed, drawn, retired>>
    PROVE  FlashInv' /\ SequencesDistinct' /\ \A i \in Slots : Empty(flash'[i])
<1>1. \A i \in Slots : Empty(flash[i])
  BY ErasingFacts, ConstantFacts DEF Used, Slots
<1> QED
  BY <1>1, ErasingFacts DEF FlashInv, SequencesDistinct, Used, NoImage

LEMMA ResetFinishesKeeps ==
    ASSUME StoreInv, ResetFinishes
    PROVE  StoreInv'
<1>1. /\ Resetting("erase") /\ job.at = Sectors
      /\ intent' = "blank" /\ ~fault' /\ fault' \in BOOLEAN
      /\ active' = -1 /\ sequence' = 0 /\ state' = Unprovisioned /\ job' = NoJob
      /\ UNCHANGED <<flash, up, witnessed, ranges, drawn, retired, faults>>
  BY DEF ResetFinishes
<1>2. FlashInv' /\ SequencesDistinct' /\ \A i \in Slots : Empty(flash'[i])
  BY <1>1, AllErased
<1>3. TypeOK'
  <2>1. 0 \in 0 .. MaxSequence /\ "blank" \in Area
    BY ConstantFacts DEF Area
  <2> QED
    BY <1>1, <2>1, ConstantFacts DEF StoreInv, TypeOK
<1>4. WitnessInv' /\ RangeInv'
  BY <1>1 DEF StoreInv, WitnessInv, RangeInv, RangesDisjoint
<1>5. job'.call = "none" /\ witnessed' = NoImage /\ up'
  BY <1>1, ErasingFacts DEF NoJob
<1>6. MemoryInv'
  BY <1>1, <1>2, <1>5 DEF MemoryInv, Used, NoImage
<1>7. SaveInv' /\ ResetInv'
  BY <1>1, <1>5 DEF SaveInv, ResetInv
<1> QED
  BY <1>2, <1>3, <1>4, <1>6, <1>7 DEF StoreInv

LEMMA ResetFinishCutKeeps ==
    ASSUME StoreInv, ResetFinishCut
    PROVE  StoreInv'
<1>1. /\ Resetting("erase") /\ job.at = Sectors /\ CutOff /\ up
      /\ UNCHANGED <<flash, witnessed, ranges, drawn, retired>> /\ intent' \in Area
  BY DEF ResetFinishCut, AfterErase, Area, StoreInv, TypeOK, Resetting
<1>2. FlashInv' /\ SequencesDistinct'
  BY <1>1, AllErased
<1>3. TypeOK /\ TypeOK'
  BY <1>1, CutMemory DEF StoreInv, TypeOK
<1>4. WitnessInv' /\ RangeInv'
  BY <1>1 DEF StoreInv, WitnessInv, RangeInv, RangesDisjoint
<1>5. ResetInv'
  <2>1. job'.call = "none"
    BY <1>1, <1>3, CutMemory DEF NoJob
  <2> QED
    BY <1>1, <2>1, ErasingFacts DEF ResetInv
<1> QED
  BY <1>1, <1>2, <1>3, <1>4, <1>5, CutMemory DEF StoreInv

LEMMA RebootKeeps ==
    ASSUME StoreInv, Reboot
    PROVE  StoreInv'
<1>1. /\ ~up' /\ ~fault' /\ active' = -1 /\ sequence' = 0 /\ state' = Unprovisioned /\ job' = NoJob
      /\ up' \in BOOLEAN /\ fault' \in BOOLEAN
      /\ UNCHANGED <<flash, intent, witnessed, ranges, drawn, retired, faults>>
  BY DEF Reboot, PowerOff
<1>2. TypeOK'
  <2>1. 0 \in 0 .. MaxSequence
    BY ConstantFacts
  <2> QED
    BY <1>1, <2>1, ConstantFacts DEF StoreInv, TypeOK
<1>3. FlashInv' /\ WitnessInv' /\ SequencesDistinct' /\ RangeInv'
  BY <1>1 DEF StoreInv, FlashInv, Follows, WitnessInv, SequencesDistinct, RangeInv, RangesDisjoint, Used
<1>4. job'.call = "none"
  BY <1>1 DEF NoJob
<1>5. MemoryInv' /\ SaveInv' /\ ResetInv'
  BY <1>1, <1>4 DEF StoreInv, MemoryInv, SaveInv, ResetInv, Serving
<1> QED
  BY <1>2, <1>3, <1>5 DEF StoreInv

-----------------------------------------------------------------------------
LEMMA NextStore == StoreInv /\ [Next]_vars => StoreInv'
<1> SUFFICES ASSUME StoreInv, [Next]_vars PROVE StoreInv'
  OBVIOUS
<1>1. CASE Open
  BY <1>1, OpenResumesResetKeeps, OpenStopsKeeps, OpenFindsNothingKeeps, OpenRecoversKeeps DEF Open
<1>2. CASE SaveIdentity
  BY <1>2, SaveIdentityKeeps
<1>3. CASE \E generation \in 0 .. MaxGeneration : StoreCommit(generation)
  BY <1>3, StoreCommitKeeps
<1>4. CASE \E domain \in Domains, count \in 1 .. MaxNonce : StoreReserve(domain, count)
  BY <1>4, StoreReserveKeeps
<1>5. CASE SaveSteps
  BY <1>5, SaveErasesKeeps, SaveProgramsBodyKeeps, SaveCommitsKeeps DEF SaveSteps
<1>6. CASE SaveCuts
  BY <1>6, SaveEraseCutKeeps, SaveBodyCutKeeps, SaveMarkCutKeeps DEF SaveCuts
<1>7. CASE Reset
  BY <1>7, ResetKeeps
<1>8. CASE ResetSteps
  BY <1>8, ResetRecordsKeeps, ResetErasesKeeps, ResetFinishesKeeps DEF ResetSteps
<1>9. CASE ResetCuts
  BY <1>9, ResetRecordCutKeeps, ResetEraseCutKeeps, ResetFinishCutKeeps DEF ResetCuts
<1>10. CASE Reboot
  BY <1>10, RebootKeeps
<1>11. CASE \E i \in Slots : Decay(i)
  BY <1>11, DecayKeeps
<1>12. CASE UNCHANGED vars
  BY <1>12 DEF StoreInv, TypeOK, FlashInv, Follows, WitnessInv, MemoryInv, SaveInv, ResetInv, RangeInv,
               RangesDisjoint, SequencesDistinct, Used, Serving, Goal, Destination, vars, store
<1> QED
  BY <1>1, <1>2, <1>3, <1>4, <1>5, <1>6, <1>7, <1>8, <1>9, <1>10, <1>11, <1>12 DEF Next

THEOREM StoreInvariant == Spec => []StoreInv
  BY InitStore, NextStore, PTL DEF Spec

\* Sequences, generations and nonces stay within their width.
THEOREM FlashStoreTypeCorrect == Spec => []TypeOK
<1>1. StoreInv => TypeOK
  BY DEF StoreInv
<1> QED
  BY <1>1, StoreInvariant, PTL

\* The device never serves a state older than one a caller was told of.
THEOREM FlashNeverRollsBack == Spec => []NeverRollsBack
<1>1. StoreInv => NeverRollsBack
  BY DEF StoreInv, MemoryInv, NeverRollsBack
<1> QED
  BY <1>1, StoreInvariant, PTL

\* No nonce of an identity is handed out twice.
THEOREM ReservationsDisjoint == Spec => []RangesDisjoint
<1>1. StoreInv => RangesDisjoint
  BY DEF StoreInv, RangeInv
<1> QED
  BY <1>1, StoreInvariant, PTL

\* An identity whose reset has begun on the flash is never served again.
THEOREM ResetsAreFinal == Spec => []ResetIsFinal
<1>1. ASSUME StoreInv PROVE ResetIsFinal
  <2> SUFFICES ASSUME Serving, state.identity # 0 PROVE state.identity > retired
    BY DEF ResetIsFinal
  <2>1. witnessed.state = state
    BY <1>1 DEF StoreInv, MemoryInv
  <2>2. witnessed.sequence # 0
    BY <1>1, <2>1 DEF StoreInv, WitnessInv, NoImage, Unprovisioned
  <2>3. state.identity \in retired + 1 .. drawn
    BY <1>1, <2>1, <2>2 DEF StoreInv, WitnessInv
  <2>4. retired \in Nat /\ drawn \in Nat
    BY <1>1, ConstantFacts DEF StoreInv, TypeOK
  <2> QED
    BY <2>3, <2>4
<1> QED
  BY <1>1, StoreInvariant, PTL

\* A boot never meets one sequence twice.
THEOREM SequencesStayDistinct == Spec => []SequencesDistinct
<1>1. StoreInv => SequencesDistinct
  BY DEF StoreInv
<1> QED
  BY <1>1, StoreInvariant, PTL

-----------------------------------------------------------------------------
(***************************************************************************)
(* The ring of flash sectors implements the abstract durable register.     *)
(***************************************************************************)
\* The image on the sectors f that is newer than w.
Doubtful(f, w, i) == ~Empty(f[i]) /\ f[i].image.sequence = w.sequence + 1

Doubt(f, w) ==
    IF \E i \in Slots : Doubtful(f, w, i)
    THEN f[CHOOSE i \in Slots : Doubtful(f, w, i)].image
    ELSE NoImage

Distinct(f) ==
    \A i, j \in Slots :
        ~Empty(f[i]) /\ ~Empty(f[j]) /\ i # j => f[i].image.sequence # f[j].image.sequence

LEMMA DoubtIsUnique ==
    ASSUME NEW f, NEW w, Distinct(f), NEW i \in Slots, Doubtful(f, w, i)
    PROVE  Doubt(f, w) = f[i].image
<1> DEFINE j == CHOOSE k \in Slots : Doubtful(f, w, k)
<1>1. j \in Slots /\ Doubtful(f, w, j)
  OBVIOUS
<1>2. j = i
  BY <1>1 DEF Distinct, Doubtful
<1> QED
  BY <1>2 DEF Doubt

LEMMA DoubtIsNone ==
    ASSUME NEW f, NEW w, \A i \in Slots : ~Doubtful(f, w, i)
    PROVE  Doubt(f, w) = NoImage
  BY DEF Doubt

\* The same images make the same doubt.
LEMMA DoubtStays ==
    ASSUME NEW f, NEW g, NEW w, Distinct(f), Distinct(g),
           \A i \in Slots : (~Empty(g[i]) <=> ~Empty(f[i])) /\ g[i].image = f[i].image
    PROVE  Doubt(g, w) = Doubt(f, w)
<1>1. CASE \E i \in Slots : Doubtful(f, w, i)
  <2>1. PICK i \in Slots : Doubtful(f, w, i)
    BY <1>1
  <2>2. Doubtful(g, w, i) /\ g[i].image = f[i].image
    BY <2>1 DEF Doubtful
  <2> QED
    BY <2>1, <2>2, DoubtIsUnique
<1>2. CASE \A i \in Slots : ~Doubtful(f, w, i)
  <2>1. \A i \in Slots : ~Doubtful(g, w, i)
    BY <1>2 DEF Doubtful
  <2> QED
    BY <1>2, <2>1, DoubtIsNone
<1> QED
  BY <1>1, <1>2

LEMMA InDoubtIsDoubt ==
    InDoubt = Doubt(flash, witnessed) /\ InDoubt' = Doubt(flash', witnessed')
  BY DEF InDoubt, Doubt, Doubtful

\* Nothing on the sectors f is newer than w.
LEMMA NothingNewer ==
    ASSUME NEW f \in [Slots -> Sector], NEW w \in Image,
           \A i \in Slots : ~Empty(f[i]) => f[i].image.sequence <= w.sequence
    PROVE  Doubt(f, w) = NoImage
<1>1. w.sequence \in Nat /\ \A i \in Slots : f[i].image.sequence \in Nat
  BY ConstantFacts DEF Sector, Image
<1>2. \A i \in Slots : ~Doubtful(f, w, i)
  BY <1>1 DEF Doubtful
<1> QED
  BY <1>2, DoubtIsNone

\* What the mapping says of two states that satisfy the invariant.
LEMMA MappingFacts ==
    ASSUME StoreInv, StoreInv'
    PROVE  /\ Value = witnessed /\ Value' = witnessed'
           /\ Distinct(flash) /\ Distinct(flash')
           /\ flash \in [Slots -> Sector] /\ flash' \in [Slots -> Sector]
           /\ witnessed \in Image /\ witnessed' \in Image
           /\ Serving \in BOOLEAN /\ Serving' \in BOOLEAN
<1>1. Value = witnessed
  BY DEF StoreInv, MemoryInv, Value
<1>2. Value' = witnessed'
  BY DEF StoreInv, MemoryInv, Value
<1>3. Distinct(flash) /\ Distinct(flash')
  BY DEF StoreInv, SequencesDistinct, Distinct
<1> QED
  BY <1>1, <1>2, <1>3 DEF StoreInv, TypeOK, Serving

\* A running device without a call in progress leaves nothing in doubt.
LEMMA NothingInDoubt ==
    ASSUME StoreInv, Serving
    PROVE  Doubt(flash, witnessed) = NoImage
<1>1. /\ witnessed = [sequence |-> sequence, state |-> state]
      /\ \A i \in Slots : ~Empty(flash[i]) => flash[i].image.sequence <= sequence
  BY DEF StoreInv, MemoryInv, Used
<1>2. flash \in [Slots -> Sector] /\ witnessed \in Image
  BY DEF StoreInv, TypeOK
<1> QED
  BY <1>1, <1>2, NothingNewer

LEMMA RegisterInit == Init => Register!Init
<1> SUFFICES ASSUME Init PROVE Register!Init
  OBVIOUS
<1>1. StoreInv
  BY InitStore
<1>2. ~up /\ witnessed = NoImage /\ \A i \in Slots : ~Doubtful(flash, witnessed, i)
  BY DEF Init, Doubtful, Empty, Erased
<1>3. Pending = NoImage
  BY <1>2, DoubtIsNone, InDoubtIsDoubt DEF Pending
<1>4. Value = NoImage /\ Mode = "off"
  BY <1>2 DEF Value, Serving, Mode
<1> QED
  BY <1>3, <1>4 DEF Register!Init

\* Leaving service, with the write in doubt kept or gone, or staying out of it.
LEMMA Leaves ==
    ASSUME Value' = Value, Mode' \in {"off", "stopped"},
           \/ Pending' = Pending
           \/ Mode # Mode' /\ Pending' = NoImage
    PROVE  [Register!Next]_(Register!vars)
<1>1. CASE Mode = Mode'
  BY <1>1 DEF Register!vars
<1>2. CASE Mode # Mode'
  BY <1>2 DEF Register!Next, Register!Leave
<1> QED
  BY <1>1, <1>2

-----------------------------------------------------------------------------
LEMMA OpenSteps ==
    ASSUME StoreInv, StoreInv', Open
    PROVE  [Register!Next]_(Register!vars)
<1>1. Mode = "off" /\ ~Serving /\ job.call = "none" /\ ~up
  <2>1. ~up
    BY DEF Open, OpenResumesReset, OpenRefuses, OpenReadFails, OpenFindsNothing, OpenRecovers
  <2> QED
    BY <2>1 DEF Mode, Serving, StoreInv, MemoryInv, NoJob
<1>2. CASE OpenResumesReset
  <2>1. intent # "blank" /\ intent' = intent /\ witnessed' = witnessed /\ up' /\ job'.call = "reset"
    BY <1>2 DEF OpenResumesReset, StartReset, NoJob
  <2>2. Pending = NoImage /\ Pending' = NoImage /\ Mode' = "stopped"
    BY <2>1 DEF Pending, Mode, Serving
  <2> QED
    BY <2>1, <2>2, MappingFacts, Leaves
<1>3. CASE OpenRefuses \/ OpenReadFails
  <2>1. UNCHANGED <<flash, intent, witnessed, job>> /\ up' /\ fault'
    BY <1>3 DEF OpenRefuses, OpenReadFails
  <2>2. Pending' = Pending /\ Mode' = "stopped"
    BY <1>1, <2>1, InDoubtIsDoubt DEF Pending, Mode, Serving
  <2> QED
    BY <2>1, <2>2, MappingFacts, Leaves
<1>4. CASE OpenFindsNothing
  <2>1. /\ UNCHANGED <<flash, intent, witnessed, fault, job>> /\ up' /\ intent = "blank"
        /\ \A i \in Slots : Empty(flash[i])
    BY <1>4 DEF OpenFindsNothing, store
  <2>2. ~fault /\ Mode' = "on"
    BY <1>1, <2>1 DEF StoreInv, MemoryInv, Mode, Serving
  <2>3. Doubt(flash, witnessed) = NoImage
    BY <2>1, DoubtIsNone DEF Doubtful
  <2>4. Pending = NoImage /\ Pending' = NoImage
    BY <1>1, <2>1, <2>3, InDoubtIsDoubt DEF Pending
  <2> QED
    BY <1>1, <2>1, <2>2, <2>4, MappingFacts DEF Register!Next, Register!Recover
<1>5. ASSUME NEW i \in Slots, OpenRecovers(i) PROVE [Register!Next]_(Register!vars)
  <2> DEFINE image == flash[i].image
  <2>1. /\ UNCHANGED <<flash, intent, fault, job>> /\ up' /\ intent = "blank"
        /\ sequence' = image.sequence /\ state' = image.state
        /\ ~Empty(flash[i])
    BY <1>5 DEF OpenRecovers, IsNewest, Committed, Empty
  <2>2. ~fault /\ Serving' /\ Mode' = "on"
    BY <1>1, <2>1 DEF StoreInv, MemoryInv, Mode, Serving
  <2>3. image \in Image /\ witnessed \in Image
    BY MappingFacts DEF Sector
  <2>4. Value' = image /\ witnessed' = image
    <3>1. Value' = [sequence |-> image.sequence, state |-> image.state]
      BY <2>1, <2>2 DEF Value
    <3>2. image = [sequence |-> image.sequence, state |-> image.state]
      BY <2>3 DEF Image
    <3> QED
      BY <3>1, <3>2, MappingFacts
  <2>5. Pending' = NoImage
    <3>1. \A j \in Slots : ~Empty(flash'[j]) => flash'[j].image.sequence <= witnessed'.sequence
      BY <2>2 DEF StoreInv, MemoryInv, Used
    <3> QED
      BY <1>1, <2>1, <3>1, MappingFacts, NothingNewer, InDoubtIsDoubt DEF Pending
  <2>6. Pending = Doubt(flash, witnessed)
    BY <1>1, <2>1, InDoubtIsDoubt DEF Pending
  <2>7. image.sequence \in 1 .. witnessed.sequence + 1
        /\ (image.sequence = witnessed.sequence => image = witnessed)
    BY <2>1 DEF StoreInv, FlashInv, Used
  <2>8. image = IF Pending = NoImage THEN witnessed ELSE Pending
    <3>1. CASE image.sequence = witnessed.sequence + 1
      <4>1. Pending = image
        BY <2>1, <2>6, <3>1, MappingFacts, DoubtIsUnique DEF Doubtful
      <4>2. image # NoImage
        BY <2>3, <2>7, ConstantFacts DEF NoImage, Image
      <4> QED
        BY <4>1, <4>2
    <3>2. CASE image.sequence # witnessed.sequence + 1
      <4>1. \A j \in Slots : ~Empty(flash[j]) => flash[j].image.sequence <= image.sequence
        <5> SUFFICES ASSUME NEW j \in Slots, ~Empty(flash[j]) PROVE flash[j].image.sequence <= image.sequence
          OBVIOUS
        <5>1. Committed(flash[j])
          BY <1>5 DEF OpenRecovers, Ambiguous, Damaged
        <5> QED
          BY <1>5, <5>1 DEF OpenRecovers, IsNewest
      <4>2. \A j \in Slots : ~Doubtful(flash, witnessed, j)
        <5>1. image.sequence \in Nat /\ witnessed.sequence \in Nat
          BY <2>3, ConstantFacts DEF Image
        <5>2. image.sequence < witnessed.sequence + 1
          BY <2>7, <3>2, <5>1
        <5>3. \A j \in Slots : flash[j].image.sequence \in Nat
          BY MappingFacts, ConstantFacts DEF Image, Sector
        <5> QED
          BY <4>1, <5>1, <5>2, <5>3 DEF Doubtful
      <4>3. Pending = NoImage
        BY <2>6, <4>2, DoubtIsNone
      <4>4. image = witnessed
        <5>1. CASE witnessed.sequence = 0
          BY <2>3, <2>7, <3>2, <5>1, ConstantFacts DEF Image
        <5>2. CASE witnessed.sequence # 0
          <6>1. PICK j \in Slots : ~Empty(flash[j]) /\ flash[j].image = witnessed
            BY <2>1, <5>2 DEF StoreInv, FlashInv, Used
          <6>2. witnessed.sequence <= image.sequence
            BY <4>1, <6>1
          <6> QED
            BY <2>3, <2>7, <3>2, <6>2, ConstantFacts DEF Image
        <5> QED
          BY <5>1, <5>2
      <4> QED
        BY <4>3, <4>4
    <3> QED
      BY <3>1, <3>2
  <2> HIDE DEF image
  <2> QED
    BY <1>1, <2>2, <2>4, <2>5, <2>8, MappingFacts DEF Register!Next, Register!Recover
<1> QED
  BY <1>2, <1>3, <1>4, <1>5 DEF Open

\* A caller of qt_store_save offers the next image, or meets the last sequence.
LEMMA SaveBeginsSteps ==
    ASSUME StoreInv, StoreInv', Ready, NEW next, NEW reserves, Save(next, reserves),
           UNCHANGED <<flash, intent, witnessed>>
    PROVE  [Register!Next]_(Register!vars)
<1>1. Serving /\ Mode = "on" /\ intent = "blank" /\ job.call = "none" /\ up
  BY DEF Ready, Serving, Mode, StoreInv, MemoryInv
<1>2. Doubt(flash, witnessed) = NoImage
  BY <1>1, NothingInDoubt
<1>3. Pending = NoImage
  BY <1>1, <1>2, InDoubtIsDoubt DEF Pending
<1>4. CASE sequence = MaxSequence
  <2>1. fault' /\ up' = up /\ job' = NoJob
    BY <1>4 DEF Save, Fail
  <2>2. Mode' = "stopped" /\ Pending' = NoImage
    BY <1>1, <1>2, <2>1, InDoubtIsDoubt DEF Mode, Serving, Pending, NoJob
  <2> QED
    BY <1>1, <1>3, <2>2, MappingFacts, Leaves
<1>5. CASE sequence # MaxSequence
  <2>1. job'.call = "save" /\ UNCHANGED <<up, fault, sequence, state>>
    BY <1>5 DEF Save, store
  <2>2. Mode' = "on" /\ Pending' = Goal'
    BY <1>1, <2>1 DEF Mode, Serving, Pending
  <2>3. Goal' \in Image /\ Goal'.sequence = sequence + 1
    <3>1. job'.next \in Snapshot
      BY DEF StoreInv, TypeOK, Job
    <3>2. sequence + 1 \in 0 .. MaxSequence
      <4>1. sequence \in 0 .. MaxSequence /\ MaxSequence \in Nat
        BY LimitsAssumption DEF StoreInv, TypeOK
      <4> QED
        BY <1>5, <4>1
    <3> QED
      BY <2>1, <3>1, <3>2 DEF Goal, Image
  <2>4. witnessed.sequence = sequence
    BY <1>1 DEF StoreInv, MemoryInv
  <2> QED
    BY <1>1, <1>3, <2>2, <2>3, <2>4, MappingFacts DEF Register!Next, Register!Offer, Register!Successor
<1> QED
  BY <1>4, <1>5

\* A save in progress is the offered write.
LEMMA SavePending ==
    ASSUME StoreInv, up, job.call = "save"
    PROVE  /\ Mode = "on" /\ Pending = Goal /\ Goal # NoImage
           /\ Goal.sequence = witnessed.sequence + 1
           /\ \A i \in Slots : ~Empty(flash[i]) => flash[i].image.sequence <= witnessed.sequence
<1>1. sequence + 1 # 0
  BY SavingFacts, ConstantFacts
<1> QED
  BY <1>1, SavingFacts DEF Mode, Pending, NoImage, Used

LEMMA SaveStepSteps ==
    ASSUME StoreInv, StoreInv', SaveErases \/ SaveProgramsBody
    PROVE  [Register!Next]_(Register!vars)
<1>1. up /\ job.call = "save" /\ UNCHANGED <<intent, up, fault, sequence, witnessed>>
  BY DEF SaveErases, SaveProgramsBody, Saving, store
<1>2. job'.call = "save" /\ job'.next = job.next
  BY <1>1 DEF SaveErases, SaveProgramsBody, StoreInv, TypeOK, Job
<1>3. Mode' = "on" /\ Pending' = Goal
  BY <1>1, <1>2, SavingFacts DEF Mode, Serving, Pending, Goal
<1> QED
  BY <1>1, <1>3, SavePending, MappingFacts DEF Register!vars

LEMMA SaveCommitsSteps ==
    ASSUME StoreInv, StoreInv', SaveCommits
    PROVE  [Register!Next]_(Register!vars)
<1>1. /\ up /\ job.call = "save" /\ UNCHANGED <<intent, up, fault>>
      /\ job'.call = "none" /\ witnessed' = Goal
  BY DEF SaveCommits, Saving, NoJob
<1>2. Serving' /\ Mode' = "on"
  BY <1>1, SavingFacts DEF Serving, Mode
<1>3. \A i \in Slots : ~Empty(flash'[i]) => flash'[i].image.sequence <= witnessed'.sequence
  BY <1>2 DEF StoreInv, MemoryInv, Used
<1>4. Pending' = NoImage
  BY <1>1, <1>3, SavingFacts, MappingFacts, NothingNewer, InDoubtIsDoubt DEF Pending
<1> QED
  BY <1>1, <1>2, <1>4, SavePending, MappingFacts DEF Register!Next, Register!Acknowledge

\* A call that is cut off leaves what is in doubt on the flash.
LEMMA CutPending ==
    ASSUME StoreInv, StoreInv', up, CutOff
    PROVE  /\ Mode # "off" /\ Mode' \in {"off", "stopped"}
           /\ Pending' = IF intent' = "blank" THEN Doubt(flash', witnessed') ELSE NoImage
<1>1. ~Serving' /\ job'.call = "none"
  BY CutMemory DEF StoreInv, NoJob
<1> QED
  BY <1>1, InDoubtIsDoubt DEF Mode, Pending

LEMMA SaveCutSteps ==
    ASSUME StoreInv, StoreInv', SaveCuts
    PROVE  [Register!Next]_(Register!vars)
<1>1. up /\ job.call = "save" /\ CutOff /\ UNCHANGED <<intent, witnessed>>
  BY DEF SaveCuts, SaveEraseCut, SaveBodyCut, SaveMarkCut, Saving
<1>2. /\ Mode = "on" /\ Mode' \in {"off", "stopped"} /\ intent' = "blank"
      /\ Pending' = Doubt(flash', witnessed)
  BY <1>1, SavePending, SavingFacts, CutPending
<1>3. Destination \in Slots
  BY <1>1, SavingFacts
<1>4. CASE SaveEraseCut \/ SaveBodyCut
  <2>1. \A i \in Slots : ~Empty(flash'[i]) => ~Empty(flash[i]) /\ flash'[i].image = flash[i].image
    <3>1. CASE SaveEraseCut
      BY <1>3, <3>1, EraseCutFlash DEF SaveEraseCut, StoreInv, Used
    <3>2. CASE SaveBodyCut
      <4>1. Empty(flash[Destination])
        BY <1>1, <3>2 DEF SaveBodyCut, Saving, StoreInv, SaveInv, Used
      <4>2. PICK body \in AfterProgram(flash[Destination].body) :
               flash' = [flash EXCEPT ![Destination].body = body, ![Destination].image = Goal]
        BY <3>2 DEF SaveBodyCut
      <4>3. Empty(flash'[Destination]) /\ \A i \in Slots : i # Destination => flash'[i] = flash[i]
        BY <1>3, <4>1, <4>2, MappingFacts DEF Empty, Sector
      <4> QED
        BY <4>3
    <3> QED
      BY <1>4, <3>1, <3>2
  <2>2. Pending' = NoImage
    BY <1>1, <1>2, <2>1, SavePending, MappingFacts, NothingNewer
  <2> QED
    BY <1>1, <1>2, <2>2, MappingFacts, Leaves
<1>5. CASE SaveMarkCut
  <2>1. PICK mark \in Area : flash' = [flash EXCEPT ![Destination].mark = mark]
    BY <1>5 DEF SaveMarkCut, AfterProgram, Area
  <2>2. job.step = "mark"
    BY <1>5 DEF SaveMarkCut, Saving
  <2>3. /\ flash'[Destination].image = Goal /\ flash'[Destination].mark = mark
        /\ \A i \in Slots : i # Destination => flash'[i] = flash[i]
    BY <1>1, <1>3, <2>1, <2>2, MappingFacts DEF StoreInv, SaveInv, Sector
  <2>4. CASE mark = "blank"
    <3>1. \A i \in Slots : ~Empty(flash'[i]) => flash'[i].image.sequence <= witnessed.sequence
      BY <1>1, <2>3, <2>4, SavePending DEF Empty
    <3>2. Pending' = NoImage
      BY <1>1, <1>2, <3>1, MappingFacts, NothingNewer
    <3> QED
      BY <1>1, <1>2, <3>2, MappingFacts, Leaves
  <2>5. CASE mark # "blank"
    <3>1. Doubtful(flash', witnessed, Destination)
      BY <1>1, <2>3, <2>5, SavePending DEF Doubtful, Empty
    <3>2. Pending' = Goal
      BY <1>2, <1>3, <2>3, <3>1, MappingFacts, DoubtIsUnique
    <3> QED
      BY <1>1, <1>2, <3>2, SavePending, MappingFacts, Leaves
  <2> QED
    BY <2>4, <2>5
<1> QED
  BY <1>4, <1>5 DEF SaveCuts

-----------------------------------------------------------------------------
LEMMA ResetBeginsSteps ==
    ASSUME StoreInv, StoreInv', Reset
    PROVE  [Register!Next]_(Register!vars)
<1>1. up /\ job.call = "none" /\ up' /\ job'.call = "reset" /\ UNCHANGED <<flash, intent, witnessed>>
  BY DEF Reset, StartReset, NoJob
<1>2. Pending' = Pending /\ Mode' = "stopped"
  BY <1>1, InDoubtIsDoubt DEF Pending, Mode, Serving
<1> QED
  BY <1>1, <1>2, MappingFacts, Leaves

\* The intent gives the value up; while it is there, nothing is in doubt.
LEMMA ResetRecordsSteps ==
    ASSUME StoreInv, StoreInv', ResetRecords \/ ResetRecordCut
    PROVE  [Register!Next]_(Register!vars)
<1>1. up /\ job.call = "reset" /\ Mode = "stopped"
  BY DEF ResetRecords, ResetRecordCut, Resetting, Mode, Serving
<1>2. Mode' \in {"off", "stopped"}
  <2>1. CASE ResetRecords
    BY <1>1, <2>1 DEF ResetRecords, StoreInv, TypeOK, Job, store, Mode, Serving
  <2>2. CASE ResetRecordCut
    BY <1>1, <2>2, CutPending DEF ResetRecordCut
  <2> QED
    BY <2>1, <2>2
<1>3. CASE intent' # "blank"
  <2>1. witnessed' = NoImage /\ Pending' = NoImage
    BY <1>3 DEF ResetRecords, ResetRecordCut, Retire, Pending
  <2> QED
    BY <1>1, <1>2, <2>1, MappingFacts DEF Register!Next, Register!Clear
<1>4. CASE intent' = "blank"
  <2>1. ResetRecordCut /\ intent = "blank" /\ UNCHANGED <<flash, witnessed>>
    BY <1>4 DEF ResetRecords, ResetRecordCut
  <2>2. Pending' = Pending
    BY <1>1, <1>4, <2>1, CutPending, InDoubtIsDoubt DEF ResetRecordCut, Pending
  <2> QED
    BY <1>2, <2>1, <2>2, MappingFacts, Leaves
<1> QED
  BY <1>3, <1>4

LEMMA ResetErasesSteps ==
    ASSUME StoreInv, StoreInv', ResetErases \/ ResetEraseCut \/ ResetFinishCut
    PROVE  [Register!Next]_(Register!vars)
<1>1. Resetting("erase") /\ witnessed' = witnessed
  BY DEF ResetErases, ResetEraseCut, ResetFinishCut
<1>2. up /\ Mode = "stopped" /\ Pending = NoImage
  BY <1>1, ErasingFacts DEF Mode, Serving, Pending
<1>3. Mode' \in {"off", "stopped"} /\ Pending' = NoImage
  <2>1. CASE ResetErases
    <3>1. up' /\ job'.call = "reset" /\ intent' # "blank"
      BY <1>1, <2>1, ErasingFacts DEF ResetErases, Job
    <3> QED
      BY <3>1 DEF Mode, Serving, Pending
  <2>2. CASE ResetEraseCut
    BY <1>1, <1>2, <2>2, ErasingFacts, CutPending DEF ResetEraseCut
  <2>3. CASE ResetFinishCut
    <3>1. /\ job.at = Sectors /\ CutOff /\ UNCHANGED <<flash, witnessed, drawn, retired>>
      BY <2>3 DEF ResetFinishCut
    <3>2. Doubt(flash', witnessed') = NoImage
      BY <1>1, <3>1, AllErased, DoubtIsNone DEF Doubtful
    <3> QED
      BY <1>2, <3>1, <3>2, CutPending
  <2> QED
    BY <2>1, <2>2, <2>3
<1> QED
  BY <1>1, <1>2, <1>3, MappingFacts, Leaves

LEMMA ResetFinishesSteps ==
    ASSUME StoreInv, StoreInv', ResetFinishes
    PROVE  [Register!Next]_(Register!vars)
<1>1. /\ Resetting("erase") /\ job.at = Sectors
      /\ UNCHANGED <<flash, up, witnessed, drawn, retired>>
      /\ ~fault' /\ job'.call = "none"
  BY DEF ResetFinishes, NoJob
<1>2. witnessed = NoImage /\ Mode = "stopped" /\ Pending = NoImage /\ up
  BY <1>1, ErasingFacts DEF Mode, Serving, Pending
<1>3. Doubt(flash', witnessed') = NoImage
  BY <1>1, AllErased, DoubtIsNone DEF Doubtful
<1>4. Mode' = "on" /\ Pending' = NoImage
  BY <1>1, <1>2, <1>3, InDoubtIsDoubt DEF Mode, Serving, Pending
<1> QED
  BY <1>1, <1>2, <1>4, MappingFacts DEF Register!Next, Register!Restart

LEMMA RebootSteps ==
    ASSUME StoreInv, StoreInv', Reboot
    PROVE  [Register!Next]_(Register!vars)
<1>1. job.call = "none" /\ ~up' /\ UNCHANGED <<flash, intent, witnessed>>
  BY DEF Reboot, PowerOff
<1>2. Pending' = Pending /\ Mode' = "off"
  BY <1>1, InDoubtIsDoubt DEF Pending, Mode
<1> QED
  BY <1>1, <1>2, MappingFacts, Leaves

\* The register does not see decay: a slot keeps its image and stays nonblank.
LEMMA DecaySteps ==
    ASSUME StoreInv, StoreInv', NEW d \in Slots, Decay(d)
    PROVE  [Register!Next]_(Register!vars)
<1>1. Committed(flash[d]) /\ UNCHANGED <<intent, up, fault, active, sequence, state, job, witnessed>>
  BY DEF Decay, store
<1>2. \A i \in Slots : (~Empty(flash'[i]) <=> ~Empty(flash[i])) /\ flash'[i].image = flash[i].image
  <2>1. /\ \A i \in Slots : i # d => flash'[i] = flash[i]
        /\ ~Empty(flash'[d]) /\ flash'[d].image = flash[d].image
    BY <1>1, MappingFacts DEF Decay, Committed, Empty, Sector
  <2> QED
    BY <1>1, <2>1 DEF Committed, Empty
<1>3. Doubt(flash', witnessed') = Doubt(flash, witnessed)
  BY <1>1, <1>2, MappingFacts, DoubtStays
<1>4. Pending' = Pending /\ Mode' = Mode
  BY <1>1, <1>3, InDoubtIsDoubt DEF Pending, Mode, Serving, Goal
<1> QED
  BY <1>1, <1>4, MappingFacts DEF Register!vars

LEMMA StutterSteps ==
    ASSUME UNCHANGED vars
    PROVE  UNCHANGED Register!vars
  BY DEF vars, store, Register!vars, Value, Pending, Mode, Serving, Goal, InDoubt, Empty

\* Every step of the store is a step of the register or invisible to it.
LEMMA RegisterStep ==
    StoreInv /\ StoreInv' /\ [Next]_vars => [Register!Next]_(Register!vars)
<1> SUFFICES ASSUME StoreInv, StoreInv', [Next]_vars PROVE [Register!Next]_(Register!vars)
  OBVIOUS
<1>1. CASE Open
  BY <1>1, OpenSteps
<1>2. CASE SaveIdentity
  BY <1>2, SaveBeginsSteps DEF SaveIdentity
<1>3. CASE \E generation \in 0 .. MaxGeneration : StoreCommit(generation)
  BY <1>3, SaveBeginsSteps DEF StoreCommit
<1>4. CASE \E domain \in Domains, count \in 1 .. MaxNonce : StoreReserve(domain, count)
  BY <1>4, SaveBeginsSteps DEF StoreReserve
<1>5. CASE SaveSteps
  BY <1>5, SaveStepSteps, SaveCommitsSteps DEF SaveSteps
<1>6. CASE SaveCuts
  BY <1>6, SaveCutSteps
<1>7. CASE Reset
  BY <1>7, ResetBeginsSteps
<1>8. CASE ResetSteps \/ ResetCuts
  BY <1>8, ResetRecordsSteps, ResetErasesSteps, ResetFinishesSteps DEF ResetSteps, ResetCuts
<1>9. CASE Reboot
  BY <1>9, RebootSteps
<1>10. CASE \E i \in Slots : Decay(i)
  BY <1>10, DecaySteps
<1>11. CASE UNCHANGED vars
  BY <1>11, StutterSteps
<1> QED
  BY <1>1, <1>2, <1>3, <1>4, <1>5, <1>6, <1>7, <1>8, <1>9, <1>10, <1>11 DEF Next

\* RegisterSpec: whatever is cut off or decays, the callers of qt_store_save see
\* one value that is replaced atomically, found done or not done by the next
\* boot, and given up only by a reset.
THEOREM FlashStoreImplementsRegister == Spec => RegisterSpec
<1>1. Init => Register!Init
  BY RegisterInit
<1>2. StoreInv /\ StoreInv' /\ [Next]_vars => [Register!Next]_(Register!vars)
  BY RegisterStep
<1>3. Spec => []StoreInv
  BY StoreInvariant
<1> QED
  BY <1>1, <1>2, <1>3, PTL DEF Spec, RegisterSpec, Register!Spec
=============================================================================
