---------------------------------- MODULE Tour ----------------------------------
(***************************************************************************)
(* The guided demo page (web/app.mjs) over the packets that web/lab.mjs    *)
(* keeps.  The guide tells the visitor what to do next and, after each     *)
(* delivery, what has happened; the visitor may do something else: replay  *)
(* a saved packet, deliver to the wrong endpoint, corrupt, let the session *)
(* expire, restart.  run() lets one handler in at a time, so that a        *)
(* handler is one action here; Lab models what happens inside them.  A     *)
(* drag is two actions: what is picked up is dropped after other events.   *)
(*                                                                         *)
(* Credits are counted in presses of the device's + button.                *)
(***************************************************************************)
EXTENDS ManagedPair, Sequences, FiniteSets

CONSTANTS Grant,      \* presses of the device's + that one issue allows
          LogLimit,   \* packets that the message log keeps (16)
          QueueLimit, \* MAX_QUEUE (64)
          MaxEpochs,  \* bound on resets
          MaxTries,   \* bound on what the visitor does beside the guide
          MaxGranted  \* bound on the credits ever issued

ASSUME TourAssumption ==
    /\ Grant \in Nat \ {0} /\ LogLimit \in Nat \ {0} /\ QueueLimit \in Nat \ {0}
    /\ MaxEpochs \in Nat /\ MaxTries \in Nat /\ MaxGranted \in Nat

VARIABLES
    world,  \* both endpoints and the packets: what Lab holds
    epoch,  \* lab.epoch
    ready,  \* lab.ready
    guide,  \* what the page says: chapter, step and the exercises after it
    held,   \* the packet being dragged, natively or by the pointer (touch)
    tries   \* how often the visitor left the guided path

vars == <<world, epoch, ready, guide, held, tries>>

Roles  == {"device", "server"}
Phases == {"none", "drop", "dropped", "deliver", "repeat", "repeated",
           "report", "reported", "receipt", "done"}
NoOne  == "none"

-----------------------------------------------------------------------------
(***************************************************************************)
(* Lab's operations, on the record of everything it holds.  session        *)
(* numbers the challenges; verified is the challenge of verifiedChallenge. *)
(***************************************************************************)
NoCredits == [granted |-> 0, accepted |-> 0, consumed |-> 0, snapshot |-> 0, reported |-> 0]

\* reset({ deferDevice: true })
FreshWorld(session) ==
    [server |-> NewHost(1), device |-> NewDevice(0, 0), credits |-> NoCredits,
     due |-> FALSE, expired |-> FALSE, session |-> session, verified |-> 0,
     queue |-> {}, log |-> <<>>, toggled |-> {}, next |-> 1]

HasDevice(w) == w.device.key # 0

Cleared(w) == [w EXCEPT !.queue = {}, !.log = <<>>, !.toggled = {}]

\* beginEnrollment
Authorized(w) ==
    [w EXCEPT !.session = @ + 1, !.expired = FALSE,
              !.server = Begun(@, w.session + 1)]

\* approveEnrollment, with the challenge and key on display
MayRegister(w) ==
    /\ MayApprove(w.server, w.server.challenge, w.server.candidate)
    /\ ~w.expired

Registered(w) == [w EXCEPT !.server = Approved(@, w.server.candidate), !.due = TRUE]

\* generateDevice and provisionDevice, then the verified challenge
Provisioned(w) ==
    [w EXCEPT !.device = [NewDevice(1, 1) EXCEPT !.challenge = w.verified]]

Issued(w) == [w EXCEPT !.server = Requested(@), !.credits.granted = @ + Grant]

FrameOf(w, role) ==
    IF role = "server" THEN HostFrame(w.server, w.due) ELSE DeviceFrame(w.device)

\* transmit: refused when the relay is full, null when there is nothing to send
CanTransmit(w, role) == Cardinality(w.queue) < QueueLimit /\ FrameOf(w, role) # Nothing

Transmitted(w, role) ==
    LET packet == [id |-> w.next, origin |-> w.next, bad |-> FALSE,
                   frame |-> FrameOf(w, role),
                   grant |-> w.credits.granted, spent |-> w.credits.snapshot]
        sent   == IF role = "server" THEN [w EXCEPT !.server = HostSent(@, w.due), !.due = FALSE]
                  ELSE [w EXCEPT !.device = DeviceSent(@)]
    IN  [sent EXCEPT !.queue = @ \cup {packet}, !.next = @ + 1]

Takes(w, p, target) ==
    /\ ~p.bad
    /\ CASE target = "server" -> /\ HostAccepts(w.server, p.frame)
                                 /\ w.server.registered \/ ~w.expired
         [] target = "device" /\ HasDevice(w)  -> DeviceAccepts(w.device, p.frame)
         [] target = "device" /\ ~HasDevice(w) -> p.frame.kind = "invitation"

\* What the receiver makes of a packet that it takes.
Received(w, p, target) ==
    CASE target = "server" ->
            [w EXCEPT !.server = HostReceived(@, p.frame),
                      !.due = @ \/ MakesDue(w.server, p.frame),
                      !.credits.reported = IF /\ p.frame.kind = "report"
                                              /\ p.frame.id = w.server.request
                                           THEN p.spent ELSE @]
      [] target = "device" /\ HasDevice(w) ->
            LET new == p.frame.kind = "request" /\ p.frame.id > w.device.got
            IN  [w EXCEPT !.device = DeviceReceived(@, p.frame),
                          !.credits = IF new THEN [@ EXCEPT !.accepted = p.grant,
                                                            !.snapshot = w.credits.consumed]
                                      ELSE @]
      [] target = "device" /\ ~HasDevice(w) -> [w EXCEPT !.verified = p.frame.challenge]

LogIds(log) == {log[i].id : i \in DOMAIN log}

\* remember: newest first; render then forgets the toggles of what fell out
Remembered(w, p) ==
    LET log == SubSeq(<<p>> \o w.log, 1, IF Len(w.log) < LogLimit THEN Len(w.log) + 1 ELSE LogLimit)
    IN  [w EXCEPT !.log = log, !.toggled = @ \cap LogIds(log)]

Unqueued(w, p) == [w EXCEPT !.queue = @ \ {p}]

Delivered(w, p, target) ==
    LET received == IF Takes(w, p, target) THEN Received(w, p, target) ELSE w
    IN  Remembered(Unqueued(received, p), p)

Dropped(w, p) == Remembered(Unqueued(w, p), p)

Copy_SameNumber(w, saved) == [saved EXCEPT !.bad = (@ # (saved.id \in w.toggled))]

\* packetView of a saved packet, under the id that replay gives the copy
Copy(w, saved) ==
    [saved EXCEPT !.id = w.next, !.bad = (@ # (saved.id \in w.toggled))]

-----------------------------------------------------------------------------
(***************************************************************************)
(* The tour's steps.  0..2 enroll, 3..8 exchange credits.                  *)
(***************************************************************************)
Target(step) == IF step \in {1, 4, 7} THEN "server" ELSE "device"
Sender(step) == IF step \in {1, 4, 7} THEN "device" ELSE "server"

\* What prepare does before it transmits.
Prepared(w, step) ==
    CASE step = 0 -> Authorized(w)
      [] step = 1 -> IF HasDevice(w) THEN w ELSE Provisioned(w)
      [] step = 3 -> Issued(w)
      [] step = 6 -> [w EXCEPT !.server = Requested(@)]
      [] OTHER    -> w

ChapterEnd(chapter) == IF chapter = "credits" THEN 8 ELSE 2

\* lesson is errorLesson with errorDone; networkOrigin equals expected, which
\* is set with it.
Intro(chapter) ==
    [chapter |-> chapter, step |-> -1, completed |-> FALSE, expected |-> 0,
     consumedLocally |-> FALSE, lesson |-> "none", phase |-> "none", rejection |-> NoOne]

EnrollingStep(w, step) ==
    LET ready0 == IF step = 2 THEN Registered(w) ELSE w
        sent   == Transmitted(Prepared(ready0, step), Sender(step))
        p      == CHOOSE q \in sent.queue : TRUE
    IN  Delivered(sent, p, Target(step))

\* A direct jump to the credits chapter: a reset, then the three steps at once.
EnrolledWorld(session) ==
    Cleared(EnrollingStep(EnrollingStep(EnrollingStep(FreshWorld(session), 0), 1), 2))

KeepsPair(w) == w.device.registered /\ w.server.registered /\ w.credits.granted = 0

-----------------------------------------------------------------------------
NotHeld == [id |-> 0, saved |-> FALSE, touch |-> FALSE, epoch |-> 0, frame |-> Nothing]

\* intro() forgets a native drag ("dragged"); only cancelTouch() ends a drag by
\* the pointer ("touch").
Kept(drag) == IF drag.touch THEN drag ELSE NotHeld

\* lab.reset, whose workers may fail to load: the page then keeps the guide
\* and the drag that it had, or those that its caller had set.
ResetTo(w, chapter, before, drag) ==
    /\ epoch < MaxEpochs
    /\ epoch' = epoch + 1
    /\ \/ world' = w /\ ready' = TRUE /\ guide' = Intro(chapter) /\ held' = Kept(drag)
       \/ world' = FreshWorld(world.session) /\ ready' = FALSE /\ guide' = before /\ held' = drag

PrepareChapter(chapter, before, drag) ==
    \/ /\ chapter = "credits" /\ KeepsPair(world)
       /\ world' = Cleared(world)
       /\ guide' = Intro(chapter)
       /\ held' = Kept(drag)
       /\ UNCHANGED <<epoch, ready>>
    \/ /\ chapter = "credits" /\ ~KeepsPair(world)
       /\ ResetTo(EnrolledWorld(world.session), chapter, before, drag)
    \/ /\ chapter = "trust"
       /\ ResetTo(FreshWorld(world.session), chapter, before, drag)

-----------------------------------------------------------------------------
\* The page opens with run(prepareChapter).
Init ==
    /\ \E chapter \in {"trust", "credits"} :
          /\ guide = Intro(chapter)
          /\ world = IF chapter = "credits" THEN EnrolledWorld(0) ELSE FreshWorld(0)
    /\ epoch = 0 /\ ready = TRUE /\ held = NotHeld /\ tries = 0

\* The visitor leaves the guided path.
Strays == tries < MaxTries /\ tries' = tries + 1

Follows == UNCHANGED tries

-----------------------------------------------------------------------------
(***************************************************************************)
(* Delivering: dragstart or pointerdown, then drop or pointerup, place and *)
(* what the guide makes of the result.                                     *)
(***************************************************************************)
Pick(p, saved) ==
    /\ ready /\ held = NotHeld
    /\ \E touch \in BOOLEAN :
          held' = [id |-> p.id, saved |-> saved, touch |-> touch, epoch |-> epoch,
                   frame |-> p.frame]
    /\ UNCHANGED <<world, epoch, ready, guide>>

PickPending == \E p \in world.queue : Pick(p, FALSE) /\ Follows

PickSaved == \E i \in DOMAIN world.log : Pick(world.log[i], TRUE) /\ Strays

\* Escape, blur, or a drop outside both endpoints.
LetGo ==
    /\ held # NotHeld
    /\ held' = NotHeld
    /\ Strays
    /\ UNCHANGED <<world, epoch, ready, guide>>

\* The phase that a delivery of the exercise's packet leads to.
Advanced(phase, target) ==
    CASE phase = "deliver" /\ target = "device" -> "repeat"
      [] phase = "repeat"  /\ target = "device" -> "repeated"
      [] phase = "report"  /\ target = "server" -> "reported"
      [] phase = "receipt" /\ target = "device" -> "done"
      [] OTHER -> phase

Told_AnyPacketAdvances(p, target, taken) ==
    [guide EXCEPT !.phase     = IF taken THEN Advanced(@, target) ELSE @,
                  !.completed = \/ @
                                \/ /\ guide.step >= 0 /\ target = Target(guide.step)
                                   /\ p.origin = guide.expected /\ taken]

\* place, after deliver: networkGuide clears a rejection, which taken does too.
Told(p, target, taken) ==
    LET counts == taken /\ p.origin = guide.expected
    IN  [guide EXCEPT
            !.rejection = IF taken THEN NoOne ELSE target,
            !.phase     = IF counts THEN Advanced(@, target) ELSE @,
            !.completed = \/ @
                          \/ /\ guide.phase = "none" /\ guide.lesson = "none"
                             /\ guide.step >= 0 /\ target = Target(guide.step)
                             /\ counts]

\* What the drop handlers check before run(place).
DropCounts == ready /\ held.epoch = epoch

Replayed_SameNumberAgain(w) == w

\* replay draws the number of its copy.
Replayed(w) == [w EXCEPT !.next = @ + 1]

\* packetView and lab.packet throw when the packet has gone, and replay when
\* the relay is full; only the drag ends then.
Placed(target) ==
    LET pending == {p \in world.queue : p.id = held.id /\ ~held.saved}
        saved   == {i \in DOMAIN world.log : world.log[i].id = held.id /\ held.saved}
        copies  == IF Cardinality(world.queue) < QueueLimit
                   THEN {Copy(world, world.log[i]) : i \in saved} ELSE {}
    IN  IF pending \cup copies = {}
        THEN UNCHANGED <<world, guide>>
        ELSE \E p \in pending \cup copies :
                LET w == IF held.saved THEN Replayed(world) ELSE world
                IN  /\ world' = Delivered(w, p, target)
                    /\ guide' = Told(p, target, Takes(world, p, target))

Drop(target) ==
    /\ held # NotHeld
    /\ held' = NotHeld
    /\ IF DropCounts THEN Placed(target) ELSE UNCHANGED <<world, guide>>
    /\ UNCHANGED <<epoch, ready>>

Deliver == \E target \in Roles : Drop(target) /\ Follows

\* The Drop button, which only pending packets carry, and only in this phase.
DropPacket == \E p \in world.queue :
    /\ ready /\ guide.phase = "drop"
    /\ world' = Dropped(world, p)
    /\ guide' = [guide EXCEPT !.phase = IF p.origin = guide.expected THEN "dropped" ELSE @,
                              !.rejection = IF p.origin = guide.expected THEN NoOne ELSE @]
    /\ Follows
    /\ UNCHANGED <<epoch, ready, held>>

\* The corruption toggles of a pending packet and of a saved one.
Corrupt == \E p \in world.queue :
    /\ ready /\ Strays
    /\ world' = [world EXCEPT !.queue = (@ \ {p}) \cup {[p EXCEPT !.bad = ~@]}]
    /\ UNCHANGED <<epoch, ready, guide, held>>

CorruptSaved == \E id \in LogIds(world.log) :
    /\ ready /\ Strays
    /\ world' = [world EXCEPT !.toggled = (@ \ {id}) \cup ({id} \ @)]
    /\ UNCHANGED <<epoch, ready, guide, held>>

\* Past the ten minutes of any open session.
AdvanceTime ==
    /\ ready /\ ~world.expired /\ Strays
    /\ world' = [world EXCEPT !.expired = TRUE]
    /\ UNCHANGED <<epoch, ready, guide, held>>

-----------------------------------------------------------------------------
(***************************************************************************)
(* The Next button: render shows it by these rules, and advanceTour acts.  *)
(***************************************************************************)
WaitsForPlus ==
    /\ guide.chapter = "credits"
    /\ guide.step < 0 \/ (guide.step = 5 /\ guide.completed /\ ~guide.consumedLocally)

CanPressNext ==
    /\ ready
    /\ guide.step >= 0 => guide.completed
    /\ CASE guide.phase # "none" -> guide.phase \in {"dropped", "repeated", "reported", "done"}
         [] guide.phase = "none" /\ guide.lesson # "none" -> guide.lesson = "refused"
         [] OTHER -> ~WaitsForPlus

\* transmit, and what the page says of the new packet; an error leaves both.
Transmit(w, role, said) ==
    IF CanTransmit(w, role)
    THEN /\ world' = Transmitted(w, role)
         /\ guide' = [said EXCEPT !.expected = w.next]
    ELSE world' = w /\ UNCHANGED guide

\* advanceTour's last part: the next step's prepare.
NextStep ==
    LET next == IF guide.step < 0 /\ guide.chapter = "credits" THEN 3 ELSE guide.step + 1
        w    == Prepared(world, next)
    IN  IF CanTransmit(w, Sender(next))
        THEN /\ world' = Transmitted(w, Sender(next))
             /\ guide' = [guide EXCEPT !.step = next, !.completed = FALSE,
                                       !.expected = w.next, !.rejection = NoOne]
        ELSE world' = w /\ guide' = [guide EXCEPT !.rejection = NoOne]

Approve ==
    /\ world' = IF MayRegister(world) THEN Registered(world) ELSE world
    /\ UNCHANGED guide

\* Whether Next only leads to the packet of the following step.
StepFollows ==
    /\ guide.phase = "none" /\ guide.lesson = "none"
    /\ guide.step # ChapterEnd(guide.chapter)
    /\ guide.step = 1 => world.server.registered

PressNext ==
    /\ CanPressNext /\ StepFollows
    /\ NextStep
    /\ Follows
    /\ UNCHANGED <<epoch, ready, held>>

PressApprove ==
    /\ CanPressNext /\ guide.phase = "none" /\ guide.lesson = "none"
    /\ guide.step = 1 /\ ~world.server.registered
    /\ Approve
    /\ Follows
    /\ UNCHANGED <<epoch, ready, held>>

\* On to credits, and Restart credits at the end of the last exercise.
PressNextChapter ==
    /\ CanPressNext /\ guide.lesson = "none"
    /\ \/ guide.phase = "done"
       \/ guide.phase = "none" /\ guide.chapter = "trust" /\ guide.step = 2
    /\ PrepareChapter("credits", [guide EXCEPT !.chapter = "credits"], held)
    /\ Follows

\* beginError(0)
PressErrors ==
    /\ CanPressNext /\ guide.phase = "none" /\ guide.lesson = "none"
    /\ guide.chapter = "credits" /\ guide.step = 8
    /\ guide' = [guide EXCEPT !.lesson = "overspend", !.rejection = NoOne]
    /\ Follows
    /\ UNCHANGED <<world, epoch, ready, held>>

\* beginNetwork: the issue stays when no packet can follow it.
PressNetwork ==
    /\ CanPressNext /\ guide.lesson = "refused" /\ world.credits.granted < MaxGranted
    /\ LET w == Issued(world)
       IN  IF CanTransmit(w, "server")
           THEN Transmit(w, "server", [guide EXCEPT !.lesson = "none", !.phase = "drop",
                                                    !.rejection = NoOne])
           ELSE world' = w /\ guide' = [guide EXCEPT !.lesson = "none"]
    /\ Follows
    /\ UNCHANGED <<epoch, ready, held>>

PressExercise ==
    /\ CanPressNext /\ guide.phase \in {"dropped", "repeated", "reported"}
    /\ LET said(phase) == [guide EXCEPT !.phase = phase, !.rejection = NoOne]
       IN  CASE guide.phase = "dropped"  -> Transmit(world, "server", said("deliver"))
             [] guide.phase = "repeated" -> Transmit(world, "device", said("report"))
             [] guide.phase = "reported" -> Transmit(world, "server", said("receipt"))
    /\ Follows
    /\ UNCHANGED <<epoch, ready, held>>

-----------------------------------------------------------------------------
(***************************************************************************)
(* The + buttons of the credits chapter.                                   *)
(***************************************************************************)
CreditsFree == /\ ready /\ guide.chapter = "credits" /\ guide.phase = "none"

AddFirst ==
    /\ CreditsFree /\ guide.lesson = "none" /\ guide.step < 0
    /\ NextStep
    /\ Follows
    /\ UNCHANGED <<epoch, ready, held>>

AddMore ==
    /\ CreditsFree /\ guide.lesson = "none" /\ guide.step = 8 /\ guide.completed
    /\ world.credits.granted < MaxGranted
    /\ LET w == Issued(world)
       IN  world' = IF CanTransmit(w, "server") THEN Transmitted(w, "server") ELSE w
    /\ Strays
    /\ UNCHANGED <<epoch, ready, guide, held>>

CanConsume ==
    /\ CreditsFree
    /\ IF guide.lesson # "none" THEN guide.lesson = "overspend"
       ELSE /\ guide.completed
            /\ guide.step = 8 \/ (guide.step = 5 /\ ~guide.consumedLocally)

Consume ==
    LET affords == world.credits.consumed < world.credits.accepted
    IN  /\ CanConsume
        /\ world' = [world EXCEPT !.credits.consumed = IF affords THEN @ + 1 ELSE @]
        /\ guide' = [guide EXCEPT
                        !.lesson = IF @ = "overspend" /\ ~affords THEN "refused" ELSE @,
                        !.rejection = IF guide.lesson = "overspend" /\ ~affords THEN NoOne ELSE @,
                        !.consumedLocally = @ \/ (affords /\ guide.step = 5)]
        /\ Follows
        /\ UNCHANGED <<epoch, ready, held>>

-----------------------------------------------------------------------------
(***************************************************************************)
(* Starting again.                                                         *)
(***************************************************************************)
EnrollmentDone == guide.chapter = "trust" /\ guide.step = 2 /\ guide.completed

CanRestart == ready /\ (EnrollmentDone \/ guide.rejection # NoOne)

RestartCredits ==
    /\ CanRestart /\ guide.chapter = "credits"
    /\ PrepareChapter("credits", guide, held)
    /\ Strays

\* This one calls intro() before the reset.
RetryEnrollment ==
    /\ CanRestart /\ guide.chapter = "trust" /\ world.server.registered
    /\ ResetTo(FreshWorld(world.session), "trust", Intro("trust"), Kept(held))
    /\ Strays

\* Before registration the session is cancelled and the device keeps its key.
Cancelling(w) == Cleared([w EXCEPT !.server = Cancelled(@), !.verified = 0])

RestartEnrollment ==
    /\ CanRestart /\ guide.chapter = "trust" /\ ~world.server.registered
    /\ world' = Cancelling(world)
    /\ guide' = Intro("trust") /\ held' = Kept(held)
    /\ Strays
    /\ UNCHANGED <<epoch, ready>>

\* Reset session, and the link of the other chapter: startChapter, which works
\* in a session that failed to start.  cancelTouch() and intro() come first, so
\* that no drag goes on.
StartChapter == \E chapter \in {"trust", "credits"} :
    /\ PrepareChapter(chapter, Intro(chapter), NotHeld)
    /\ Strays

Next ==
    \/ PickPending \/ PickSaved \/ LetGo \/ Deliver \/ DropPacket
    \/ Corrupt \/ CorruptSaved \/ AdvanceTime
    \/ PressNext \/ PressApprove \/ PressNextChapter \/ PressErrors
    \/ PressNetwork \/ PressExercise
    \/ AddFirst \/ AddMore \/ Consume
    \/ RestartCredits \/ RetryEnrollment \/ RestartEnrollment \/ StartChapter

Spec == Init /\ [][Next]_vars

-----------------------------------------------------------------------------
Frames == [kind : DownKinds \cup UpKinds \cup {"none"}, from : {0, 1}, to : {0, 1},
           challenge : Nat, id : Nat]
Packets == [id : Nat, origin : Nat, bad : BOOLEAN, frame : Frames, grant : Nat, spent : Nat]

\* Every packet has its own id, the log keeps to its limit, and only what the
\* log holds is toggled.
TypeOK ==
    /\ world.server \in HostRecord({1}, {0, 1}, Nat, Nat)
    /\ world.device \in DeviceRecord({0, 1}, {0, 1}, Nat, Nat)
    /\ world.credits \in [{"granted", "accepted", "consumed", "snapshot", "reported"} -> Nat]
    /\ world.credits.consumed <= world.credits.accepted
    /\ world.queue \in SUBSET Packets /\ world.log \in Seq(Packets)
    /\ Len(world.log) <= LogLimit /\ Cardinality(world.queue) <= QueueLimit
    /\ LET Ids == {p.id : p \in world.queue} \cup LogIds(world.log)
       IN  /\ Cardinality(Ids) = Cardinality(world.queue) + Len(world.log)
           /\ \A id \in Ids : id < world.next
    /\ world.toggled \subseteq LogIds(world.log)
    /\ guide.chapter \in {"trust", "credits"} /\ guide.step \in -1 .. 8
    /\ guide.lesson \in {"none", "overspend", "refused"} /\ guide.phase \in Phases
    /\ guide.rejection \in Roles \cup {NoOne}
    /\ held \in [id : Nat, saved : BOOLEAN, touch : BOOLEAN, epoch : Nat, frame : Frames]
    /\ tries \in 0 .. MaxTries

Outstanding == world.queue \cup {world.log[i] : i \in DOMAIN world.log}

\* While the guide waits for its packet to be delivered, the packet or a copy
\* of it can still be picked up, unless the bounded log has overflowed.
GuidePacketKept ==
    (/\ ready /\ guide.step >= 0 /\ Len(world.log) < LogLimit
     /\ ~guide.completed \/ guide.phase \in {"dropped", "deliver", "repeat", "report", "receipt"})
    => \E p \in Outstanding : p.origin = guide.expected

\* Whatever the page can still deliver was made in the enrollment session that
\* the server has now.
PacketsOfThisSession ==
    ready => \A p \in Outstanding : p.frame.challenge = world.server.challenge

\* The packets that the page can still move are sound: the guide's own one has
\* not been lost, and none belongs to another enrollment session.
PacketsSound == TypeOK /\ GuidePacketKept /\ PacketsOfThisSession

\* A drop delivers the packet that was picked up, and no other that has its
\* number by then, whatever was replayed, sent, cleared or reset in between:
\* a pointer's drag outlives every restart but that of startChapter.
PickedIsDelivered ==
    [][(held # NotHeld /\ held' = NotHeld /\ world'.log \notin {world.log, <<>>})
       => Head(world'.log).frame = held.frame]_vars

\* What the page says when an enrollment step is complete is so, and stays so
\* until the guide moves on: the device holds the session's verified
\* challenge, the server proposes or has registered the device's key, and both
\* have confirmed.
TrustStepsHold ==
    (guide.chapter = "trust" /\ guide.completed /\ ready) =>
        CASE guide.step = 0 ->
                LET answers == IF HasDevice(world) THEN world.device.challenge ELSE world.verified
                IN  answers = world.server.challenge /\ answers # 0
          [] guide.step = 1 -> world.device.key \in {world.server.candidate, world.server.peer}
          [] guide.step = 2 -> world.device.registered /\ world.server.registered

ClaimHolds ==
    LET c == world.credits  phase == guide.phase
    IN  CASE phase = "dropped"  -> c.accepted < c.granted /\ world.server.pending
          [] phase \in {"repeat", "repeated"} -> c.accepted = c.granted
          [] phase = "reported" -> ~world.server.pending /\ c.reported = c.snapshot
          [] phase = "done"     -> ~world.device.reply /\ world.device.got = world.server.request
          [] OTHER -> TRUE

\* The delivery exercise tells the truth at each turn: a dropped grant has not
\* arrived and is still pending, a repeated one adds nothing, the server has
\* the device's answer, and the receipt ends the device's report.
ExerciseTellsTheTruth == guide'.phase # guide.phase => ClaimHolds'

StepEntered(steps) == guide'.completed /\ ~guide.completed /\ guide.step \in steps

\* What the page says of the exchange when a credit step is complete: the
\* server knows the device's answer to its request (steps 4 and 7), the device
\* has the new request (6), and has stopped reporting (5 and 8).  Of step 3 it
\* says "The device accepted 100 issued credits" (lab.mjs:482), and that is so
\* exactly when the packet delivered was not a confirmation: an enrolled pair
\* is kept for the credits chapter with a confirmation still due (app.mjs:242),
\* which then leaves before the grant and completes the step.
ReportStepsHold ==
    /\ StepEntered({3}) =>
          ((world.credits.accepted = world.credits.granted)'
              <=> Head(world'.log).frame.kind # "confirmation")
    /\ StepEntered({4, 7}) => /\ ~world.server.pending'
                              /\ (world.credits.reported = world.credits.snapshot)'
    /\ StepEntered({6}) => (world.device.got = world.server.request)'
    /\ StepEntered({5, 8}) => ~world.device.reply'

\* Whatever the visitor drops where, in whatever order, what the guide says
\* has happened has happened, except that step 3 announces an accepted grant
\* for a confirmation, too.
GuideTellsTheTruth ==
    [][TrustStepsHold' /\ ExerciseTellsTheTruth /\ ReportStepsHold]_vars
=============================================================================
