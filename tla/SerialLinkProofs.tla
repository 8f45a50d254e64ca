-------------------------- MODULE SerialLinkProofs --------------------------
(***************************************************************************)
(* Whose answer a command returns, and that the link keeps the safety part *)
(* of SerialCalls' promise, for every number of calls, connections, lost   *)
(* frames and every length of a connection.                                *)
(*                                                                         *)
(* The induction follows the two wires: both keep the order of the calls,  *)
(* everything on the way to the page is older than everything on the way   *)
(* to the board, and younger than every answer taken so far (Wires).  A    *)
(* frame with a sequence above 1 tells of a link that had its previous     *)
(* call answered (Follows).                                                *)
(***************************************************************************)
EXTENDS SerialLink, SequenceTheorems, TLAPS

\* The frames of a wire that are intact.
Intact(s) == {s[i] : i \in DOMAIN s} \ {Garbage}

InOrder(s) ==
    \A i, j \in DOMAIN s :
        i < j /\ s[i] # Garbage /\ s[j] # Garbage => s[i].id < s[j].id

\* What the frame f, or the pending command f, tells of its call and the one
\* before it.
Follows(f) ==
    /\ f.id \in 1 .. called
    /\ outcome[f.id].command = f.command
    /\ f.sequence = 1 => f.command = "inspect"
    /\ f.sequence > 1 => Answered(f.id - 1)

\* Every answer taken so far is to an earlier call than f.
Unread(f) == \A i \in Calls : Answered(i) => outcome[i].by < f.id

WiresInv ==
    /\ InOrder(toHost) /\ InOrder(toBoard)
    /\ \A r \in Intact(toHost) : \A q \in Intact(toBoard) : r.id < q.id
    /\ \A r \in Intact(toHost)  : Follows(r) /\ Unread(r) /\ executed[r.id] = 1
    /\ \A q \in Intact(toBoard) : Follows(q) /\ Unread(q) /\ executed[q.id] = 0

Uncalled == [is |-> "uncalled", command |-> "none", by |-> 0]

CallsInv ==
    \A i \in Calls :
        /\ executed[i] \in {0, 1}
        /\ called < i => outcome[i] = Uncalled /\ executed[i] = 0
        /\ i <= called => outcome[i].command \in Commands
        /\ Answered(i) => executed[outcome[i].by] = 1
        /\ outcome[i].is = "waiting" => outcome[i].by = 0 /\ i = pending.id

LinkInv ==
    /\ pending # NoCall =>
          /\ port = "open" /\ ~failed
          /\ pending.id = called /\ pending.sequence = sequence
          /\ Follows(pending)
          /\ outcome[called].is = "waiting"
    /\ port = "open" /\ ~failed /\ 0 < sequence /\ pending = NoCall => Answered(called)

Inv == TypeOK /\ OwnAnswer /\ CallsInv /\ LinkInv /\ WiresInv

-----------------------------------------------------------------------------
(***************************************************************************)
(* Wires: an append at the end, a frame taken from the front, lost, or     *)
(* damaged keep the order, and nothing but the appended frame is new.      *)
(***************************************************************************)
LEMMA AppendWire ==
    ASSUME NEW S, NEW s \in Seq(S), NEW e \in S, InOrder(s),
           \A f \in Intact(s) : f.id < e.id
    PROVE  /\ Append(s, e) \in Seq(S)
           /\ InOrder(Append(s, e))
           /\ Intact(Append(s, e)) \subseteq Intact(s) \cup {e}
<1>1. /\ Append(s, e) \in Seq(S) /\ Len(Append(s, e)) = Len(s) + 1
      /\ \A i \in 1 .. Len(s) : Append(s, e)[i] = s[i]
      /\ Append(s, e)[Len(s) + 1] = e
  BY AppendProperties
<1>2. DOMAIN s = 1 .. Len(s) /\ DOMAIN Append(s, e) = 1 .. Len(s) + 1 /\ Len(s) \in Nat
  BY <1>1
<1>3. \A i \in DOMAIN s : s[i] # Garbage => s[i] \in Intact(s)
  BY DEF Intact
<1> DEFINE t == Append(s, e)
<1> HIDE DEF t
<1>4. Intact(t) \subseteq Intact(s) \cup {e}
  BY <1>1, <1>2 DEF Intact, t
<1>5. ASSUME NEW i \in DOMAIN t, NEW j \in DOMAIN t, i < j, t[i] # Garbage, t[j] # Garbage
      PROVE  t[i].id < t[j].id
  <2>1. i \in DOMAIN s /\ t[i] = s[i]
    BY <1>1, <1>2, <1>5 DEF t
  <2>2. CASE j \in DOMAIN s
    <3>1. t[j] = s[j]
      BY <1>1, <1>2, <2>2 DEF t
    <3> QED
      BY <1>5, <2>1, <2>2, <3>1 DEF InOrder
  <2>3. CASE j = Len(s) + 1
    <3>1. t[j] = e
      BY <1>1, <2>3 DEF t
    <3> QED
      BY <1>3, <1>5, <2>1, <3>1
  <2> QED
    BY <1>2, <2>2, <2>3 DEF t
<1> QED
  BY <1>1, <1>4, <1>5 DEF InOrder, t

LEMMA TailWire ==
    ASSUME NEW S, NEW s \in Seq(S), s # <<>>, InOrder(s)
    PROVE  /\ Head(s) \in S /\ Tail(s) \in Seq(S)
           /\ InOrder(Tail(s))
           /\ Intact(Tail(s)) \subseteq Intact(s)
           /\ Head(s) # Garbage =>
                 /\ Head(s) \in Intact(s)
                 /\ \A f \in Intact(Tail(s)) : Head(s).id < f.id
<1>1. /\ Head(s) \in S /\ Tail(s) \in Seq(S)
      /\ Len(Tail(s)) = Len(s) - 1
      /\ \A i \in 1 .. Len(Tail(s)) : Tail(s)[i] = s[i + 1]
  BY HeadTailProperties
<1> DEFINE t == Tail(s)
<1>2. /\ DOMAIN s = 1 .. Len(s) /\ DOMAIN t = 1 .. Len(s) - 1 /\ Len(s) \in Nat /\ Len(s) # 0
      /\ Head(s) = s[1]
  BY <1>1
<1>3. \A i \in DOMAIN t : i \in Int /\ i + 1 \in DOMAIN s /\ t[i] = s[i + 1]
  BY <1>1, <1>2
<1>4. 1 \in DOMAIN s
  BY <1>2
<1> HIDE DEF t
<1>5. InOrder(t)
  BY <1>3 DEF InOrder
<1>6. Intact(t) \subseteq Intact(s)
  BY <1>3 DEF Intact
<1>7. ASSUME Head(s) # Garbage, NEW f \in Intact(t)
      PROVE  Head(s).id < f.id
  <2>1. PICK i \in DOMAIN t : f = t[i] /\ f # Garbage
    BY DEF Intact
  <2>2. 1 < i + 1
    BY <1>2, <2>1 DEF t
  <2> QED
    BY <1>2, <1>3, <1>4, <1>7, <2>1, <2>2 DEF InOrder
<1>8. Head(s) # Garbage => Head(s) \in Intact(s)
  BY <1>2, <1>4 DEF Intact
<1> QED
  BY <1>1, <1>5, <1>6, <1>7, <1>8 DEF t

LEMMA RemoveWire ==
    ASSUME NEW S, NEW s \in Seq(S), NEW k \in DOMAIN s, InOrder(s)
    PROVE  /\ RemoveAt(s, k) \in Seq(S)
           /\ InOrder(RemoveAt(s, k))
           /\ Intact(RemoveAt(s, k)) \subseteq Intact(s)
<1> DEFINE a == SubSeq(s, 1, k - 1)
           b == SubSeq(s, k + 1, Len(s))
           t == RemoveAt(s, k)
<1>1. /\ DOMAIN s = 1 .. Len(s) /\ Len(s) \in Nat /\ k \in 1 .. Len(s)
      /\ \A i \in 1 .. Len(s) : s[i] \in S
  OBVIOUS
<1>2. /\ a \in Seq(S) /\ Len(a) = k - 1
      /\ \A i \in 1 .. k - 1 : a[i] = s[i]
  <2>1. \A i \in 1 .. k - 1 : s[i] \in S
    BY <1>1
  <2>2. /\ a \in Seq(S) /\ Len(a) = IF 1 <= k - 1 THEN (k - 1) - 1 + 1 ELSE 0
        /\ \A i \in 1 .. (k - 1) - 1 + 1 : a[i] = s[1 + i - 1]
    BY <1>1, <2>1, SubSeqProperties
  <2> QED
    BY <1>1, <2>2
<1>3. /\ b \in Seq(S) /\ Len(b) = Len(s) - k
      /\ \A i \in 1 .. Len(s) - k : b[i] = s[k + i]
  <2>1. \A i \in k + 1 .. Len(s) : s[i] \in S
    BY <1>1
  <2>2. /\ b \in Seq(S) /\ Len(b) = IF k + 1 <= Len(s) THEN Len(s) - (k + 1) + 1 ELSE 0
        /\ \A i \in 1 .. Len(s) - (k + 1) + 1 : b[i] = s[k + 1 + i - 1]
    BY <1>1, <2>1, SubSeqProperties
  <2> HIDE DEF b
  <2>3. \A i \in 1 .. Len(s) - k : i \in 1 .. Len(s) - (k + 1) + 1 /\ k + 1 + i - 1 = k + i
    BY <1>1
  <2>4. \A i \in 1 .. Len(s) - k : b[i] = s[k + i]
    BY <2>2, <2>3
  <2> QED
    BY <1>1, <2>2, <2>4
<1> HIDE DEF a, b
<1>4. /\ t = a \o b /\ t \in Seq(S) /\ Len(t) = Len(s) - 1
      /\ \A i \in 1 .. Len(s) - 1 : t[i] = IF i < k THEN s[i] ELSE s[i + 1]
  <2>1. t = a \o b
    BY DEF RemoveAt, a, b
  <2>2. /\ a \o b \in Seq(S) /\ Len(a \o b) = Len(a) + Len(b)
        /\ \A i \in 1 .. Len(a) + Len(b) : (a \o b)[i] = IF i <= Len(a) THEN a[i] ELSE b[i - Len(a)]
    BY <1>2, <1>3, ConcatProperties
  <2>3. ASSUME NEW i \in 1 .. Len(s) - 1
        PROVE  t[i] = IF i < k THEN s[i] ELSE s[i + 1]
    <3>1. CASE i < k
      BY <1>1, <1>2, <1>3, <2>1, <2>2, <3>1
    <3>2. CASE ~(i < k)
      <4>1. i - (k - 1) \in 1 .. Len(s) - k /\ k + (i - (k - 1)) = i + 1
        BY <1>1, <3>2
      <4>2. t[i] = b[i - (k - 1)]
        BY <1>1, <1>2, <1>3, <2>1, <2>2, <3>2
      <4>3. b[i - (k - 1)] = s[k + (i - (k - 1))]
        BY <1>3, <4>1
      <4> QED
        BY <3>2, <4>1, <4>2, <4>3
    <3> QED
      BY <3>1, <3>2
  <2> QED
    BY <1>1, <1>2, <1>3, <2>1, <2>2, <2>3
<1> HIDE DEF t
<1> DEFINE at(i) == IF i < k THEN i ELSE i + 1
<1>5. /\ \A i \in DOMAIN t : i \in Int /\ at(i) \in DOMAIN s /\ t[i] = s[at(i)]
      /\ \A i, j \in DOMAIN t : i < j => at(i) < at(j)
  <2>1. DOMAIN t = 1 .. Len(s) - 1
    BY <1>4
  <2>2. \A i \in DOMAIN t : i \in Int /\ at(i) \in 1 .. Len(s)
    BY <1>1, <2>1
  <2>3. \A i \in DOMAIN t : t[i] = s[at(i)]
    BY <1>4, <2>1
  <2>4. \A i, j \in DOMAIN t : i < j => at(i) < at(j)
    BY <1>1, <2>1
  <2> QED
    BY <1>1, <2>2, <2>3, <2>4
<1> HIDE DEF at
<1>6. InOrder(t) /\ Intact(t) \subseteq Intact(s)
  BY <1>5 DEF InOrder, Intact
<1> QED
  BY <1>4, <1>6 DEF t

LEMMA DamageWire ==
    ASSUME NEW S, Garbage \in S, NEW s \in Seq(S), NEW k \in DOMAIN s, InOrder(s)
    PROVE  /\ ReplaceAt(s, k, Garbage) \in Seq(S)
           /\ InOrder(ReplaceAt(s, k, Garbage))
           /\ Intact(ReplaceAt(s, k, Garbage)) \subseteq Intact(s)
<1> DEFINE t == ReplaceAt(s, k, Garbage)
<1>1. t \in Seq(S) /\ DOMAIN t = DOMAIN s
  BY DEF ReplaceAt
<1>2. \A i \in DOMAIN s : t[i] = IF i = k THEN Garbage ELSE s[i]
  BY DEF ReplaceAt
<1> HIDE DEF t
<1> QED
  BY <1>1, <1>2 DEF InOrder, Intact, t

LEMMA EmptyWire == InOrder(<<>>) /\ Intact(<<>>) = {}
BY DEF InOrder, Intact

-----------------------------------------------------------------------------
(***************************************************************************)
(* Types.                                                                  *)
(***************************************************************************)
LEMMA Numbers ==
    /\ MaxCalls \in Int /\ MaxSequence \in Int
    /\ \A i \in Calls : i \in Int /\ 1 <= i /\ i <= MaxCalls
    /\ \A q \in Request : q.id \in Calls /\ q.command \in Commands
                          /\ q.sequence \in Int /\ 1 <= q.sequence /\ q # NoCall /\ q # Garbage
    /\ \A r \in Reply : r.id \in Calls /\ r.command \in Commands
                        /\ r.sequence \in Int /\ 1 <= r.sequence /\ r # Garbage
    /\ \A o \in Outcome : o.by \in Int /\ 0 <= o.by /\ (o.by # 0 => o.by \in Calls)
    /\ NoCall.id = 0 /\ 0 \notin Calls
BY BoundsAssumption DEF Calls, Request, Reply, Outcome, NoCall, Garbage

LEMMA IntactType ==
    ASSUME TypeOK
    PROVE  /\ \A r \in Intact(toHost)  : r \in Reply /\ r.id \in Int
           /\ \A q \in Intact(toBoard) : q \in Request /\ q.id \in Int
           /\ toBoard # <<>> => Head(toBoard) \in Request
           /\ called \in Int /\ 0 <= called
           /\ \A i \in Calls : outcome[i] \in Outcome
           /\ \A i : Answered(i) => i \in Calls /\ outcome[i].by \in Calls
<1>1. \A i \in DOMAIN toHost : toHost[i] \in Reply \cup {Garbage}
  BY DEF TypeOK
<1>2. \A i \in DOMAIN toBoard : toBoard[i] \in Request
  BY DEF TypeOK
<1>3. toBoard # <<>> => Head(toBoard) \in Request
  BY HeadTailProperties DEF TypeOK
<1>4. called \in Int /\ 0 <= called
  BY Numbers DEF TypeOK
<1>5. \A i \in Calls : outcome[i] \in Outcome
  BY DEF TypeOK
<1>6. \A i : Answered(i) => i \in Calls /\ outcome[i].by \in Calls
  BY <1>5, Numbers DEF Answered
<1> QED
  BY <1>1, <1>2, <1>3, <1>4, <1>5, <1>6, Numbers DEF Intact

-----------------------------------------------------------------------------
(***************************************************************************)
(* Steps that take no answer: the answers, and what the wires carry, stay. *)
(***************************************************************************)
SameAnswers ==
    /\ called <= called' /\ executed' = executed
    /\ \A i \in Calls : /\ outcome'[i].by = outcome[i].by
                        /\ i <= called => outcome'[i].command = outcome[i].command

Thinned ==
    /\ InOrder(toHost)' /\ InOrder(toBoard)'
    /\ Intact(toHost)' \subseteq Intact(toHost)
    /\ Intact(toBoard)' \subseteq Intact(toBoard)

LEMMA FollowsKept ==
    ASSUME TypeOK, TypeOK', SameAnswers, NEW f, Follows(f)
    PROVE  Follows(f)'
<1>1. f.id \in Calls /\ f.id <= called /\ f.id \in 1 .. called'
  BY BoundsAssumption DEF TypeOK, Follows, Calls, SameAnswers
<1>2. \A i : Answered(i) => Answered(i)'
  BY DEF Answered, SameAnswers
<1> QED
  BY <1>1, <1>2 DEF SameAnswers, Follows

LEMMA WiresKept ==
    ASSUME TypeOK, TypeOK', WiresInv, SameAnswers, Thinned
    PROVE  WiresInv'
<1>1. \A f : Unread(f) => Unread(f)'
  BY DEF Unread, Answered, SameAnswers
<1>2. \A f : Follows(f) => Follows(f)'
  BY FollowsKept
<1>3. executed' = executed
  BY DEF SameAnswers
<1> QED
  BY <1>1, <1>2, <1>3 DEF WiresInv, Thinned

LEMMA AnsweredCalled ==
    ASSUME TypeOK, OwnAnswer, CallsInv, NEW i, Answered(i)
    PROVE  /\ i \in Calls /\ i <= called
           /\ outcome[i].by \in Calls /\ outcome[i].by <= called
<1>1. i \in Calls /\ outcome[i].by \in Calls /\ outcome[i].by <= i
  BY IntactType DEF OwnAnswer
<1>2. ~(called < i)
  BY <1>1 DEF CallsInv, Uncalled, Answered
<1> QED
  BY <1>1, <1>2, IntactType, Numbers

LEMMA OwnAnswerKept ==
    ASSUME OwnAnswer, CallsInv, TypeOK', SameAnswers
    PROVE  OwnAnswer'
<1>0. TypeOK
  BY DEF OwnAnswer
<1>1. \A i : Answered(i)' <=> Answered(i)
  BY DEF Answered, SameAnswers
<1>2. \A i \in Calls : /\ outcome'[i].by = outcome[i].by
                       /\ i <= called => outcome'[i].command = outcome[i].command
  BY DEF SameAnswers
<1>3. \A i : Answered(i) => /\ i \in Calls /\ i <= called
                            /\ outcome[i].by \in Calls /\ outcome[i].by <= called
  BY <1>0, AnsweredCalled
<1> DEFINE borrowed(i) == i \in Calls /\ outcome'[i].by # 0 /\ outcome'[i].by # i
<1>4. \A i : borrowed(i) <=> Borrowed(i)
  BY <1>2 DEF Borrowed, Answered
<1>5. ASSUME NEW i \in Calls, Answered(i)'
      PROVE  /\ outcome'[i].by <= i
             /\ outcome'[outcome'[i].by].command = outcome'[i].command
             /\ \A k \in Calls : i < k /\ Answered(k)' => outcome'[i].by < outcome'[k].by
  <2>1. Answered(i)
    BY <1>1, <1>5
  <2> QED
    BY <1>1, <1>2, <1>3, <2>1 DEF OwnAnswer
<1> HIDE DEF borrowed
<1>6. ASSUME NEW i \in Calls, borrowed(i), outcome'[i].command # "inspect"
      PROVE  borrowed(i - 1) /\ borrowed(outcome'[i].by - 1)
  <2>1. Borrowed(i) /\ outcome[i].command # "inspect"
    BY <1>2, <1>3, <1>4, <1>6 DEF Borrowed
  <2>2. Borrowed(i - 1) /\ Borrowed(outcome[i].by - 1)
    BY <2>1 DEF OwnAnswer
  <2>3. outcome'[i].by = outcome[i].by
    BY <1>2
  <2> QED
    BY <1>4, <2>2, <2>3
<1> QED
  BY <1>5, <1>6 DEF OwnAnswer, Borrowed, Answered, borrowed

LEMMA CallsKept ==
    ASSUME CallsInv, TypeOK, SameAnswers, called' = called,
           \A i \in Calls : called < i => outcome'[i] = outcome[i],
           \A i \in Calls : outcome'[i].is = "waiting" =>
               outcome[i].is = "waiting" /\ pending'.id = pending.id
    PROVE  CallsInv'
<1>1. \A i : Answered(i)' <=> Answered(i)
  BY DEF Answered, SameAnswers
<1>2. \A i : Answered(i) => i \in Calls /\ outcome[i].by \in Calls
  BY IntactType
<1>3. \A i \in Calls : /\ outcome'[i].by = outcome[i].by
                       /\ i <= called => outcome'[i].command = outcome[i].command
  BY DEF SameAnswers
<1>4. called' = called /\ executed' = executed
  BY DEF SameAnswers
<1> QED
  BY <1>1, <1>2, <1>3, <1>4 DEF CallsInv

\* A step that settles nothing.
LEMMA QuietKeeps ==
    ASSUME Inv, TypeOK', LinkInv', Thinned,
           UNCHANGED <<called, outcome, executed>>, pending' = pending
    PROVE  Inv'
<1>1. SameAnswers
  BY IntactType DEF SameAnswers, Inv
<1>2. WiresInv' /\ OwnAnswer'
  BY <1>1, WiresKept, OwnAnswerKept DEF Inv
<1>3. CallsInv'
  <2>1. \A i \in Calls : called < i => outcome'[i] = outcome[i]
    OBVIOUS
  <2>2. \A i \in Calls : outcome'[i].is = "waiting" =>
            outcome[i].is = "waiting" /\ pending'.id = pending.id
    OBVIOUS
  <2> QED
    BY <1>1, <2>1, <2>2, CallsKept DEF Inv
<1> QED
  BY <1>2, <1>3 DEF Inv

\* What the call in progress is, and what giving it up leaves.
LEMMA PendingFacts ==
    ASSUME Inv, pending # NoCall
    PROVE  /\ port = "open" /\ ~failed
           /\ pending \in Request /\ pending.id = called /\ called \in Calls
           /\ pending.sequence = sequence
           /\ outcome[called] = [is |-> "waiting", command |-> pending.command, by |-> 0]
           /\ Follows(pending)
<1>1. /\ port = "open" /\ ~failed /\ pending \in Request /\ pending.id = called
      /\ pending.sequence = sequence /\ Follows(pending) /\ outcome[called].is = "waiting"
  BY DEF Inv, LinkInv, TypeOK
<1>2. called \in Calls
  BY <1>1, Numbers
<1>3. outcome[called] \in Outcome /\ outcome[called].command = pending.command
  BY <1>1, <1>2, IntactType DEF Inv, Follows
<1>4. outcome[called] = [is |-> "waiting", command |-> pending.command, by |-> 0]
  BY <1>1, <1>3 DEF Outcome
<1> QED
  BY <1>1, <1>2, <1>4

LEMMA FailSettles ==
    ASSUME Inv, Fail
    PROVE  /\ outcome' \in [Calls -> Outcome]
           /\ \A i \in Calls : /\ outcome'[i].by = outcome[i].by
                               /\ outcome'[i].command = outcome[i].command
                               /\ called < i => outcome'[i] = outcome[i]
                               /\ outcome'[i].is # "waiting"
           /\ failed' = TRUE /\ pending' = NoCall
<1>1. outcome \in [Calls -> Outcome]
  BY DEF Inv, TypeOK
<1>2. \A i \in Calls : outcome[i].is = "waiting" => i = pending.id
  BY DEF Inv, CallsInv
<1>3. CASE pending = NoCall
  BY <1>1, <1>2, <1>3, Numbers DEF Fail
<1>4. CASE pending # NoCall
  <2>1. /\ outcome[called] = [is |-> "waiting", command |-> pending.command, by |-> 0]
        /\ pending.id = called /\ called \in Calls /\ pending.command \in Commands
    BY <1>4, PendingFacts, Numbers
  <2>2. outcome' = [outcome EXCEPT ![called] =
                       [is |-> "ambiguous", command |-> pending.command, by |-> 0]]
    <3>1. outcome' = [outcome EXCEPT ![called].is = "ambiguous"]
      BY <1>4, <2>1 DEF Fail
    <3>2. [outcome[called] EXCEPT !.is = "ambiguous"] =
             [is |-> "ambiguous", command |-> pending.command, by |-> 0]
      BY <2>1
    <3> QED
      BY <3>1, <3>2
  <2>3. [is |-> "ambiguous", command |-> pending.command, by |-> 0] \in Outcome
    BY <2>1 DEF Outcome
  <2>4. \A i \in Calls : i # called => outcome'[i] = outcome[i] /\ outcome[i].is # "waiting"
    BY <1>1, <1>2, <2>1, <2>2
  <2>5. outcome'[called] = [is |-> "ambiguous", command |-> pending.command, by |-> 0]
    BY <1>1, <2>1, <2>2
  <2>6. ~(called < called)
    BY <2>1, Numbers
  <2> QED
    BY <1>1, <2>1, <2>2, <2>3, <2>4, <2>5, <2>6 DEF Fail
<1> QED
  BY <1>3, <1>4

LEMMA FailKeeps ==
    ASSUME Inv, Fail, Thinned, port' \in {"closed", "open", "closing"},
           toBoard' \in Seq(Request), toHost' \in Seq(Reply \cup {Garbage}),
           UNCHANGED <<sequence, called, executed, connections, faults>>
    PROVE  Inv'
<1>1. SameAnswers
  BY FailSettles, IntactType DEF SameAnswers, Inv
<1>2. TypeOK'
  BY FailSettles DEF Inv, TypeOK
<1>3. WiresInv' /\ OwnAnswer'
  BY <1>1, <1>2, WiresKept, OwnAnswerKept DEF Inv
<1>4. CallsInv'
  BY <1>1, FailSettles, CallsKept DEF Inv
<1>5. LinkInv'
  BY FailSettles DEF LinkInv
<1> QED
  BY <1>2, <1>3, <1>4, <1>5 DEF Inv

\* A wire that did not change keeps its order.
LEMMA WiresStay ==
    ASSUME WiresInv, UNCHANGED wires
    PROVE  Thinned
BY DEF WiresInv, Thinned, wires

LEMMA OpenKeeps == ASSUME Inv, Open PROVE Inv'
<1>1. pending = NoCall
  BY DEF Inv, LinkInv, Open
<1>2. TypeOK'
  <2>1. connections' \in 0 .. MaxConnections /\ sequence' \in 0 .. MaxSequence
    BY BoundsAssumption DEF Inv, TypeOK, Open
  <2> QED
    BY <2>1 DEF Inv, TypeOK, Open, wires
<1>3. LinkInv'
  BY DEF Open, LinkInv
<1>4. Thinned
  BY WiresStay DEF Inv, Open
<1>5. UNCHANGED <<called, outcome, executed>> /\ pending' = pending
  BY <1>1 DEF Open
<1> QED
  BY <1>2, <1>3, <1>4, <1>5, QuietKeeps

LEMMA PortClosesKeeps == ASSUME Inv, PortCloses PROVE Inv'
<1>1. TypeOK' /\ LinkInv'
  BY DEF Inv, TypeOK, LinkInv, PortCloses, wires
<1>2. Thinned
  BY WiresStay DEF Inv, PortCloses
<1> QED
  BY <1>1, <1>2, QuietKeeps DEF PortCloses

LEMMA GiveUpKeeps == ASSUME Inv, PortFails \/ Timeout \/ Close PROVE Inv'
<1>1. /\ Fail /\ port' \in {"closed", "open", "closing"}
      /\ UNCHANGED <<sequence, wires, called, executed, connections, faults>>
  BY DEF Inv, TypeOK, PortFails, Timeout, Close
<1>2. Thinned /\ toBoard' \in Seq(Request) /\ toHost' \in Seq(Reply \cup {Garbage})
  BY <1>1, WiresStay DEF Inv, TypeOK, wires
<1> QED
  BY <1>1, <1>2, FailKeeps

-----------------------------------------------------------------------------
(***************************************************************************)
(* A new command, and the board's side.                                    *)
(***************************************************************************)
LEMMA CommandFacts ==
    ASSUME Inv, NEW c \in Commands, Command(c)
    PROVE  /\ called' = called + 1 /\ called' \in Calls /\ called' \notin 1 .. called
           /\ pending' \in Request /\ pending'.id = called' /\ pending'.sequence = sequence'
           /\ pending'.command = c
           /\ outcome' = [outcome EXCEPT ![called'] = [is |-> "waiting", command |-> c, by |-> 0]]
           /\ outcome[called'] = Uncalled /\ executed[called'] = 0
           /\ TypeOK' /\ SameAnswers
<1>1. called \in Int /\ 0 <= called /\ called + 1 <= MaxCalls /\ called' = called + 1
  BY IntactType, Numbers DEF Inv, Command
<1>2. called' \in Calls /\ called' \in 0 .. MaxCalls /\ called < called' /\ called' \notin 1 .. called
  BY <1>1, Numbers DEF Calls
<1>3. sequence' \in 1 .. MaxSequence /\ sequence' \in 0 .. MaxSequence
  BY Numbers DEF Inv, TypeOK, Command, HasSequence
<1>4. /\ pending' = [id |-> called', command |-> c, sequence |-> sequence']
      /\ toBoard' = Append(toBoard, pending')
      /\ outcome' = [outcome EXCEPT ![called'] = [is |-> "waiting", command |-> c, by |-> 0]]
      /\ UNCHANGED <<port, failed, toHost, executed, connections, faults>>
  BY DEF Command
<1>5. pending' \in Request
  BY <1>2, <1>3, <1>4 DEF Request
<1>6. outcome[called'] = Uncalled /\ executed[called'] = 0
  BY <1>2 DEF Inv, CallsInv
<1>7. outcome' \in [Calls -> Outcome]
  <2>1. [is |-> "waiting", command |-> c, by |-> 0] \in Outcome
    BY DEF Outcome
  <2> QED
    BY <1>4, <2>1 DEF Inv, TypeOK
<1>8. toBoard' \in Seq(Request)
  BY <1>4, <1>5, AppendProperties DEF Inv, TypeOK
<1>9. TypeOK'
  BY <1>2, <1>3, <1>4, <1>5, <1>7, <1>8 DEF Inv, TypeOK
<1>10. SameAnswers
  <2>1. ASSUME NEW i \in Calls
        PROVE  /\ outcome'[i].by = outcome[i].by
               /\ i <= called => outcome'[i].command = outcome[i].command
    <3>1. CASE i = called'
      <4>1. outcome'[i].by = 0 /\ outcome[i].by = 0
        BY <1>2, <1>4, <1>6, <3>1 DEF Inv, TypeOK, Uncalled
      <4>2. ~(i <= called)
        BY <1>1, <3>1
      <4> QED
        BY <4>1, <4>2
    <3>2. CASE i # called'
      BY <1>4, <3>2 DEF Inv, TypeOK
    <3> QED
      BY <3>1, <3>2
  <2> QED
    BY <1>1, <1>4, <2>1 DEF SameAnswers
<1> QED
  BY <1>1, <1>2, <1>4, <1>5, <1>6, <1>9, <1>10

LEMMA CommandKeeps == ASSUME Inv, NEW c \in Commands, Command(c) PROVE Inv'
<1>1. /\ called' = called + 1 /\ called' \in Calls /\ called' \notin 1 .. called
      /\ pending' \in Request /\ pending'.id = called' /\ pending'.sequence = sequence'
      /\ pending'.command = c
      /\ outcome' = [outcome EXCEPT ![called'] = [is |-> "waiting", command |-> c, by |-> 0]]
      /\ executed[called'] = 0
      /\ TypeOK' /\ SameAnswers
  BY CommandFacts
<1>2. /\ port = "open" /\ ~failed /\ pending = NoCall
      /\ sequence = 0 => c = "inspect"
      /\ sequence' = sequence + 1 /\ sequence \in Int /\ 0 <= sequence
      /\ toBoard' = Append(toBoard, pending')
      /\ UNCHANGED <<port, failed, toHost, executed>>
  BY Numbers DEF Inv, TypeOK, Command, Accepts, FirstInspects
<1>3. called \in Int /\ 0 <= called
  BY IntactType DEF Inv
<1>4. /\ \A i \in Calls : i # called' => outcome'[i] = outcome[i]
      /\ outcome'[called'] = [is |-> "waiting", command |-> c, by |-> 0]
  BY <1>1 DEF Inv, TypeOK
<1>5. OwnAnswer'
  BY <1>1, OwnAnswerKept DEF Inv
<1>6. Follows(pending)'
  <2>1. sequence' = 1 => c = "inspect"
    BY <1>2
  <2>2. ASSUME sequence' > 1
        PROVE  called \in Calls /\ outcome'[called].by # 0
    <3>1. Answered(called)
      BY <1>2, <2>2 DEF Inv, LinkInv
    <3> QED
      BY <1>1, <3>1 DEF Answered, SameAnswers
  <2>3. called' - 1 = called /\ called' \in 1 .. called'
    BY <1>1, <1>3
  <2>4. outcome'[pending'.id].command = pending'.command
    BY <1>1, <1>4
  <2> QED
    BY <1>1, <2>1, <2>2, <2>3, <2>4 DEF Follows, Answered
<1>7. LinkInv'
  BY <1>1, <1>2, <1>4, <1>6, Numbers DEF LinkInv
<1>8. CallsInv'
  <2>1. ASSUME NEW i \in Calls, i # called'
        PROVE  /\ executed'[i] \in {0, 1}
               /\ called' < i => outcome'[i] = Uncalled /\ executed'[i] = 0
               /\ i <= called' => outcome'[i].command \in Commands
               /\ outcome'[i].by # 0 => executed'[outcome'[i].by] = 1
               /\ outcome'[i].is # "waiting"
    <3>1. outcome'[i] = outcome[i] /\ executed' = executed
      BY <1>2, <1>4, <2>1
    <3>2. (called' < i => called < i) /\ (i <= called' => i <= called)
      BY <1>1, <1>3, <2>1, Numbers
    <3>3. outcome[i].is # "waiting"
      BY <1>2, Numbers DEF Inv, CallsInv
    <3> QED
      BY <3>1, <3>2, <3>3 DEF Inv, CallsInv, Answered
  <2>2. ~(called' < called')
    BY <1>1, <1>3
  <2> QED
    BY <1>1, <1>2, <1>4, <2>1, <2>2 DEF CallsInv, Answered
<1>9. WiresInv'
  <2>1. \A f : (Follows(f) => Follows(f)') /\ (Unread(f) => Unread(f)')
    BY <1>1, FollowsKept DEF Inv, Unread, Answered, SameAnswers
  <2>2. Unread(pending)'
    <3>1. ASSUME NEW i, Answered(i)
          PROVE  outcome[i].by < called'
      <4>1. outcome[i].by <= called /\ outcome[i].by \in Int
        BY <3>1, AnsweredCalled, Numbers DEF Inv
      <4> QED
        BY <1>1, <1>3, <4>1
    <3> QED
      BY <1>1, <3>1 DEF Unread, Answered, SameAnswers
  <2>3. \A f \in Intact(toHost) \cup Intact(toBoard) : f.id < called'
    <3>1. \A f \in Intact(toHost) \cup Intact(toBoard) : f.id \in 1 .. called
      BY DEF Inv, WiresInv, Follows
    <3> QED
      BY <1>1, <1>3, <3>1
  <2>4. /\ InOrder(toBoard')
        /\ Intact(toBoard') \subseteq Intact(toBoard) \cup {pending'}
    BY <1>1, <1>2, <2>3, AppendWire DEF Inv, TypeOK, WiresInv
  <2>5. toHost' = toHost /\ executed' = executed
    BY <1>2
  <2> QED
    BY <1>1, <1>6, <2>1, <2>2, <2>3, <2>4, <2>5 DEF Inv, WiresInv
<1> QED
  BY <1>1, <1>5, <1>7, <1>8, <1>9 DEF Inv

LEMMA BoardRunsFacts ==
    ASSUME Inv, NEW status \in Statuses, BoardRuns(status), NEW q, q = Head(toBoard)
    PROVE  /\ q \in Request /\ q \in Intact(toBoard)
           /\ executed' = [executed EXCEPT ![q.id] = 1]
           /\ executed[q.id] = 0 /\ q.id \in Calls /\ q.id <= called
           /\ TypeOK'
<1>1. toBoard # <<>> /\ q \in Request
  BY IntactType DEF Inv, BoardRuns
<1>2. q # Garbage /\ q.id \in Calls /\ q.command \in Commands
  BY <1>1, Numbers
<1>3. q \in Intact(toBoard) /\ Tail(toBoard) \in Seq(Request)
  BY <1>1, <1>2, TailWire DEF Inv, TypeOK, WiresInv
<1>4. executed[q.id] = 0 /\ q.id <= called
  BY <1>3 DEF Inv, WiresInv, Follows
<1>5. executed' = [executed EXCEPT ![q.id] = 1]
  <2>1. executed' = [executed EXCEPT ![q.id] = @ + 1]
    BY DEF BoardRuns
  <2> QED
    BY <1>4, <2>1
<1>6. executed' \in [Calls -> 0 .. MaxCalls]
  BY <1>2, <1>5, Numbers DEF Inv, TypeOK
<1>7. toHost' \in Seq(Reply \cup {Garbage})
  <2>1. [id |-> q.id, command |-> q.command, sequence |-> q.sequence, status |-> status] \in Reply
    BY <1>1 DEF Request, Reply
  <2> QED
    BY <2>1, AppendProperties DEF Inv, TypeOK, BoardRuns
<1> QED
  BY <1>1, <1>2, <1>3, <1>4, <1>5, <1>6, <1>7 DEF Inv, TypeOK, BoardRuns, link

LEMMA BoardRunsKeeps == ASSUME Inv, NEW status \in Statuses, BoardRuns(status) PROVE Inv'
<1> DEFINE q == Head(toBoard)
           r == [id |-> q.id, command |-> q.command, sequence |-> q.sequence, status |-> status]
<1>1. /\ q \in Request /\ q \in Intact(toBoard)
      /\ executed' = [executed EXCEPT ![q.id] = 1]
      /\ executed[q.id] = 0 /\ q.id \in Calls /\ q.id <= called
      /\ TypeOK'
  BY BoardRunsFacts
<1>2. /\ toBoard # <<>> /\ toBoard' = Tail(toBoard) /\ toHost' = Append(toHost, r)
      /\ UNCHANGED <<port, failed, sequence, pending, called, outcome>>
  BY DEF BoardRuns, link
<1>3. r.id = q.id /\ r.command = q.command /\ r.sequence = q.sequence
  OBVIOUS
<1>4. r \in Reply
  BY <1>1 DEF Request, Reply
<1>5. /\ InOrder(toBoard') /\ Intact(toBoard') \subseteq Intact(toBoard)
      /\ \A f \in Intact(toBoard') : q.id < f.id
  BY <1>1, <1>2, TailWire, Numbers DEF Inv, TypeOK, WiresInv
<1> HIDE DEF q, r
<1>6. /\ InOrder(toHost') /\ Intact(toHost') \subseteq Intact(toHost) \cup {r}
      /\ \A f \in Intact(toHost) : f.id < q.id
  <2>1. \A f \in Intact(toHost) : f.id < q.id
    BY <1>1 DEF Inv, WiresInv
  <2>2. toHost \in Seq(Reply \cup {Garbage}) /\ r \in Reply \cup {Garbage} /\ InOrder(toHost)
    BY <1>4 DEF Inv, TypeOK, WiresInv
  <2>3. \A f \in Intact(toHost) : f.id < r.id
    BY <1>3, <2>1
  <2>4. InOrder(Append(toHost, r)) /\ Intact(Append(toHost, r)) \subseteq Intact(toHost) \cup {r}
    BY <2>2, <2>3, AppendWire
  <2> QED
    BY <1>2, <2>1, <2>4
<1>7. \A i \in Calls : executed'[i] = IF i = q.id THEN 1 ELSE executed[i]
  BY <1>1 DEF Inv, TypeOK
<1>8. OwnAnswer' /\ LinkInv'
  BY <1>1, <1>2 DEF Inv, OwnAnswer, LinkInv, Answered, Borrowed, Follows
<1>9. CallsInv'
  <2>1. \A i : Answered(i) => i \in Calls /\ outcome[i].by \in Calls
    BY IntactType DEF Inv
  <2>2. \A i \in Calls : called < i => i # q.id
    BY <1>1, IntactType, Numbers DEF Inv
  <2> QED
    BY <1>1, <1>2, <1>7, <2>1, <2>2 DEF Inv, CallsInv, Answered
<1>10. WiresInv'
  <2>1. \A f : (Follows(f)' <=> Follows(f)) /\ (Unread(f)' <=> Unread(f))
    BY <1>2 DEF Follows, Unread, Answered
  <2>2. Follows(r) /\ Unread(r)
    BY <1>1, <1>3 DEF Inv, WiresInv, Follows, Unread
  <2>3. ASSUME NEW f \in Intact(toHost)'
        PROVE  Follows(f)' /\ Unread(f)' /\ executed'[f.id] = 1 /\ f.id \in Int /\ f.id <= q.id
    <3>1. CASE f = r
      BY <1>1, <1>3, <1>7, <2>1, <2>2, <3>1, Numbers
    <3>2. CASE f \in Intact(toHost)
      <4>1. /\ Follows(f) /\ Unread(f) /\ executed[f.id] = 1 /\ f.id < q.id
            /\ f.id \in Calls /\ f.id \in Int
        BY <1>6, <3>2, IntactType, Numbers DEF Inv, WiresInv
      <4> QED
        BY <1>1, <1>7, <2>1, <4>1, Numbers
    <3> QED
      BY <1>6, <3>1, <3>2
  <2>4. ASSUME NEW f \in Intact(toBoard)'
        PROVE  Follows(f)' /\ Unread(f)' /\ executed'[f.id] = 0 /\ f.id \in Int /\ q.id < f.id
    <3>1. /\ Follows(f) /\ Unread(f) /\ executed[f.id] = 0 /\ q.id < f.id
          /\ f.id \in Calls /\ f.id \in Int
      BY <1>5, IntactType, Numbers DEF Inv, WiresInv
    <3> QED
      BY <1>1, <1>7, <2>1, <3>1, Numbers
  <2>5. \A f \in Intact(toHost)' : \A g \in Intact(toBoard)' : f.id < g.id
    BY <1>1, <2>3, <2>4, Numbers
  <2> QED
    BY <1>5, <1>6, <2>3, <2>4, <2>5 DEF WiresInv
<1> QED
  BY <1>1, <1>8, <1>9, <1>10 DEF Inv

LEMMA FrameLostKeeps == ASSUME Inv, FrameLost PROVE Inv'
<1>1. /\ UNCHANGED <<port, failed, sequence, pending, called, outcome, executed, connections>>
      /\ faults' \in 0 .. MaxFaults
  BY BoundsAssumption DEF Inv, TypeOK, FrameLost, link
<1>2. Thinned /\ toBoard' \in Seq(Request) /\ toHost' \in Seq(Reply \cup {Garbage})
  <2> USE DEF Inv, TypeOK, WiresInv, Thinned
  <2>1. CASE \E i \in DOMAIN toBoard : toBoard' = RemoveAt(toBoard, i) /\ UNCHANGED toHost
    BY <2>1, RemoveWire
  <2>2. CASE \E i \in DOMAIN toHost : toHost' = RemoveAt(toHost, i) /\ UNCHANGED toBoard
    BY <2>2, RemoveWire
  <2>3. CASE \E i \in DOMAIN toHost : toHost' = ReplaceAt(toHost, i, Garbage) /\ UNCHANGED toBoard
    BY <2>3, DamageWire
  <2> QED
    BY <2>1, <2>2, <2>3 DEF FrameLost
<1>3. TypeOK' /\ LinkInv'
  BY <1>1, <1>2 DEF Inv, TypeOK, LinkInv, Follows, Answered
<1> QED
  BY <1>1, <1>2, <1>3, QuietKeeps

LEMMA UnpluggedKeeps == ASSUME Inv, Unplugged PROVE Inv'
<1>1. Thinned
  BY EmptyWire DEF Unplugged, Thinned
<1>2. toBoard' \in Seq(Request) /\ toHost' \in Seq(Reply \cup {Garbage})
  BY DEF Unplugged
<1>3. TypeOK' /\ LinkInv'
  BY <1>2 DEF Inv, TypeOK, LinkInv, Follows, Answered, Unplugged, link
<1> QED
  BY <1>1, <1>3, QuietKeeps DEF Unplugged, link

-----------------------------------------------------------------------------
(***************************************************************************)
(* The page takes an answer.  A frame that is not the call's own, but bears*)
(* its command and a sequence above 1, shows that two links had their      *)
(* previous call answered; the order of the answers then leaves no own     *)
(* answer for either of these.                                             *)
(***************************************************************************)
LEMMA ReplyFacts ==
    ASSUME Inv, toHost # <<>>, NEW r, r = Head(toHost), Matches(r)
    PROVE  /\ r \in Reply /\ r \in Intact(toHost)
           /\ r.id \in Calls /\ r.id <= called /\ executed[r.id] = 1
           /\ outcome[r.id].command = outcome[called].command
           /\ outcome[called].command = r.command
           /\ \A i : Answered(i) => i < called /\ outcome[i].by < r.id
           /\ r.id # called /\ outcome[called].command # "inspect" =>
                 Borrowed(called - 1) /\ Borrowed(r.id - 1)
<1>1. /\ pending # NoCall /\ r # Garbage
      /\ r.command = pending.command /\ r.sequence = pending.sequence
  BY DEF Matches
<1>2. r \in Reply /\ r \in Intact(toHost)
  BY <1>1, TailWire DEF Inv, TypeOK, WiresInv
<1>3. Follows(r) /\ Unread(r) /\ executed[r.id] = 1
  BY <1>2 DEF Inv, WiresInv
<1>4. /\ called \in Calls /\ pending.id = called /\ Follows(pending)
      /\ outcome[called].by = 0 /\ outcome[called].command = pending.command
  BY <1>1, PendingFacts
<1>5. /\ r.id \in Calls /\ r.id \in Int /\ called \in Int /\ r.id <= called
      /\ r.sequence \in Int /\ 1 <= r.sequence
  BY <1>2, <1>3, <1>4, Numbers DEF Follows
<1>6. ASSUME NEW i, Answered(i)
      PROVE  /\ i \in Int /\ i < called /\ outcome[i].by \in Int /\ outcome[i].by < r.id
             /\ outcome[i].by <= i
  <2>1. i \in Calls /\ i <= called /\ outcome[i].by \in Calls
    BY <1>6, AnsweredCalled DEF Inv
  <2>2. i # called
    BY <1>4, <1>6 DEF Answered
  <2>3. outcome[i].by < r.id /\ outcome[i].by <= i
    BY <1>3, <1>6, <2>1 DEF Unread, Inv, OwnAnswer
  <2> QED
    BY <1>5, <2>1, <2>2, <2>3, Numbers
<1>7. ASSUME r.id # called, outcome[called].command # "inspect"
      PROVE  Borrowed(called - 1) /\ Borrowed(r.id - 1)
  <2>1. r.sequence > 1
    BY <1>1, <1>3, <1>4, <1>5, <1>7 DEF Follows
  <2>2. Answered(called - 1) /\ Answered(r.id - 1)
    BY <1>1, <1>3, <1>4, <2>1 DEF Follows
  <2>3. r.id < called /\ r.id - 1 < called - 1
    BY <1>5, <1>7
  <2>4. outcome[r.id - 1].by < outcome[called - 1].by
    BY <2>2, <2>3 DEF Inv, OwnAnswer, Answered
  <2>5. outcome[called - 1].by < r.id
    BY <1>6, <2>2
  <2>6. outcome[called - 1].by \in Int /\ outcome[r.id - 1].by \in Int
    BY <1>6, <2>2
  <2>7. outcome[called - 1].by # called - 1 /\ outcome[r.id - 1].by # r.id - 1
    BY <1>5, <2>3, <2>4, <2>5, <2>6
  <2> QED
    BY <2>2, <2>7 DEF Borrowed
<1> QED
  BY <1>1, <1>2, <1>3, <1>4, <1>5, <1>6, <1>7 DEF Follows

LEMMA SettledType ==
    ASSUME NEW r \in Reply
    PROVE  /\ Settled(r) \in Outcome /\ Settled(r).is # "waiting"
           /\ Settled(r).by = r.id /\ Settled(r).command = r.command
BY DEF Reply, Settled, Outcome

LEMMA AnswerFacts ==
    ASSUME Inv, ReadReply, NEW r, r = Head(toHost), Matches(r)
    PROVE  /\ called \in Calls /\ pending' = NoCall /\ toHost' = Tail(toHost)
           /\ UNCHANGED <<port, failed, sequence, toBoard, called, executed>>
           /\ outcome' = [outcome EXCEPT ![called] = Settled(r)]
           /\ outcome[called].by = 0
           /\ \A i \in Calls : i # called => outcome'[i] = outcome[i] /\ outcome[i].is # "waiting"
           /\ outcome'[called] = Settled(r)
           /\ TypeOK'
<1>1. /\ pending # NoCall /\ toHost # <<>>
      /\ pending' = NoCall /\ toHost' = Tail(toHost)
      /\ outcome' = [outcome EXCEPT ![pending.id] = Settled(r)]
      /\ UNCHANGED <<port, failed, sequence, toBoard, called, executed, connections, faults>>
  BY DEF ReadReply, Matches
<1>2. called \in Calls /\ pending.id = called /\ outcome[called].by = 0
  BY <1>1, PendingFacts
<1>3. r \in Reply
  BY <1>1, ReplyFacts
<1>4. outcome' \in [Calls -> Outcome]
  BY <1>1, <1>3, SettledType DEF Inv, TypeOK
<1>5. toHost' \in Seq(Reply \cup {Garbage})
  BY <1>1, HeadTailProperties DEF Inv, TypeOK
<1>6. TypeOK'
  BY <1>1, <1>4, <1>5 DEF Inv, TypeOK
<1>7. \A i \in Calls : i # called => outcome'[i] = outcome[i] /\ outcome[i].is # "waiting"
  BY <1>1, <1>2 DEF Inv, TypeOK, CallsInv
<1>8. outcome'[called] = Settled(r)
  BY <1>1, <1>2 DEF Inv, TypeOK
<1> QED
  BY <1>1, <1>2, <1>6, <1>7, <1>8

LEMMA AnswerKeeps == ASSUME Inv, ReadReply, Matches(Head(toHost)) PROVE Inv'
<1> DEFINE r == Head(toHost)
<1>0. toHost # <<>>
  BY DEF ReadReply
<1>1. /\ r \in Reply /\ r \in Intact(toHost)
      /\ r.id \in Calls /\ r.id <= called /\ executed[r.id] = 1
      /\ outcome[r.id].command = outcome[called].command
      /\ outcome[called].command = r.command
      /\ \A i : Answered(i) => i < called /\ outcome[i].by < r.id
      /\ r.id # called /\ outcome[called].command # "inspect" =>
            Borrowed(called - 1) /\ Borrowed(r.id - 1)
  BY <1>0, ReplyFacts
<1>2. /\ called \in Calls /\ pending' = NoCall /\ toHost' = Tail(toHost)
      /\ UNCHANGED <<port, failed, sequence, toBoard, called, executed>>
      /\ outcome[called].by = 0
      /\ \A i \in Calls : i # called => outcome'[i] = outcome[i] /\ outcome[i].is # "waiting"
      /\ outcome'[called] = Settled(r)
      /\ TypeOK'
  BY AnswerFacts
<1>3. /\ InOrder(toHost') /\ Intact(toHost') \subseteq Intact(toHost)
      /\ \A f \in Intact(toHost') : r.id < f.id
  <2>1. r # Garbage
    BY <1>1, Numbers
  <2> QED
    BY <1>0, <1>2, <2>1, TailWire DEF Inv, TypeOK, WiresInv
<1> HIDE DEF r
<1>4. /\ outcome'[called].by = r.id /\ outcome'[called].command = outcome[called].command
      /\ outcome'[called].is # "waiting"
  BY <1>1, <1>2, SettledType
<1>5. \A i \in Calls : outcome'[i].command = outcome[i].command
  BY <1>2, <1>4
<1>6. \A i : Answered(i) => i \in Calls /\ i # called /\ outcome'[i] = outcome[i]
                            /\ outcome[i].by \in Calls
  BY <1>2, IntactType DEF Inv, Answered
<1>7. r.id # 0 /\ r.id \in Int /\ called \in Int
  BY <1>1, <1>2, Numbers
<1> DEFINE answered(i) == i \in Calls /\ outcome'[i].by # 0
           borrowed(i) == answered(i) /\ outcome'[i].by # i
<1>8. \A i : answered(i) <=> Answered(i) \/ i = called
  BY <1>2, <1>4, <1>6, <1>7 DEF Answered
<1>9. \A i : Borrowed(i) => borrowed(i)
  BY <1>6, <1>8 DEF Borrowed
<1>10. \A i : borrowed(i) /\ i # called => Borrowed(i)
  BY <1>6, <1>8 DEF Borrowed
<1> HIDE DEF answered, borrowed
<1>11. ASSUME NEW i \in Calls, answered(i)
       PROVE  /\ outcome'[i].by <= i
              /\ outcome'[outcome'[i].by].command = outcome'[i].command
              /\ \A k \in Calls : i < k /\ answered(k) => outcome'[i].by < outcome'[k].by
  <2>1. CASE i = called
    <3>1. \A k \in Calls : answered(k) => ~(called < k)
      BY <1>1, <1>7, <1>8, Numbers
    <3> QED
      BY <1>1, <1>4, <1>5, <2>1, <3>1
  <2>2. CASE i # called
    <3>1. Answered(i) /\ outcome'[i] = outcome[i] /\ outcome[i].by \in Calls
      BY <1>6, <1>8, <1>11, <2>2
    <3>2. /\ outcome[i].by <= i
          /\ outcome[outcome[i].by].command = outcome[i].command
      BY <3>1 DEF Inv, OwnAnswer
    <3>3. ASSUME NEW k \in Calls, i < k, answered(k)
          PROVE  outcome'[i].by < outcome'[k].by
      <4>1. CASE k = called
        BY <1>1, <1>4, <3>1, <4>1
      <4>2. CASE k # called
        <5>1. Answered(k) /\ outcome'[k] = outcome[k]
          BY <1>6, <1>8, <3>3, <4>2
        <5> QED
          BY <3>1, <3>3, <5>1 DEF Inv, OwnAnswer
      <4> QED
        BY <4>1, <4>2
    <3> QED
      BY <1>5, <3>1, <3>2, <3>3
  <2> QED
    BY <2>1, <2>2
<1>12. ASSUME NEW i \in Calls, borrowed(i), outcome'[i].command # "inspect"
       PROVE  borrowed(i - 1) /\ borrowed(outcome'[i].by - 1)
  <2>1. CASE i = called
    <3>1. r.id # called /\ outcome[called].command # "inspect"
      BY <1>4, <1>12, <2>1 DEF borrowed
    <3> QED
      BY <1>1, <1>4, <1>9, <2>1, <3>1
  <2>2. CASE i # called
    <3>1. Borrowed(i) /\ outcome'[i] = outcome[i]
      BY <1>2, <1>10, <1>12, <2>2
    <3>2. Borrowed(i - 1) /\ Borrowed(outcome[i].by - 1)
      BY <1>12, <3>1 DEF Inv, OwnAnswer
    <3> QED
      BY <1>9, <3>1, <3>2
  <2> QED
    BY <2>1, <2>2
<1>13. OwnAnswer'
  BY <1>2, <1>11, <1>12 DEF OwnAnswer, Answered, Borrowed, answered, borrowed
<1>14. CallsInv'
  <2>1. ASSUME NEW i \in Calls
        PROVE  /\ called < i => outcome'[i] = Uncalled
               /\ answered(i) => executed[outcome'[i].by] = 1
               /\ outcome'[i].is # "waiting"
    <3>1. CASE i = called
      BY <1>1, <1>4, <1>7, <3>1
    <3>2. CASE i # called
      BY <1>2, <1>8, <3>2 DEF Inv, CallsInv
    <3> QED
      BY <3>1, <3>2
  <2> QED
    BY <1>2, <1>5, <2>1 DEF Inv, CallsInv, Answered, answered
<1>15. LinkInv'
  BY <1>2, <1>4, <1>7 DEF LinkInv, Answered
<1>16. WiresInv'
  <2>1. \A f : Follows(f) => Follows(f)'
    <3>1. \A i : Answered(i) => i \in Calls /\ outcome'[i].by # 0
      BY <1>6 DEF Answered
    <3>2. \A f : Follows(f) => f.id \in Calls
      BY BoundsAssumption DEF Inv, TypeOK, Follows, Calls
    <3> QED
      BY <1>2, <1>5, <3>1, <3>2 DEF Follows, Answered
  <2>2. ASSUME NEW f \in Intact(toHost)'
        PROVE  Unread(f)'
    BY <1>3, <1>4, <1>6, <1>8, <2>2 DEF Inv, WiresInv, Unread, Answered, answered
  <2>3. ASSUME NEW f \in Intact(toBoard)
        PROVE  Unread(f)'
    <3>1. r.id < f.id
      BY <1>1 DEF Inv, WiresInv
    <3> QED
      BY <1>4, <1>6, <1>8, <2>3, <3>1 DEF Inv, WiresInv, Unread, Answered, answered
  <2> QED
    BY <1>2, <1>3, <2>1, <2>2, <2>3 DEF Inv, WiresInv
<1> QED
  BY <1>2, <1>13, <1>14, <1>15, <1>16 DEF Inv

LEMMA ReadReplyKeeps == ASSUME Inv, ReadReply PROVE Inv'
<1>1. CASE Matches(Head(toHost))
  BY <1>1, AnswerKeeps
<1>2. CASE ~Matches(Head(toHost))
  <2>1. /\ toHost # <<>> /\ toHost' = Tail(toHost) /\ Fail
        /\ UNCHANGED <<port, sequence, toBoard, called, executed, connections, faults>>
    BY <1>2 DEF ReadReply
  <2>2. Thinned /\ toBoard' \in Seq(Request) /\ toHost' \in Seq(Reply \cup {Garbage})
    BY <2>1, TailWire DEF Inv, TypeOK, WiresInv, Thinned
  <2>3. port' \in {"closed", "open", "closing"}
    BY <2>1 DEF Inv, TypeOK
  <2> QED
    BY <2>1, <2>2, <2>3, FailKeeps
<1> QED
  BY <1>1, <1>2

-----------------------------------------------------------------------------
LEMMA InvInit == Init => Inv
<1> SUFFICES ASSUME Init PROVE Inv
  OBVIOUS
<1>1. Uncalled \in Outcome /\ \A i \in Calls : outcome[i] = Uncalled /\ executed[i] = 0
  BY DEF Init, Outcome, Uncalled
<1>2. TypeOK
  <2>1. 0 \in 0 .. MaxSequence /\ 0 \in 0 .. MaxCalls /\ 0 \in 0 .. MaxConnections
        /\ 0 \in 0 .. MaxFaults
    BY BoundsAssumption
  <2>2. outcome \in [Calls -> Outcome] /\ executed \in [Calls -> 0 .. MaxCalls]
    BY <1>1, <2>1 DEF Init, Uncalled
  <2>3. <<>> \in Seq(Request) /\ <<>> \in Seq(Reply \cup {Garbage})
    OBVIOUS
  <2> QED
    BY <2>1, <2>2, <2>3 DEF Init, TypeOK
<1>3. \A i : ~Answered(i)
  BY <1>1 DEF Answered, Uncalled
<1>4. OwnAnswer
  BY <1>2, <1>3 DEF OwnAnswer, Borrowed
<1>5. CallsInv
  BY <1>1, <1>3, Numbers DEF Init, CallsInv, Uncalled
<1>6. LinkInv /\ WiresInv
  BY EmptyWire DEF Init, LinkInv, WiresInv
<1> QED
  BY <1>2, <1>4, <1>5, <1>6 DEF Inv

LEMMA InvStep == Inv /\ [Next]_vars => Inv'
<1> SUFFICES ASSUME Inv, [Next]_vars PROVE Inv'
  OBVIOUS
<1>1. CASE UNCHANGED vars
  <2>1. TypeOK' /\ LinkInv'
    BY <1>1 DEF Inv, TypeOK, LinkInv, Follows, Answered, vars, link, wires
  <2>2. Thinned
    BY <1>1, WiresStay DEF Inv, vars
  <2> QED
    BY <1>1, <2>1, <2>2, QuietKeeps DEF vars, link
<1>2. CASE Next
  BY <1>2, OpenKeeps, GiveUpKeeps, PortClosesKeeps, CommandKeeps, ReadReplyKeeps,
     BoardRunsKeeps, FrameLostKeeps, UnpluggedKeeps DEF Next
<1> QED
  BY <1>1, <1>2

LEMMA Invariance == Spec => []Inv
BY InvInit, InvStep, PTL DEF Spec

\* However late, lost or damaged its frames are, and however often the port is
\* reopened: the page takes answers in the order of its calls and none twice,
\* and a command that changes the board returns its own answer, unless its
\* link and the answer's link both borrowed the answer to their inspection.
THEOREM AnswersBelongToTheirCalls == Spec => []OwnAnswer
<1>1. Inv => OwnAnswer
  BY DEF Inv
<1> QED
  BY <1>1, Invariance, PTL

-----------------------------------------------------------------------------
(***************************************************************************)
(* Refinement: each step of the link is one of SerialCalls, or none.       *)
(***************************************************************************)
LEMMA CallsInit == Init => Abstract!Init
BY DEF Init, Abstract!Init, NoCall, Calls, Abstract!Calls

Usable == port = "open" /\ ~failed
Inspections == {i \in Calls : outcome[i].command = "inspect"}
Answers == [i \in Calls |-> outcome[i].by]

\* The state of SerialCalls does not change.
Unseen ==
    /\ called' = called /\ executed' = executed /\ pending'.id = pending.id
    /\ Inspections' = Inspections /\ Answers' = Answers /\ Usable' = Usable

LEMMA UnseenStutters == Unseen => UNCHANGED Abstract!vars
BY DEF Unseen, Abstract!vars, Inspections, Answers, Usable

\* The call in progress, if any, is given up, and so is the link.
LEMMA FailGivesUp ==
    ASSUME Inv, Fail, UNCHANGED <<called, executed>>
    PROVE  (Usable /\ Abstract!GiveUp) \/ (~Usable /\ Unseen)
<1>1. /\ \A i \in Calls : outcome'[i].by = outcome[i].by
                          /\ outcome'[i].command = outcome[i].command
      /\ failed' = TRUE /\ pending' = NoCall
  BY FailSettles
<1>2. Inspections' = Inspections /\ Answers' = Answers /\ ~Usable'
  BY <1>1 DEF Inspections, Answers, Usable
<1>3. CASE Usable
  BY <1>1, <1>2, <1>3 DEF Abstract!GiveUp, Usable, Inspections, Answers, NoCall
<1>4. CASE ~Usable
  <2>1. pending = NoCall
    BY <1>4 DEF Inv, LinkInv, Usable
  <2> QED
    BY <1>1, <1>2, <1>4, <2>1 DEF Unseen, Usable
<1> QED
  BY <1>3, <1>4

LEMMA CommandIsCall ==
    ASSUME Inv, NEW c \in Commands, Command(c)
    PROVE  Abstract!Call(c = "inspect")
<1>1. /\ called' = called + 1 /\ called' \in Calls /\ pending'.id = called'
      /\ outcome' = [outcome EXCEPT ![called'] = [is |-> "waiting", command |-> c, by |-> 0]]
      /\ outcome[called'] = Uncalled /\ SameAnswers
  BY CommandFacts
<1>2. /\ Usable /\ Usable' /\ pending = NoCall /\ called < MaxCalls /\ executed' = executed
  BY DEF Command, Accepts, Usable
<1>3. \A i \in Calls : outcome'[i] = IF i = called' THEN [is |-> "waiting", command |-> c, by |-> 0]
                                                   ELSE outcome[i]
  BY <1>1 DEF Inv, TypeOK
<1>4. Answers' = Answers
  BY <1>1 DEF Answers, SameAnswers
<1>5. Inspections' = IF c = "inspect" THEN Inspections \cup {called'} ELSE Inspections
  BY <1>1, <1>3 DEF Inspections, Uncalled
<1> QED
  BY <1>1, <1>2, <1>4, <1>5 DEF Abstract!Call, Inspections, Answers, Usable, NoCall

LEMMA BoardCarriesOut ==
    ASSUME Inv, NEW status \in Statuses, BoardRuns(status)
    PROVE  Abstract!CarryOut(Head(toBoard).id) /\ Head(toBoard).id \in Calls
<1> DEFINE q == Head(toBoard)
<1>1. /\ executed' = [executed EXCEPT ![q.id] = 1] /\ executed[q.id] = 0
      /\ q.id \in Calls /\ q.id <= called
  BY BoardRunsFacts
<1>2. UNCHANGED <<port, failed, pending, called, outcome>>
  BY DEF BoardRuns, link
<1>3. Inspections' = Inspections /\ Answers' = Answers /\ Usable' = Usable
  BY <1>2 DEF Inspections, Answers, Usable
<1>4. q.id \in 1 .. called
  BY <1>1, IntactType, Numbers DEF Inv
<1> QED
  BY <1>1, <1>2, <1>3, <1>4 DEF Abstract!CarryOut, Inspections, Answers, Usable

LEMMA AnswerReturns ==
    ASSUME Inv, ReadReply, NEW r, r = Head(toHost), Matches(r)
    PROVE  Abstract!Return(r.id) /\ r.id \in Calls
<1>0. toHost # <<>>
  BY DEF ReadReply
<1>1. /\ r \in Reply
      /\ r.id \in Calls /\ r.id <= called /\ executed[r.id] = 1
      /\ outcome[r.id].command = outcome[called].command
      /\ outcome[called].command = r.command
      /\ \A i : Answered(i) => i < called /\ outcome[i].by < r.id
      /\ r.id # called /\ outcome[called].command # "inspect" =>
            Borrowed(called - 1) /\ Borrowed(r.id - 1)
  BY <1>0, ReplyFacts
<1>2. /\ called \in Calls /\ pending' = NoCall
      /\ UNCHANGED <<port, failed, called, executed>>
      /\ \A i \in Calls : i # called => outcome'[i] = outcome[i]
      /\ outcome'[called] = Settled(r)
  BY AnswerFacts
<1>3. pending # NoCall /\ pending.id = called
  BY PendingFacts DEF Matches
<1>4. Settled(r).by = r.id /\ Settled(r).command = outcome[called].command
  BY <1>1, SettledType
<1>5. Inspections' = Inspections /\ Usable' = Usable
  BY <1>2, <1>4 DEF Inspections, Usable
<1>6. Answers' = [Answers EXCEPT ![called] = r.id]
  BY <1>2, <1>4 DEF Answers
<1>7. r.id \in 1 .. called /\ called # 0 /\ r.id \in Int /\ 1 <= r.id
  BY <1>1, <1>2, Numbers
<1>8. r.id \in Inspections <=> called \in Inspections
  BY <1>1, <1>2 DEF Inspections
<1>9. \A i \in 1 .. called - 1 : i \in Calls /\ Answers[i] < r.id
  <2>1. \A i \in 1 .. called - 1 : i \in Calls
    BY <1>2, Numbers DEF Calls
  <2>2. ASSUME NEW i \in 1 .. called - 1
        PROVE  outcome[i].by < r.id
    <3>1. CASE outcome[i].by = 0
      BY <1>7, <3>1
    <3>2. CASE outcome[i].by # 0
      BY <1>1, <2>1, <3>2 DEF Answered
    <3> QED
      BY <3>1, <3>2
  <2> QED
    BY <2>1, <2>2 DEF Answers
<1>10. r.id # called /\ called \notin Inspections =>
          /\ called - 1 \in Calls /\ Answers[called - 1] \notin {0, called - 1}
          /\ r.id - 1 \in Calls /\ Answers[r.id - 1] \notin {0, r.id - 1}
  BY <1>1, <1>2 DEF Inspections, Answers, Borrowed, Answered
<1> QED
  BY <1>1, <1>2, <1>3, <1>5, <1>6, <1>7, <1>8, <1>9, <1>10
     DEF Abstract!Return, Abstract!Borrowed, Abstract!Calls, Calls, Inspections, Answers,
         Usable, NoCall

LEMMA CallsStep ==
    ASSUME Inv, [Next]_vars
    PROVE  [Abstract!Next]_(Abstract!vars)
<1>1. CASE Open
  <2>1. /\ pending = NoCall /\ pending' = NoCall /\ ~Usable /\ Usable'
        /\ UNCHANGED <<called, outcome, executed>>
    BY <1>1 DEF Inv, LinkInv, Open, Usable
  <2>2. Inspections' = Inspections /\ Answers' = Answers
    BY <2>1 DEF Inspections, Answers
  <2>3. Abstract!Reopen
    BY <2>1, <2>2 DEF Abstract!Reopen, Inspections, Answers, Usable, NoCall
  <2> QED
    BY <2>3 DEF Abstract!Next
<1>2. CASE \/ PortFails \/ Timeout \/ Close
           \/ ReadReply /\ ~Matches(Head(toHost))
  <2>1. Fail /\ UNCHANGED <<called, executed>>
    BY <1>2 DEF PortFails, Timeout, Close, ReadReply
  <2> QED
    BY <2>1, FailGivesUp, UnseenStutters DEF Abstract!Next
<1>3. CASE \E c \in Commands : Command(c)
  <2>1. PICK c \in Commands : Command(c)
    BY <1>3
  <2>2. Abstract!Call(c = "inspect") /\ (c = "inspect") \in BOOLEAN
    BY <2>1, CommandIsCall
  <2> QED
    BY <2>2 DEF Abstract!Next
<1>4. CASE ReadReply /\ Matches(Head(toHost))
  <2>1. PICK r : r = Head(toHost)
    OBVIOUS
  <2>2. Abstract!Return(r.id) /\ r.id \in Calls
    BY <1>4, <2>1, AnswerReturns
  <2> QED
    BY <2>2 DEF Abstract!Next, Abstract!Calls, Calls
<1>5. CASE \E s \in Statuses : BoardRuns(s)
  BY <1>5, BoardCarriesOut DEF Abstract!Next, Abstract!Calls, Calls
<1>6. CASE PortCloses \/ FrameLost \/ Unplugged \/ UNCHANGED vars
  <2>1. UNCHANGED <<pending, called, outcome, executed, failed>> /\ Usable' = Usable
    BY <1>6 DEF PortCloses, FrameLost, Unplugged, vars, link, wires, Usable
  <2>2. Unseen
    BY <2>1 DEF Unseen, Inspections, Answers
  <2> QED
    BY <2>2, UnseenStutters
<1> QED
  BY <1>1, <1>2, <1>3, <1>4, <1>5, <1>6 DEF Next

\* The link keeps the safety part of the promise of SerialCalls: the board
\* carries a command out at most once, and no command returns an answer that
\* the board did not give, or returns on a link that has given up.
THEOREM LinkImplementsCalls == Spec => Abstract!Spec
<1>1. Inv /\ [Next]_vars => [Abstract!Next]_(Abstract!vars)
  BY CallsStep
<1> QED
  BY <1>1, CallsInit, Invariance, PTL DEF Spec, Abstract!Spec
=============================================================================
