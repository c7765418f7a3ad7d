------------------------- MODULE SessionActorProofs -------------------------
(***************************************************************************)
(* The safety invariants of SessionActor, proved for every value of the    *)
(* constants: first what take_run takes and leaves, then that each method  *)
(* of the actor maps an actor to an actor, and one step per handler.       *)
(* Sound(s) is kept by every method of the actor; a handler is a           *)
(* composition of methods, so it keeps it too.  NothingStranded is then a  *)
(* matter of how each handler ends: with a drained queue, a turn or an     *)
(* input at the gate, or with nothing ready added to the queue.            *)
(*                                                                         *)
(* The next parts follow a line that is sent once.  Placed(s, h): it is in *)
(* one place, the hand h of the handler that moves it being one.           *)
(* Ordered(s): the journal, a barrier's reply, the queue, the line in      *)
(* flight and those behind it are one row, in the order of arrival.        *)
(*                                                                         *)
(* An append that fails leaves its handler half done.  Within(x, t): the   *)
(* place x it is left at is on the way to what its method makes of it, t,  *)
(* with as much of the journal and of the acknowledgements as came first.  *)
(* The last part has Broken, what then remains of Placed and of Ordered.   *)
(***************************************************************************)
EXTENDS SessionActor, SequenceTheorems, FiniteSetTheorems, WellFoundedInduction, TLAPS

-----------------------------------------------------------------------------
(* Types.                                                                  *)

\* The head of a queue that take_run takes exists: the least position whose
\* successor is not kept, or the whole queue.
LEMMA RunLengthExists ==
  ASSUME NEW q \in Seq(Intents), NEW keep
  PROVE  /\ RunLength(q, keep) \in 0..Len(q)
         /\ \A k \in 1..RunLength(q, keep) : q[k] \in keep
         /\ RunLength(q, keep) < Len(q) => q[RunLength(q, keep) + 1] \notin keep
<1>. DEFINE T == {n \in 0..Len(q) : n < Len(q) => q[n + 1] \notin keep}
<1>0. Len(q) \in Nat
  BY LenProperties
<1>1. T \subseteq Nat /\ T # {}
  BY <1>0
<1>2. PICK n \in T : \A m \in T : ~(<<m, n>> \in OpToRel(<, Nat))
  BY <1>1, WFMin, NatLessThanWellFounded, Zenon
<1>3. \A m \in T : ~(m < n)
  BY <1>1, <1>2, Zenon DEF OpToRel
<1>4. \A k \in 1..n : q[k] \in keep
  <2>. SUFFICES ASSUME NEW k \in 1..n PROVE q[k] \in keep
    OBVIOUS
  <2>1. k - 1 \in 0..Len(q) /\ k - 1 < n /\ (k - 1) + 1 = k /\ k - 1 < Len(q)
    BY <1>0, <1>1
  <2>2. k - 1 \notin T
    BY <2>1, <1>3
  <2>. QED
    BY <2>1, <2>2
<1>. DEFINE Q(x) == /\ \A k \in 1..x : q[k] \in keep
                    /\ x < Len(q) => q[x + 1] \notin keep
<1>5. \E x \in 0..Len(q) : Q(x)
  BY <1>4
<1>6. RunLength(q, keep) = CHOOSE x \in 0..Len(q) : Q(x)
  BY DEF RunLength
<1>. HIDE DEF Q
<1>7. RunLength(q, keep) \in 0..Len(q) /\ Q(RunLength(q, keep))
  BY <1>5, <1>6, Zenon
<1>. QED
  BY <1>7 DEF Q

\* The rest of a sequence from a position on.
LEMMA RestOfSeq ==
  ASSUME NEW S, NEW q \in Seq(S), NEW m \in 1..(Len(q) + 1)
  PROVE  /\ SubSeq(q, m, Len(q)) \in Seq(S)
         /\ Len(SubSeq(q, m, Len(q))) = Len(q) + 1 - m
         /\ \A k \in DOMAIN SubSeq(q, m, Len(q)) :
              /\ m + k - 1 \in DOMAIN q
              /\ SubSeq(q, m, Len(q))[k] = q[m + k - 1]
<1>. DEFINE n == Len(q)
            r == SubSeq(q, m, n)
<1>1. n \in Nat /\ DOMAIN q = 1..n /\ \A k \in 1..n : q[k] \in S
  BY LenProperties, ElementOfSeq
<1>2. m \in Int /\ n \in Int /\ \A k \in m..n : q[k] \in S
  BY <1>1
<1>. HIDE DEF n
<1>3. /\ r \in Seq(S)
      /\ Len(r) = IF m <= n THEN n - m + 1 ELSE 0
      /\ \A k \in 1..(n - m + 1) : r[k] = q[m + k - 1]
  BY <1>2, SubSeqProperties
<1>. HIDE DEF r
<1>4. Len(r) = n + 1 - m /\ DOMAIN r = 1..Len(r)
  BY <1>1, <1>2, <1>3, LenProperties DEF n
<1>5. \A k \in DOMAIN r : m + k - 1 \in DOMAIN q /\ r[k] = q[m + k - 1]
  <2>. SUFFICES ASSUME NEW k \in DOMAIN r
                PROVE  m + k - 1 \in DOMAIN q /\ r[k] = q[m + k - 1]
    OBVIOUS
  <2>1. m \in 1..(n + 1)
    BY DEF n
  <2>2. k \in 1..(n - m + 1)
    BY <1>1, <1>4, <2>1
  <2>3. m + k - 1 \in 1..n
    BY <1>1, <2>1, <2>2
  <2>. QED
    BY <1>1, <1>3, <2>2, <2>3
<1>. QED
  BY <1>3, <1>4, <1>5 DEF n, r

\* What is taken and what is left are queues, and what is left was there.
LEMMA TakenLeftType ==
  ASSUME NEW q \in Seq(Intents), NEW keep
  PROVE  /\ Taken(q, keep) \in Seq(Intents)
         /\ Left(q, keep) \in Seq(Intents)
         /\ \A k \in DOMAIN Left(q, keep) : \E j \in DOMAIN q : Left(q, keep)[k] = q[j]
<1>. DEFINE n == RunLength(q, keep)
<1>1. n \in 0..Len(q) /\ Len(q) \in Nat /\ \A k \in 1..Len(q) : q[k] \in Intents
  BY RunLengthExists, LenProperties, ElementOfSeq
<1>. HIDE DEF n
<1>2. SubSeq(q, 1, n) \in Seq(Intents)
  BY <1>1, SubSeqProperties
<1>3. n + 1 \in 1..(Len(q) + 1)
  BY <1>1
<1>4. /\ SubSeq(q, n + 1, Len(q)) \in Seq(Intents)
      /\ \A k \in DOMAIN SubSeq(q, n + 1, Len(q)) :
           \E j \in DOMAIN q : SubSeq(q, n + 1, Len(q))[k] = q[j]
  BY <1>3, RestOfSeq
<1>. QED
  BY <1>2, <1>4 DEF Taken, Left, n

-----------------------------------------------------------------------------
(* The methods of the actor keep the types of its fields.                  *)

LEMMA AckType ==
  ASSUME NEW s \in Actor, NEW i \in Intents, NEW o \in Fate
  PROVE  Ack(s, i, o) \in Actor
<1>1. Append(s.fate[i], o) \in Seq(Fate)
  BY DEF Actor
<1>2. [s.fate EXCEPT ![i] = Append(s.fate[i], o)] \in [Intents -> Seq(Fate)]
  BY <1>1 DEF Actor
<1>. QED
  BY <1>2 DEF Ack, Actor

LEMMA AckAllType ==
  ASSUME NEW s \in Actor, NEW is, NEW o \in Fate
  PROVE  AckAll(s, is, o) \in Actor
<1>. DEFINE f == [i \in Intents |-> IF i \in is THEN Append(s.fate[i], o) ELSE s.fate[i]]
<1>1. \A i \in Intents : s.fate[i] \in Seq(Fate) /\ Append(s.fate[i], o) \in Seq(Fate)
  BY DEF Actor
<1>2. f \in [Intents -> Seq(Fate)]
  BY <1>1
<1>. HIDE DEF f
<1>3. [s EXCEPT !.fate = f] \in Actor
  BY <1>2 DEF Actor
<1>. QED
  BY <1>3 DEF AckAll, f

LEMMA EnqueueType ==
  ASSUME NEW s \in Actor, NEW i \in Intents
  PROVE  Enqueue(s, i) \in Actor
<1>1. Append(s.queue, i) \in Seq(Intents)
  BY DEF Actor
<1>2. [s EXCEPT !.queue = Append(@, i)] \in Actor
  BY <1>1 DEF Actor
<1>. QED
  BY <1>2, AckType DEF Enqueue, Fate

LEMMA UserItemsType ==
  ASSUME NEW q \in Seq(Intents), NEW t \in Nat
  PROVE  UserItems(q, t) \in Seq(Said)
<1>1. Len(q) \in Nat /\ \A k \in 1..Len(q) : q[k] \in Intents
  BY LenProperties, ElementOfSeq
<1>2. UserItems(q, t) \in [1..Len(q) -> Said]
  BY <1>1 DEF UserItems, Said
<1>. QED
  BY <1>1, <1>2

LEMMA StartTurnType ==
  ASSUME NEW s \in Actor, NEW inputs \in Seq(Intents)
  PROVE  StartTurn(s, inputs) \in Actor
<1>. DEFINE turn == s.turns + 1
            said == s.said \o UserItems(inputs, turn)
<1>1. turn \in Nat
  BY DEF Actor
<1>2. s.said \in Seq(Said)
  BY DEF Actor
<1>3. said \in Seq(Said)
  BY <1>1, <1>2, UserItemsType, ConcatProperties
<1>. HIDE DEF turn, said
<1>4. [s EXCEPT !.turns = turn, !.running = turn, !.ended = FALSE, !.stop = FALSE,
                !.said = said] \in Actor
  BY <1>1, <1>3 DEF Actor
<1>. QED
  BY <1>4, AckAllType DEF StartTurn, turn, said, Fate

\* A line's place in the queue goes to the turn that opens.
LEMMA TakeQueueType ==
  ASSUME NEW s \in Actor
  PROVE  /\ [s EXCEPT !.queue = Left(@, ProseOf(s))] \in Actor
         /\ Taken(s.queue, ProseOf(s)) \in Seq(Intents)
<1>1. s.queue \in Seq(Intents)
  BY DEF Actor
<1>2. Left(s.queue, ProseOf(s)) \in Seq(Intents) /\ Taken(s.queue, ProseOf(s)) \in Seq(Intents)
  BY <1>1, TakenLeftType
<1>. QED
  BY <1>2 DEF Actor

LEMMA HeldThenType ==
  ASSUME NEW s \in Actor, NEW i \in Intents
  PROVE  HeldThen(s, i) \in Actor
<1>. DEFINE q == Taken(s.queue, ProseOf(s))
<1>0. q \in Seq(Intents)
  BY TakeQueueType
<1>. HIDE DEF q
<1>1. Append(q, i) \in Seq(Intents)
  BY <1>0
<1>. QED
  BY <1>1, TakeQueueType, StartTurnType DEF HeldThen, q

LEMMA LogInputType ==
  ASSUME NEW s \in Actor, NEW i \in Intents
  PROVE  LogInput(s, i) \in Actor
<1>1. Append(s.said, [intent |-> i, turn |-> 0]) \in Seq(Said)
  BY DEF Actor, Said
<1>2. [s EXCEPT !.said = Append(@, [intent |-> i, turn |-> 0])] \in Actor
  BY <1>1 DEF Actor
<1>. QED
  BY <1>2, AckType DEF LogInput, Fate

LEMMA StartGateType ==
  ASSUME NEW s \in Actor
  PROVE  StartGate(s) \in Actor
<1>1. CASE s.waiting = <<>>
  BY <1>1 DEF StartGate
<1>2. CASE s.waiting # <<>>
  <2>1. s.waiting \in Seq(Waiting)
    BY DEF Actor
  <2>2. Tail(s.waiting) \in Seq(Waiting) /\ Head(s.waiting) \in Waiting
    BY <1>2, <2>1, HeadTailProperties
  <2>. DEFINE f == [intent |-> Head(s.waiting).intent,
                    kind |-> Head(s.waiting).kind, cut |-> FALSE]
  <2>3. f \in Flight
    BY <2>2 DEF Flight, Waiting
  <2>. HIDE DEF f
  <2>4. [s EXCEPT !.waiting = Tail(@), !.flight = f] \in Actor
    BY <2>2, <2>3 DEF Actor
  <2>. QED
    BY <1>2, <2>4 DEF StartGate, f
<1>. QED
  BY <1>1, <1>2

LEMMA GateInputType ==
  ASSUME NEW s \in Actor, NEW i \in Intents, NEW kind \in GateKinds
  PROVE  GateInput(s, i, kind) \in Actor
<1>. DEFINE w == [intent |-> i, kind |-> kind]
            ws == IF kind \in {"queued", "prose"} THEN <<w>> \o s.waiting
                  ELSE Append(s.waiting, w)
<1>1. w \in Waiting
  BY DEF Waiting
<1>2. s.waiting \in Seq(Waiting)
  BY DEF Actor
<1>. HIDE DEF w
<1>3. <<w>> \in Seq(Waiting) /\ Append(s.waiting, w) \in Seq(Waiting)
  BY <1>1, <1>2
<1>4. ws \in Seq(Waiting)
  BY <1>2, <1>3, ConcatProperties
<1>. HIDE DEF ws
<1>5. [s EXCEPT !.waiting = ws] \in Actor
  BY <1>4 DEF Actor
<1>. QED
  BY <1>5, StartGateType DEF GateInput, w, ws

LEMMA DrainQueueType ==
  ASSUME NEW s \in Actor
  PROVE  DrainQueue(s) \in Actor
<1>1. CASE s.queue = <<>>
  BY <1>1 DEF DrainQueue
<1>2. CASE s.queue # <<>>
  <2>1. s.queue \in Seq(Intents)
    BY DEF Actor
  <2>2. Tail(s.queue) \in Seq(Intents) /\ Head(s.queue) \in Intents
    BY <1>2, <2>1, HeadTailProperties
  <2>3. [s EXCEPT !.queue = Tail(@)] \in Actor
    BY <2>2 DEF Actor
  <2>4. GateInput([s EXCEPT !.queue = Tail(@)], Head(s.queue), "queued") \in Actor
    BY <2>2, <2>3, GateInputType DEF GateKinds
  <2>5. StartTurn([s EXCEPT !.queue = Left(@, ProseOf(s))], Taken(s.queue, ProseOf(s))) \in Actor
    BY TakeQueueType, StartTurnType
  <2>. QED
    BY <2>4, <2>5 DEF DrainQueue
<1>. QED
  BY <1>1, <1>2

LEMMA SubmitProseType ==
  ASSUME NEW s \in Actor, NEW i \in Intents
  PROVE  SubmitProse(s, i) \in Actor
BY LogInputType, EnqueueType, HeldThenType DEF SubmitProse

LEMMA DeliverReadyType ==
  ASSUME NEW s \in Actor, NEW i \in Intents
  PROVE  DeliverReady(s, i) \in Actor
BY AckType, LogInputType, EnqueueType, HeldThenType DEF DeliverReady, Fate

LEMMA SubmitCommandType ==
  ASSUME NEW s \in Actor, NEW i \in Intents, NEW queued, NEW instant
  PROVE  SubmitCommand(s, i, queued, instant) \in Actor
<1>1. [s EXCEPT !.inflight = @ \cup {i}, !.cut = @ \ {i},
                !.holding = IF instant THEN @ ELSE i] \in Actor
  BY DEF Actor
<1>. QED
  BY <1>1, EnqueueType DEF SubmitCommand, RunCommand

LEMMA ApplyGateType ==
  ASSUME NEW s \in Actor, NEW i \in Intents, NEW kind, NEW verdict
  PROVE  ApplyGate(s, i, kind, verdict) \in Actor
BY AckType, SubmitProseType, DeliverReadyType, SubmitCommandType DEF ApplyGate, Fate

LEMMA CancelCommandAsksType ==
  ASSUME NEW s \in Actor
  PROVE  CancelCommandAsks(s) \in Actor
BY DEF CancelCommandAsks, Actor

LEMMA FinishCloseType ==
  ASSUME NEW s \in Actor
  PROVE  FinishClose(s) \in Actor
<1>0. <<>> \in Seq(Intents)
  BY EmptySeq
<1>1. [s EXCEPT !.queue = <<>>, !.closed = TRUE, !.closing = FALSE] \in Actor
  BY <1>0 DEF Actor
<1>. QED
  BY <1>1, AckAllType DEF FinishClose, Fate

LEMMA NoFlightType == NoFlight \in Flight
BY DEF NoFlight, Flight, GateKinds

LEMMA ClosedType ==
  ASSUME NEW s \in Actor
  PROVE  Closed(s) \in Actor
<1>. DEFINE a == CancelTokens(s)
            b == CloseGate(a)
            c == [b EXCEPT !.pending = {}]
<1>1. a \in Actor
  <2>1. s.inflight \in SUBSET Intents /\ (s.running # 0) \in BOOLEAN
    BY DEF Actor
  <2>. QED
    BY <2>1 DEF CancelTokens, Actor
<1>. HIDE DEF a
<1>2. [a EXCEPT !.waiting = <<>>, !.flight = NoFlight] \in Actor
  BY <1>1, NoFlightType, EmptySeq DEF Actor
<1>3. b \in Actor
  BY <1>2, AckAllType DEF CloseGate, Fate
<1>. HIDE DEF b
<1>4. c \in Actor
  BY <1>3 DEF Actor
<1>. HIDE DEF c
<1>5. [c EXCEPT !.closing = TRUE] \in Actor
  BY <1>4 DEF Actor
<1>. QED
  BY <1>4, <1>5, FinishCloseType DEF Closed, a, b, c

-----------------------------------------------------------------------------
(* The initial state, and a line that is sent.                             *)

LEMMA SentType ==
  ASSUME TypeOK, NEW i \in Intents, NEW kind \in LineKinds
  PROVE  Sent(i, kind) \in Actor
<1>1. Append(actor.arrived, i) \in Seq(Intents)
  BY DEF TypeOK, Actor
<1>2. [actor.line EXCEPT ![i] = kind] \in [Intents -> LineKinds \cup {"unsent"}]
  BY DEF TypeOK, Actor
<1>. QED
  BY <1>1, <1>2 DEF TypeOK, Sent, Actor

LEMMA InitType == Init => TypeOK
BY EmptySeq, ConstantsAssumption
   DEF Init, TypeOK, Actor, NoFlight, Flight, GateKinds

LEMMA LinesKinds == Lines \subseteq LineKinds
BY ConstantsAssumption DEF LineKinds

-----------------------------------------------------------------------------
(* A handler whose append fails leaves the actor at a place x on the way   *)
(* to what the method it is in makes of it, t: the same lines queued, the  *)
(* journal and the acknowledgements those of t or fewer.                   *)

Starts(p, q) == \A k \in DOMAIN p : k \in DOMAIN q /\ q[k] = p[k]

Within(x, t) ==
  /\ x \in Actor /\ t \in Actor
  /\ x.line = t.line /\ x.arrived = t.arrived /\ x.queue = t.queue
  /\ Starts(x.said, t.said)
  /\ \A j \in Intents : \/ t.fate[j] = x.fate[j]
                        \/ \E o \in Fate : t.fate[j] = Append(x.fate[j], o)

LEMMA WithinSelf ==
  ASSUME NEW s \in Actor
  PROVE  Within(s, s)
BY DEF Within, Starts

\* What is behind x matters in these fields only.
LEMMA WithinAs ==
  ASSUME NEW x, NEW t, NEW u \in Actor, Within(x, t),
         u.line = t.line, u.arrived = t.arrived, u.queue = t.queue, u.said = t.said,
         u.fate = t.fate
  PROVE  Within(x, u)
BY DEF Within

LEMMA WithinAcks ==
  ASSUME NEW x \in Actor, NEW u \in Actor, NEW o \in Fate, NEW is, NEW js, is \subseteq js,
         x.line = u.line, x.arrived = u.arrived, x.queue = u.queue, x.fate = u.fate,
         Starts(x.said, u.said)
  PROVE  /\ Within(x, AckAll(u, js, o))
         /\ Within(AckAll(x, is, o), AckAll(u, js, o))
<1>1. ASSUME NEW s \in Actor, NEW ks
      PROVE  /\ AckAll(s, ks, o) \in Actor
             /\ AckAll(s, ks, o).line = s.line /\ AckAll(s, ks, o).arrived = s.arrived
             /\ AckAll(s, ks, o).queue = s.queue /\ AckAll(s, ks, o).said = s.said
             /\ \A j \in Intents : AckAll(s, ks, o).fate[j] =
                  IF j \in ks THEN Append(s.fate[j], o) ELSE s.fate[j]
  <2>1. AckAll(s, ks, o) \in Actor
    BY AckAllType
  <2>. QED
    BY <2>1 DEF AckAll, Actor
<1>. DEFINE a == AckAll(x, is, o)
            b == AckAll(u, js, o)
<1>2. /\ a \in Actor /\ a.line = x.line /\ a.arrived = x.arrived /\ a.queue = x.queue
      /\ a.said = x.said
      /\ \A j \in Intents : a.fate[j] = IF j \in is THEN Append(x.fate[j], o) ELSE x.fate[j]
  BY <1>1
<1>3. /\ b \in Actor /\ b.line = u.line /\ b.arrived = u.arrived /\ b.queue = u.queue
      /\ b.said = u.said
      /\ \A j \in Intents : b.fate[j] = IF j \in js THEN Append(u.fate[j], o) ELSE u.fate[j]
  BY <1>1
<1>. HIDE DEF a, b
<1>4. \A j \in Intents : b.fate[j] = x.fate[j] \/ b.fate[j] = Append(x.fate[j], o)
  BY <1>3
<1>5. \A j \in Intents : b.fate[j] = a.fate[j] \/ b.fate[j] = Append(a.fate[j], o)
  BY <1>2, <1>3
<1>6. Within(x, b)
  BY <1>3, <1>4 DEF Within
<1>7. Within(a, b)
  BY <1>2, <1>3, <1>5 DEF Within
<1>. QED
  BY <1>6, <1>7 DEF a, b

\* The first user items of a turn.
LEMMA FirstItems ==
  ASSUME NEW said \in Seq(Said), NEW q \in Seq(Intents), NEW n \in Nat, NEW k \in 0..Len(q)
  PROVE  /\ SubSeq(q, 1, k) \in Seq(Intents) /\ SeqRange(SubSeq(q, 1, k)) \subseteq SeqRange(q)
         /\ said \o UserItems(SubSeq(q, 1, k), n) \in Seq(Said)
         /\ Starts(said \o UserItems(SubSeq(q, 1, k), n), said \o UserItems(q, n))
         /\ SubSeq(q, 1, Len(q)) = q
<1>. DEFINE p == SubSeq(q, 1, k)
            a == UserItems(p, n)
            b == UserItems(q, n)
<1>1. Len(q) \in Nat /\ DOMAIN q = 1..Len(q) /\ \A m \in 1..Len(q) : q[m] \in Intents
  BY LenProperties, ElementOfSeq
<1>2. k \in Nat /\ k <= Len(q)
  BY <1>1
<1>3. p \in Seq(Intents) /\ Len(p) = k /\ DOMAIN p = 1..k /\ \A m \in 1..k : p[m] = q[m]
  <2>1. 1 \in Int /\ k \in Int /\ \A m \in 1..k : q[m] \in Intents
    BY <1>1, <1>2
  <2>2. /\ p \in Seq(Intents)
        /\ Len(p) = IF 1 <= k THEN k - 1 + 1 ELSE 0
        /\ \A m \in 1..(k - 1 + 1) : p[m] = q[1 + m - 1]
    BY <2>1, SubSeqProperties
  <2>. HIDE DEF p
  <2>3. Len(p) = k /\ \A m \in 1..k : p[m] = q[m]
    BY <1>2, <2>2
  <2>. QED
    BY <2>2, <2>3, LenProperties
<1>4. SeqRange(p) \subseteq SeqRange(q)
  BY <1>1, <1>2, <1>3 DEF SeqRange
<1>. HIDE DEF p
<1>5. a \in Seq(Said) /\ b \in Seq(Said)
  BY <1>3, UserItemsType
<1>6. DOMAIN a = 1..k /\ DOMAIN b = 1..Len(q) /\ \A m \in 1..k : a[m] = b[m]
  BY <1>1, <1>2, <1>3 DEF UserItems
<1>7. Len(a) = k /\ Len(b) = Len(q)
  BY <1>1, <1>2, <1>5, <1>6, LenProperties
<1>. HIDE DEF a, b
<1>8. /\ said \o a \in Seq(Said) /\ said \o b \in Seq(Said)
      /\ Len(said) \in Nat
      /\ Len(said \o a) = Len(said) + k /\ Len(said \o b) = Len(said) + Len(q)
      /\ \A m \in 1..(Len(said) + k) :
           (said \o a)[m] = IF m <= Len(said) THEN said[m] ELSE a[m - Len(said)]
      /\ \A m \in 1..(Len(said) + Len(q)) :
           (said \o b)[m] = IF m <= Len(said) THEN said[m] ELSE b[m - Len(said)]
  <2>1. Len(said) \in Nat
    BY LenProperties
  <2>2. /\ said \o a \in Seq(Said) /\ Len(said \o a) = Len(said) + Len(a)
        /\ \A m \in 1..(Len(said) + Len(a)) :
             (said \o a)[m] = IF m <= Len(said) THEN said[m] ELSE a[m - Len(said)]
    BY <1>5, ConcatProperties
  <2>3. /\ said \o b \in Seq(Said) /\ Len(said \o b) = Len(said) + Len(b)
        /\ \A m \in 1..(Len(said) + Len(b)) :
             (said \o b)[m] = IF m <= Len(said) THEN said[m] ELSE b[m - Len(said)]
    BY <1>5, ConcatProperties
  <2>. QED
    BY <1>7, <2>1, <2>2, <2>3
<1>9. DOMAIN (said \o a) = 1..(Len(said) + k) /\ DOMAIN (said \o b) = 1..(Len(said) + Len(q))
  BY <1>8, LenProperties
<1>10. ASSUME NEW m \in 1..(Len(said) + k)
       PROVE  m \in 1..(Len(said) + Len(q)) /\ (said \o b)[m] = (said \o a)[m]
  <2>1. m \in 1..(Len(said) + Len(q))
    BY <1>1, <1>2, <1>8
  <2>2. CASE m <= Len(said)
    BY <1>8, <2>1, <2>2
  <2>3. CASE ~(m <= Len(said))
    <3>1. m - Len(said) \in 1..k
      BY <1>2, <1>8, <2>3
    <3>. QED
      BY <1>6, <1>8, <2>1, <2>3, <3>1
  <2>. QED
    BY <2>1, <2>2, <2>3
<1>11. Starts(said \o a, said \o b)
  BY <1>9, <1>10 DEF Starts
<1>. QED
  BY <1>3, <1>4, <1>8, <1>11, SubSeqFull DEF p, a, b

LEMMA OpeningWithin ==
  ASSUME NEW s \in Actor, NEW inputs \in Seq(Intents), NEW x \in Opening(s, inputs)
  PROVE  Within(x, StartTurn(s, inputs))
<1>. DEFINE turn == s.turns + 1
            part(k) == SubSeq(inputs, 1, k)
            said(k) == s.said \o UserItems(part(k), turn)
            items == s.said \o UserItems(inputs, turn)
            r(k) == [s EXCEPT !.said = said(k)]
            a == [s EXCEPT !.turns = turn, !.running = turn,
                           !.ended = FALSE, !.stop = FALSE, !.said = items]
<1>0. s.said \in Seq(Said) /\ turn \in Nat /\ Len(inputs) \in Nat /\ Len(inputs) \in 0..Len(inputs)
  <2>1. s.said \in Seq(Said) /\ turn \in Nat
    BY DEF Actor
  <2>2. Len(inputs) \in Nat
    BY LenProperties
  <2>. QED
    BY <2>1, <2>2
<1>1. StartTurn(s, inputs) = AckAll(a, SeqRange(inputs), "started")
  BY DEF StartTurn
<1>2. \/ \E k \in 0..Len(inputs) : x = r(k)
      \/ \E k \in 0..Len(inputs) : x = AckAll(r(Len(inputs)), SeqRange(part(k)), "started")
  BY DEF Opening
<1>. HIDE DEF turn
<1>3. ASSUME NEW k \in 0..Len(inputs)
      PROVE  /\ said(k) \in Seq(Said) /\ Starts(said(k), items)
             /\ SeqRange(part(k)) \subseteq SeqRange(inputs)
  BY <1>0, FirstItems
<1>4. items \in Seq(Said)
  BY <1>0, UserItemsType, ConcatProperties
<1>. HIDE DEF said, items, part
<1>5. /\ a \in Actor /\ a.line = s.line /\ a.arrived = s.arrived /\ a.queue = s.queue
      /\ a.fate = s.fate /\ a.said = items
  BY <1>0, <1>4 DEF Actor
<1>6. ASSUME NEW k \in 0..Len(inputs)
      PROVE  /\ r(k) \in Actor /\ r(k).line = s.line /\ r(k).arrived = s.arrived
             /\ r(k).queue = s.queue /\ r(k).fate = s.fate /\ r(k).said = said(k)
  <2>1. said(k) \in Seq(Said)
    BY <1>3
  <2>. DEFINE z == said(k)
  <2>. HIDE DEF z
  <2>2. /\ [s EXCEPT !.said = z] \in Actor /\ [s EXCEPT !.said = z].line = s.line
        /\ [s EXCEPT !.said = z].arrived = s.arrived /\ [s EXCEPT !.said = z].queue = s.queue
        /\ [s EXCEPT !.said = z].fate = s.fate /\ [s EXCEPT !.said = z].said = z
    BY <2>1 DEF Actor, z
  <2>. QED
    BY <2>2 DEF z
<1>. HIDE DEF a, r
<1>7. "started" \in Fate
  BY DEF Fate
<1>8. ASSUME NEW k \in 0..Len(inputs)
      PROVE  Within(r(k), AckAll(a, SeqRange(inputs), "started"))
  <2>. DEFINE y == r(k)
  <2>1. /\ y \in Actor /\ y.line = a.line /\ y.arrived = a.arrived /\ y.queue = a.queue
        /\ y.fate = a.fate /\ Starts(y.said, a.said)
    BY <1>3, <1>5, <1>6
  <2>. HIDE DEF y
  <2>2. Within(y, AckAll(a, SeqRange(inputs), "started"))
    BY <1>5, <1>7, <2>1, WithinAcks
  <2>. QED
    BY <2>2 DEF y
<1>9. ASSUME NEW k \in 0..Len(inputs)
      PROVE  Within(AckAll(r(Len(inputs)), SeqRange(part(k)), "started"),
                    AckAll(a, SeqRange(inputs), "started"))
  <2>. DEFINE y == r(Len(inputs))
              is == SeqRange(part(k))
              js == SeqRange(inputs)
  <2>1. /\ y \in Actor /\ y.line = a.line /\ y.arrived = a.arrived /\ y.queue = a.queue
        /\ y.fate = a.fate /\ Starts(y.said, a.said)
    BY <1>0, <1>3, <1>5, <1>6
  <2>2. is \subseteq js
    BY <1>3
  <2>. HIDE DEF y, is, js
  <2>3. Within(AckAll(y, is, "started"), AckAll(a, js, "started"))
    BY <1>5, <1>7, <2>1, <2>2, WithinAcks
  <2>. QED
    BY <2>3 DEF y, is, js
<1>. QED
  BY <1>1, <1>2, <1>8, <1>9

LEMMA GateInputWithin ==
  ASSUME NEW s \in Actor, NEW i \in Intents, NEW kind \in GateKinds
  PROVE  Within(s, GateInput(s, i, kind)) /\ Within(s, StartGate(s))
<1>1. \A t \in Actor : /\ StartGate(t).line = t.line /\ StartGate(t).arrived = t.arrived
                       /\ StartGate(t).queue = t.queue /\ StartGate(t).said = t.said
                       /\ StartGate(t).fate = t.fate /\ StartGate(t).model = t.model
  BY DEF StartGate, Actor
<1>. DEFINE w == [intent |-> i, kind |-> kind]
            ws == IF kind \in {"queued", "prose"} THEN <<w>> \o s.waiting
                  ELSE Append(s.waiting, w)
            a == [s EXCEPT !.waiting = ws]
<1>2. GateInput(s, i, kind) = StartGate(a)
  BY DEF GateInput
<1>3. ws \in Seq(Waiting)
  <2>1. w \in Waiting /\ s.waiting \in Seq(Waiting)
    BY DEF Waiting, Actor
  <2>. HIDE DEF w
  <2>2. <<w>> \in Seq(Waiting) /\ Append(s.waiting, w) \in Seq(Waiting)
    BY <2>1
  <2>. QED
    BY <2>1, <2>2, ConcatProperties
<1>. HIDE DEF ws
<1>4. /\ a \in Actor /\ a.line = s.line /\ a.arrived = s.arrived /\ a.queue = s.queue
      /\ a.said = s.said /\ a.fate = s.fate
  BY <1>3 DEF Actor
<1>. HIDE DEF a
<1>. QED
  BY <1>1, <1>2, <1>4, StartGateType, WithinSelf, WithinAs

LEMMA DrainingWithin ==
  ASSUME NEW s \in Actor, NEW x \in Draining(s)
  PROVE  Within(x, DrainQueue(s))
<1>1. ~(Busy(s) \/ GateBusy(s) \/ s.queue = <<>>)
  BY DEF Draining
<1>2. CASE IsCommand(s, Head(s.queue))
  <2>. DEFINE a == [s EXCEPT !.queue = Tail(@)]
  <2>1. x = a /\ DrainQueue(s) = GateInput(a, Head(s.queue), "queued")
    BY <1>1, <1>2 DEF Draining, DrainQueue
  <2>2. s.queue \in Seq(Intents)
    BY DEF Actor
  <2>3. Tail(s.queue) \in Seq(Intents) /\ Head(s.queue) \in Intents
    BY <1>1, <2>2, HeadTailProperties
  <2>4. a \in Actor
    BY <2>3 DEF Actor
  <2>. HIDE DEF a
  <2>. QED
    BY <2>1, <2>3, <2>4, GateInputWithin DEF GateKinds
<1>3. CASE ~IsCommand(s, Head(s.queue))
  <2>. DEFINE a == [s EXCEPT !.queue = Left(@, ProseOf(s))]
              T == Taken(s.queue, ProseOf(s))
  <2>1. x \in Opening(a, T) /\ DrainQueue(s) = StartTurn(a, T)
    BY <1>1, <1>3 DEF Draining, DrainQueue
  <2>2. a \in Actor /\ T \in Seq(Intents)
    BY TakeQueueType
  <2>. HIDE DEF a, T
  <2>. QED
    BY <2>1, <2>2, OpeningWithin
<1>. QED
  BY <1>2, <1>3

LEMMA AckSame ==
  ASSUME NEW s \in Actor, NEW i \in Intents, NEW o \in Fate
  PROVE  Ack(s, i, o) = AckAll(s, {i}, o)
<1>1. s.fate \in [Intents -> Seq(Fate)]
  BY DEF Actor
<1>2. [s.fate EXCEPT ![i] = Append(s.fate[i], o)]
        = [j \in Intents |-> IF j \in {i} THEN Append(s.fate[j], o) ELSE s.fate[j]]
  BY <1>1
<1>. QED
  BY <1>2 DEF Ack, AckAll

LEMMA AckWithin ==
  ASSUME NEW s \in Actor, NEW i \in Intents, NEW o \in Fate
  PROVE  Within(s, Ack(s, i, o))
<1>1. Starts(s.said, s.said) /\ {i} \subseteq {i}
  BY DEF Starts
<1>2. Within(s, AckAll(s, {i}, o))
  BY <1>1, WithinAcks
<1>. QED
  BY <1>2, AckSame

LEMMA QueueingWithin ==
  ASSUME NEW s \in Actor, NEW i \in Intents, NEW x \in Queueing(s, i)
  PROVE  Within(x, Enqueue(s, i))
<1>. DEFINE q == Append(s.queue, i)
            a == [s EXCEPT !.queue = q]
<1>1. x = a /\ Enqueue(s, i) = Ack(a, i, "queued")
  BY DEF Queueing, Enqueue
<1>2. q \in Seq(Intents)
  BY DEF Actor
<1>. HIDE DEF q
<1>3. a \in Actor
  BY <1>2 DEF Actor
<1>. HIDE DEF a
<1>. QED
  BY <1>1, <1>3, AckWithin DEF Fate

LEMMA LoggingWithin ==
  ASSUME NEW s \in Actor, NEW i \in Intents, NEW x \in Logging(s, i)
  PROVE  Within(x, LogInput(s, i))
<1>. DEFINE q == Append(s.said, [intent |-> i, turn |-> 0])
            a == [s EXCEPT !.said = q]
<1>1. x \in {s, a} /\ LogInput(s, i) = Ack(a, i, "applied")
  BY DEF Logging, LogInput
<1>2. q \in Seq(Said) /\ Starts(s.said, q)
  <2>. DEFINE w == [intent |-> i, turn |-> 0]
  <2>1. w \in Said /\ s.said \in Seq(Said)
    BY DEF Said, Actor
  <2>. HIDE DEF w
  <2>2. /\ Append(s.said, w) \in Seq(Said) /\ Len(s.said) \in Nat
        /\ DOMAIN s.said = 1..Len(s.said)
        /\ DOMAIN Append(s.said, w) = 1..(Len(s.said) + 1)
        /\ \A k \in 1..Len(s.said) : Append(s.said, w)[k] = s.said[k]
    BY <2>1, AppendProperties, LenProperties
  <2>3. Starts(s.said, Append(s.said, w))
    BY <2>2 DEF Starts
  <2>. QED
    BY <2>2, <2>3 DEF w
<1>. HIDE DEF q
<1>3. /\ a \in Actor /\ a.line = s.line /\ a.arrived = s.arrived /\ a.queue = s.queue
      /\ a.said = q /\ a.fate = s.fate
  BY <1>2 DEF Actor
<1>. HIDE DEF a
<1>4. Within(a, Ack(a, i, "applied"))
  BY <1>3, AckWithin DEF Fate
<1>5. Within(s, AckAll(a, {i}, "applied"))
  BY <1>2, <1>3, WithinAcks DEF Fate
<1>6. Ack(a, i, "applied") = AckAll(a, {i}, "applied")
  BY <1>3, AckSame DEF Fate
<1>. QED
  BY <1>1, <1>4, <1>5, <1>6

LEMMA HeldThenWithin ==
  ASSUME NEW s \in Actor, NEW i \in Intents,
         NEW x \in Opening([s EXCEPT !.queue = Left(@, ProseOf(s))],
                           Append(Taken(s.queue, ProseOf(s)), i))
  PROVE  Within(x, HeldThen(s, i))
<1>. DEFINE a == [s EXCEPT !.queue = Left(@, ProseOf(s))]
            T == Taken(s.queue, ProseOf(s))
<1>1. a \in Actor /\ T \in Seq(Intents)
  BY TakeQueueType
<1>2. x \in Opening(a, Append(T, i)) /\ HeldThen(s, i) = StartTurn(a, Append(T, i))
  BY DEF HeldThen
<1>. HIDE DEF a, T
<1>3. Append(T, i) \in Seq(Intents)
  BY <1>1
<1>. QED
  BY <1>1, <1>2, <1>3, OpeningWithin

LEMMA ProsingWithin ==
  ASSUME NEW s \in Actor, NEW i \in Intents
  PROVE  /\ \A x \in Prosing(s, i) : Within(x, SubmitProse(s, i))
         /\ \A x \in Delivering(s, i) : Within(x, DeliverReady(s, i))
<1>1. ASSUME NEW x \in Prosing(s, i)
      PROVE  Within(x, SubmitProse(s, i))
  BY LoggingWithin, QueueingWithin, HeldThenWithin DEF Prosing, SubmitProse
<1>2. ASSUME NEW x \in Delivering(s, i)
      PROVE  Within(x, DeliverReady(s, i))
  <2>1. CASE s.closed \/ s.closing
    BY <2>1, AckWithin DEF Delivering, DeliverReady, Fate
  <2>2. CASE ~(s.closed \/ s.closing) /\ s.model /\ IsHeld(s, i)
    BY <2>2, QueueingWithin DEF Delivering, DeliverReady
  <2>3. CASE ~(s.closed \/ s.closing) /\ ~(s.model /\ IsHeld(s, i))
    <3>1. x \in Prosing(s, i) /\ DeliverReady(s, i) = SubmitProse(s, i)
      BY <2>3 DEF Delivering, DeliverReady, SubmitProse
    <3>. QED
      BY <1>1, <3>1
  <2>. QED
    BY <2>1, <2>2, <2>3
<1>. QED
  BY <1>1, <1>2

LEMMA ApplyingWithin ==
  ASSUME NEW s \in Actor, NEW i \in Intents, NEW kind,
         NEW verdict \in {"rejected", "redirected", "prose", "delivered", "instant", "holds"},
         NEW x \in Applying(s, i, kind, verdict)
  PROVE  Within(x, ApplyGate(s, i, kind, verdict))
<1>1. CASE verdict \in {"rejected", "redirected"}
  BY <1>1, AckWithin DEF Applying, ApplyGate, Fate
<1>2. CASE verdict \in {"prose", "delivered"}
  BY <1>2, ProsingWithin DEF Applying, ApplyGate
<1>3. CASE verdict \in {"instant", "holds"}
  <2>1. x \in Queueing(s, i) /\ ApplyGate(s, i, kind, verdict) = Enqueue(s, i)
    BY <1>3 DEF Applying, ApplyGate, SubmitCommand
  <2>. QED
    BY <2>1, QueueingWithin
<1>. QED
  BY <1>1, <1>2, <1>3

LEMMA RejectingWithin ==
  ASSUME NEW s \in Actor, NEW q \in Seq(Intents), NEW js, SeqRange(q) \subseteq js,
         NEW x \in Rejecting(s, q)
  PROVE  Within(x, AckAll(s, js, "rejected"))
<1>1. PICK k \in 0..Len(q) : x = AckAll(s, SeqRange(SubSeq(q, 1, k)), "rejected")
  BY DEF Rejecting
<1>2. s.said \in Seq(Said)
  BY DEF Actor
<1>3. SeqRange(SubSeq(q, 1, k)) \subseteq SeqRange(q)
  BY <1>2, FirstItems
<1>. DEFINE is == SeqRange(SubSeq(q, 1, k))
<1>4. is \subseteq js /\ Starts(s.said, s.said) /\ "rejected" \in Fate
  BY <1>3 DEF Starts, Fate
<1>. HIDE DEF is
<1>5. Within(AckAll(s, is, "rejected"), AckAll(s, js, "rejected"))
  BY <1>4, WithinAcks
<1>. QED
  BY <1>1, <1>5 DEF is

LEMMA EndingWithin ==
  ASSUME NEW s \in Actor, NEW x \in Ending(s)
  PROVE  Within(x, FinishClose(s))
<1>. DEFINE a == [s EXCEPT !.queue = <<>>]
            b == [s EXCEPT !.queue = <<>>, !.closed = TRUE, !.closing = FALSE]
<1>1. x \in Rejecting(a, s.queue) /\ FinishClose(s) = AckAll(b, SeqRange(s.queue), "rejected")
  BY DEF Ending, FinishClose
<1>2. s.queue \in Seq(Intents)
  BY DEF Actor
<1>3. a \in Actor /\ b \in Actor
  BY EmptySeq DEF Actor
<1>4. /\ AckAll(b, SeqRange(s.queue), "rejected") \in Actor
      /\ AckAll(a, SeqRange(s.queue), "rejected") \in Actor
  BY <1>3, AckAllType DEF Fate
<1>5. LET u == AckAll(a, SeqRange(s.queue), "rejected")
          t == AckAll(b, SeqRange(s.queue), "rejected")
      IN  /\ t.line = u.line /\ t.arrived = u.arrived /\ t.queue = u.queue /\ t.said = u.said
          /\ t.fate = u.fate
  BY DEF AckAll, Actor
<1>6. Within(x, AckAll(a, SeqRange(s.queue), "rejected"))
  BY <1>1, <1>2, <1>3, RejectingWithin
<1>. HIDE DEF a, b
<1>. QED
  BY <1>1, <1>4, <1>5, <1>6, WithinAs

LEMMA GateLinesIs ==
  ASSUME NEW s \in Actor
  PROVE  /\ GateLines(s) \in Seq(Intents)
         /\ SeqRange(GateLines(s)) \subseteq
              {s.waiting[k].intent : k \in DOMAIN s.waiting} \cup ({s.flight.intent} \ {None})
<1>. DEFINE f == IF s.flight.intent = None THEN <<>> ELSE <<s.flight.intent>>
            w == [k \in DOMAIN s.waiting |-> s.waiting[k].intent]
<1>1. s.waiting \in Seq(Waiting) /\ s.flight.intent \in Intents \cup {None}
  BY DEF Actor, Flight
<1>2. Len(s.waiting) \in Nat /\ DOMAIN s.waiting = 1..Len(s.waiting)
      /\ \A k \in 1..Len(s.waiting) : s.waiting[k] \in Waiting
  BY <1>1, LenProperties, ElementOfSeq
<1>3. w \in [1..Len(s.waiting) -> Intents]
  BY <1>2 DEF Waiting
<1>4. w \in Seq(Intents) /\ Len(w) = Len(s.waiting) /\ DOMAIN w = DOMAIN s.waiting
      /\ \A k \in DOMAIN s.waiting : w[k] = s.waiting[k].intent
  BY <1>2, <1>3
<1>5. f \in Seq(Intents) /\ \A k \in DOMAIN f : f[k] = s.flight.intent /\ f[k] # None
  BY <1>1
<1>6. GateLines(s) = f \o w
  BY DEF GateLines
<1>. HIDE DEF f, w
<1>7. /\ f \o w \in Seq(Intents) /\ Len(f \o w) = Len(f) + Len(w)
      /\ \A k \in 1..(Len(f) + Len(w)) : (f \o w)[k] = IF k <= Len(f) THEN f[k] ELSE w[k - Len(f)]
      /\ Len(f) \in Nat /\ Len(w) \in Nat /\ DOMAIN f = 1..Len(f) /\ DOMAIN w = 1..Len(w)
  <2>1. Len(f) \in Nat /\ Len(w) \in Nat /\ DOMAIN f = 1..Len(f) /\ DOMAIN w = 1..Len(w)
    BY <1>4, <1>5, LenProperties
  <2>2. /\ f \o w \in Seq(Intents) /\ Len(f \o w) = Len(f) + Len(w)
        /\ \A k \in 1..(Len(f) + Len(w)) :
             (f \o w)[k] = IF k <= Len(f) THEN f[k] ELSE w[k - Len(f)]
    <3>1. f \in Seq(Intents) /\ w \in Seq(Intents)
      BY <1>4, <1>5
    <3>. QED
      BY <3>1, ConcatProperties
  <2>. QED
    BY <2>1, <2>2
<1>8. DOMAIN (f \o w) = 1..(Len(f) + Len(w))
  BY <1>7, LenProperties
<1>9. ASSUME NEW k \in DOMAIN (f \o w)
      PROVE  (f \o w)[k] \in
               {s.waiting[m].intent : m \in DOMAIN s.waiting} \cup ({s.flight.intent} \ {None})
  <2>1. CASE k <= Len(f)
    <3>1. k \in DOMAIN f /\ (f \o w)[k] = f[k]
      BY <1>7, <1>8, <2>1
    <3>. QED
      BY <1>5, <3>1
  <2>2. CASE ~(k <= Len(f))
    <3>1. k - Len(f) \in DOMAIN w /\ (f \o w)[k] = w[k - Len(f)]
      BY <1>7, <1>8, <2>2
    <3>. QED
      BY <1>4, <3>1
  <2>. QED
    BY <2>1, <2>2
<1>. QED
  BY <1>6, <1>7, <1>9 DEF SeqRange

\* A close that rejects what is at the gate.
LEMMA CloseGateWithin ==
  ASSUME NEW s \in Actor, NEW x \in Rejecting(s, GateLines(s))
  PROVE  Within(x, CloseGate(s))
<1>. DEFINE a == [s EXCEPT !.waiting = <<>>, !.flight = NoFlight]
            is == {s.waiting[k].intent : k \in DOMAIN s.waiting} \cup ({s.flight.intent} \ {None})
<1>1. CloseGate(s) = AckAll(a, is, "rejected")
  BY DEF CloseGate
<1>2. Within(x, AckAll(s, is, "rejected"))
  BY GateLinesIs, RejectingWithin
<1>. HIDE DEF is
<1>3. a \in Actor
  BY NoFlightType, EmptySeq DEF Actor
<1>4. AckAll(a, is, "rejected") \in Actor
  BY <1>3, AckAllType DEF Fate
<1>5. LET u == AckAll(s, is, "rejected")
          t == AckAll(a, is, "rejected")
      IN  /\ t.line = u.line /\ t.arrived = u.arrived /\ t.queue = u.queue /\ t.said = u.said
          /\ t.fate = u.fate
  BY DEF AckAll, Actor
<1>. HIDE DEF a
<1>. QED
  BY <1>1, <1>2, <1>4, <1>5, WithinAs

-----------------------------------------------------------------------------
(* Every handler keeps the types.                                          *)

LEMMA TakenAtGate ==
  ASSUME TypeOK, actor.flight.intent # None
  PROVE  actor.flight.intent \in Intents /\ [actor EXCEPT !.flight = NoFlight] \in Actor
BY NoFlightType DEF TypeOK, Actor, Flight

LEMMA ReportedType ==
  ASSUME NEW s \in Actor, NEW i \in Intents, NEW o \in {"applied", "rejected", "prompt"}
  PROVE  Reported(s, i, o) \in Actor
<1>. DEFINE f == [s EXCEPT !.inflight = @ \ {i}, !.cut = @ \ {i},
                           !.holding = IF @ = i THEN None ELSE @]
            a == IF s.holding = i THEN CancelCommandAsks(f) ELSE f
            p == [a EXCEPT !.line[i] = "prompt"]
<1>1. f \in Actor
  BY DEF Actor
<1>. HIDE DEF f
<1>2. a \in Actor
  BY <1>1, CancelCommandAsksType
<1>. HIDE DEF a
<1>3. p \in Actor
  BY <1>2 DEF Actor, LineKinds
<1>. HIDE DEF p
<1>4. GateInput(p, i, "prose") \in Actor
  BY <1>3, GateInputType DEF GateKinds
<1>5. o # "prompt" => Ack(a, i, o) \in Actor
  BY <1>2, AckType DEF Fate
<1>6. Reported(s, i, o) = IF o = "prompt" THEN GateInput(p, i, "prose") ELSE Ack(a, i, o)
  BY DEF Reported, CommandOver, f, a, p
<1>. QED
  BY <1>4, <1>5, <1>6

LEMMA WithoutType ==
  ASSUME NEW s \in Actor, NEW k \in DOMAIN s.queue
  PROVE  [s EXCEPT !.queue = Without(@, k)] \in Actor
<1>. DEFINE q == s.queue
<1>1. q \in Seq(Intents) /\ k \in DOMAIN q
  BY DEF Actor
<1>. HIDE DEF q
<1>2. k \in 1..Len(q) /\ Len(q) \in Nat /\ \A j \in 1..Len(q) : q[j] \in Intents
  BY <1>1, LenProperties, ElementOfSeq
<1>3. SubSeq(q, 1, k - 1) \in Seq(Intents)
  <2>1. 1 \in Int /\ k - 1 \in Int /\ \A j \in 1..(k - 1) : q[j] \in Intents
    BY <1>2
  <2>. QED
    BY <2>1, SubSeqProperties
<1>4. k + 1 \in 1..(Len(q) + 1)
  BY <1>2
<1>5. SubSeq(q, k + 1, Len(q)) \in Seq(Intents)
  BY <1>1, <1>4, RestOfSeq
<1>6. Without(q, k) \in Seq(Intents)
  BY <1>3, <1>5, ConcatProperties DEF Without
<1>. QED
  BY <1>6 DEF Actor, q

LEMMA HaltType ==
  ASSUME NEW s \in Actor
  PROVE  Halt(s) \in Actor
<1>. DEFINE a == [s EXCEPT !.waiting = <<>>, !.flight = NoFlight, !.queue = <<>>,
                           !.inflight = {}, !.holding = None, !.cut = {},
                           !.running = 0, !.ended = FALSE, !.stop = FALSE,
                           !.barrier = "none", !.steers = <<>>, !.pending = {},
                           !.closing = FALSE, !.closed = TRUE, !.failed = TRUE]
<1>1. a \in Actor
  BY NoFlightType, EmptySeq DEF Actor
<1>2. Halt(s) = AckAll(a, SeqRange(s.queue), "rejected")
  BY DEF Halt
<1>. HIDE DEF a
<1>. QED
  BY <1>1, <1>2, AckAllType DEF Fate

\* Wherever an append fails, the actor is left an actor.
LEMMA FailedType ==
  ASSUME TypeOK, StorageFailed
  PROVE  \E x \in Actor : actor' = Halt(x)
<1>0. actor \in Actor
  BY DEF TypeOK
<1>1. ASSUME NEW i \in Intents, NEW kind \in Lines, SubmitFails(i, kind)
      PROVE  \E x \in Actor : actor' = Halt(x)
  BY <1>1, SentType, LinesKinds DEF SubmitFails, Halts
<1>2. ASSUME NEW i \in Intents, NEW kind \in Lines, DeliverFails(i, kind)
      PROVE  \E x \in Actor : actor' = Halt(x)
  <2>. DEFINE s == Sent(i, kind)
  <2>1. s \in Actor
    BY SentType, LinesKinds
  <2>2. PICK x \in Delivering(s, i) : actor' = Halt(x)
    BY <1>2 DEF DeliverFails, Halts
  <2>. HIDE DEF s
  <2>. QED
    BY <2>1, <2>2, ProsingWithin DEF Within
<1>3. ASSUME NEW v \in {"rejected", "redirected", "prose", "delivered", "instant", "holds"},
             GatedFails(v)
      PROVE  \E x \in Actor : actor' = Halt(x)
  <2>. DEFINE i == actor.flight.intent
              kind == actor.flight.kind
              taken == [actor EXCEPT !.flight = NoFlight]
              given == ApplyGate(taken, i, kind, v)
              applied == StartGate(given)
  <2>1. \/ \E x \in Applying(taken, i, kind, v) : actor' = Halt(x)
        \/ \E x \in Draining(applied) : actor' = Halt(x)
    BY <1>3 DEF GatedFails, Halts
  <2>2. i \in Intents /\ taken \in Actor
    BY <1>3, TakenAtGate DEF GatedFails
  <2>. HIDE DEF taken, i, kind
  <2>3. given \in Actor
    BY <2>2, ApplyGateType
  <2>. HIDE DEF given
  <2>4. applied \in Actor
    BY <2>3, StartGateType
  <2>. HIDE DEF applied
  <2>5. \A x \in Applying(taken, i, kind, v) : x \in Actor
    BY <2>2, ApplyingWithin DEF Within
  <2>6. \A x \in Draining(applied) : x \in Actor
    BY <2>4, DrainingWithin DEF Within
  <2>. QED
    BY <2>1, <2>5, <2>6
<1>4. ASSUME NEW i \in Intents, NEW o \in {"applied", "rejected", "prompt"}, CommandFails(i, o)
      PROVE  \E x \in Actor : actor' = Halt(x)
  <2>. DEFINE r == Reported(actor, i, o)
  <2>1. actor' = Halt(r) \/ \E x \in Draining(r) : actor' = Halt(x)
    BY <1>4 DEF CommandFails, Halts
  <2>2. r \in Actor
    BY <1>0, ReportedType
  <2>. HIDE DEF r
  <2>. QED
    BY <2>1, <2>2, DrainingWithin DEF Within
<1>5. ASSUME TakingFails
      PROVE  \E x \in Actor : actor' = Halt(x)
  <2>1. CASE \E k \in DOMAIN actor.queue : Halts({[actor EXCEPT !.queue = Without(@, k)]})
    BY <1>0, <2>1, WithoutType DEF Halts
  <2>2. CASE Halts({[actor EXCEPT !.queue = Left(@, SteersOf(actor))]})
    <3>1. actor.queue \in Seq(Intents)
      BY <1>0 DEF Actor
    <3>2. Left(actor.queue, SteersOf(actor)) \in Seq(Intents)
      BY <3>1, TakenLeftType
    <3>3. [actor EXCEPT !.queue = Left(@, SteersOf(actor))] \in Actor
      BY <1>0, <3>2 DEF Actor
    <3>. QED
      BY <2>2, <3>3 DEF Halts
  <2>. QED
    BY <1>5, <2>1, <2>2 DEF TakingFails
<1>6. ASSUME SteerFails
      PROVE  \E x \in Actor : actor' = Halt(x)
  <2>1. PICK k \in DOMAIN actor.steers :
          actor' = Halt(AckAll([actor EXCEPT !.said = @ \o UserItems(SubSeq(actor.steers, 1, k - 1),
                                                                     actor.running)],
                               SeqRange(SubSeq(actor.steers, 1, k - 1)), "steered"))
    BY <1>6 DEF SteerFails, Halts
  <2>2. actor.steers \in Seq(Intents) /\ actor.said \in Seq(Said) /\ actor.running \in Nat
    BY <1>0 DEF Actor
  <2>3. k - 1 \in 0..Len(actor.steers)
    <3>1. Len(actor.steers) \in Nat /\ k \in 1..Len(actor.steers)
      BY <2>2, LenProperties
    <3>. QED
      BY <3>1
  <2>4. actor.said \o UserItems(SubSeq(actor.steers, 1, k - 1), actor.running) \in Seq(Said)
    BY <2>2, <2>3, FirstItems
  <2>5. [actor EXCEPT !.said = @ \o UserItems(SubSeq(actor.steers, 1, k - 1), actor.running)]
          \in Actor
    BY <1>0, <2>4 DEF Actor
  <2>. QED
    BY <2>1, <2>5, AckAllType DEF Fate
<1>7. ASSUME CompletionFails
      PROVE  \E x \in Actor : actor' = Halt(x)
  <2>. DEFINE over == TurnOver(actor)
  <2>1. \/ \E x \in Ending(over) : actor' = Halt(x)
        \/ \E x \in Draining(over) : actor' = Halt(x)
    BY <1>7 DEF CompletionFails, Halts
  <2>2. over \in Actor
    BY <1>0 DEF TurnOver, Actor
  <2>. HIDE DEF over
  <2>. QED
    BY <2>1, <2>2, EndingWithin, DrainingWithin DEF Within
<1>8. ASSUME CloseFails
      PROVE  \E x \in Actor : actor' = Halt(x)
  <2>1. \/ \E x \in Rejecting(actor, GateLines(actor)) : actor' = Halt(x)
        \/ \E x \in Ending(CloseGate(actor)) : actor' = Halt(x)
    BY <1>8 DEF CloseFails, Halts
  <2>2. CloseGate(actor) \in Actor
    <3>1. [actor EXCEPT !.waiting = <<>>, !.flight = NoFlight] \in Actor
      BY <1>0, NoFlightType, EmptySeq DEF Actor
    <3>. QED
      BY <3>1, AckAllType DEF CloseGate, Fate
  <2>. QED
    BY <1>0, <2>1, <2>2, CloseGateWithin, EndingWithin DEF Within
<1>9. Halts({actor}) => \E x \in Actor : actor' = Halt(x)
  BY <1>0 DEF Halts
<1>. QED
  BY <1>1, <1>2, <1>3, <1>4, <1>5, <1>6, <1>7, <1>8, <1>9 DEF StorageFailed

LEMMA TypeStep == TypeOK /\ [Next]_vars => TypeOK'
<1>. SUFFICES ASSUME TypeOK, [Next]_vars
              PROVE  actor' \in Actor
  BY DEF TypeOK
<1>0. actor \in Actor
  BY DEF TypeOK
<1>1. ASSUME NEW i \in Intents, NEW kind \in Lines, Submit(i, kind)
      PROVE  actor' \in Actor
  BY <1>1, SentType, LinesKinds, AckType, GateInputType DEF Submit, Fate, GateKinds
<1>2. ASSUME NEW i \in Intents, NEW kind \in Lines, Deliver(i, kind)
      PROVE  actor' \in Actor
  BY <1>2, SentType, LinesKinds, DeliverReadyType, GateInputType DEF Deliver, GateKinds
<1>3. ASSUME NEW v, Gated(v)
      PROVE  actor' \in Actor
  <2>1. actor.flight.intent \in Intents
    BY <1>0, <1>3 DEF Gated, Actor, Flight
  <2>2. [actor EXCEPT !.flight = NoFlight] \in Actor
    BY <1>0, NoFlightType DEF Actor
  <2>. QED
    BY <1>3, <2>1, <2>2, ApplyGateType, StartGateType, DrainQueueType DEF Gated
<1>4. ASSUME NEW i \in Intents, NEW o \in {"applied", "rejected", "prompt"},
             CommandFinished(i, o)
      PROVE  actor' \in Actor
  BY <1>0, <1>4, ReportedType, DrainQueueType DEF CommandFinished
<1>5. ASSUME Interrupt
      PROVE  actor' \in Actor
  <2>1. [actor EXCEPT !.stop = TRUE, !.pending = {}] \in Actor
    BY <1>0 DEF Actor
  <2>2. actor.holding # None => [actor EXCEPT !.cut = @ \cup {actor.holding}] \in Actor
    BY <1>0 DEF Actor
  <2>3. [actor EXCEPT !.flight.cut = actor.flight.intent # None] \in Actor
    <3>1. [actor.flight EXCEPT !.cut = actor.flight.intent # None] \in Flight
      BY <1>0 DEF Actor, Flight
    <3>. QED
      BY <1>0, <3>1 DEF Actor
  <2>. QED
    BY <1>5, <2>1, <2>2, <2>3, CancelCommandAsksType DEF Interrupt
<1>6. ASSUME NEW i \in Intents, Withdraw(i)
      PROVE  actor' \in Actor
  BY <1>0, <1>6, WithoutType, AckType DEF Withdraw, Fate
<1>7. ASSUME Compact
      PROVE  actor' \in Actor
  <2>1. [actor EXCEPT !.compacts = @ + 1] \in Actor
    <3>1. actor.compacts + 1 \in Nat
      BY <1>0 DEF Actor
    <3>. QED
      BY <1>0, <3>1 DEF Actor
  <2>. QED
    BY <1>7, <2>1, EmptySeq, StartTurnType DEF Compact
<1>8. ASSUME Ask
      PROVE  actor' \in Actor
  <2>. DEFINE p == [id |-> actor.asks + 1, turn |-> actor.running,
                    byCommand |-> actor.holding # None]
  <2>1. actor.asks + 1 \in Nat /\ p \in Pending
    BY <1>0 DEF Actor, Pending
  <2>2. actor' = [actor EXCEPT !.asks = @ + 1, !.pending = @ \cup {p}]
    BY <1>8 DEF Ask
  <2>. HIDE DEF p
  <2>3. actor.pending \cup {p} \in SUBSET Pending
    BY <1>0, <2>1 DEF Actor
  <2>. QED
    BY <1>0, <2>1, <2>2, <2>3 DEF Actor
<1>9. ASSUME NEW p \in actor.pending, Answer(p)
      PROVE  actor' \in Actor
  BY <1>0, <1>9 DEF Answer, Actor
<1>10. ASSUME ReachBarrier
       PROVE  actor' \in Actor
  BY <1>0, <1>10 DEF ReachBarrier, Actor
<1>11. ASSUME Absorb
       PROVE  actor' \in Actor
  <2>1. actor.queue \in Seq(Intents)
    BY <1>0 DEF Actor
  <2>2. /\ Left(actor.queue, SteersOf(actor)) \in Seq(Intents)
        /\ Taken(actor.queue, SteersOf(actor)) \in Seq(Intents)
    BY <2>1, TakenLeftType
  <2>. QED
    BY <1>0, <1>11, <2>2 DEF Absorb, Actor
<1>12. ASSUME Steer
       PROVE  actor' \in Actor
  <2>1. /\ actor.steers \in Seq(Intents)
        /\ actor.running \in Nat
        /\ actor.said \in Seq(Said)
    BY <1>0 DEF Actor
  <2>2. actor.said \o UserItems(actor.steers, actor.running) \in Seq(Said)
    BY <2>1, UserItemsType, ConcatProperties
  <2>3. [actor EXCEPT !.barrier = "none", !.steers = <<>>,
           !.said = @ \o UserItems(actor.steers, actor.running)] \in Actor
    BY <1>0, <2>2, EmptySeq DEF Actor
  <2>. QED
    BY <1>12, <2>3, AckAllType DEF Steer, Fate
<1>13. ASSUME TurnFinished
       PROVE  actor' \in Actor
  <2>1. [actor EXCEPT !.ended = TRUE, !.pending = {}, !.barrier = "none",
                      !.steers = <<>>] \in Actor
    BY <1>0, EmptySeq DEF Actor
  <2>. QED
    BY <1>13, <2>1, AckAllType DEF TurnFinished, Fate
<1>14. ASSUME CompletionReady
       PROVE  actor' \in Actor
  <2>1. [actor EXCEPT !.running = 0, !.ended = FALSE, !.stop = FALSE] \in Actor
    BY <1>0 DEF Actor
  <2>. QED
    BY <1>14, <2>1, FinishCloseType, DrainQueueType DEF CompletionReady, TurnOver
<1>15. ASSUME Close \/ ReserveDelete
       PROVE  actor' \in Actor
  BY <1>0, <1>15, ClosedType DEF Close, ReserveDelete
<1>16. ASSUME StorageFailed
       PROVE  actor' \in Actor
  BY <1>16, FailedType, HaltType
<1>17. ASSUME Stopped \/ UNCHANGED vars
       PROVE  actor' \in Actor
  BY <1>0, <1>17 DEF Stopped, vars
<1>. QED
  BY <1>1, <1>2, <1>3, <1>4, <1>5, <1>6, <1>7, <1>8, <1>9, <1>10, <1>11, <1>12,
     <1>13, <1>14, <1>15, <1>16, <1>17 DEF Next

\* Every field of the Actor struct keeps its type, for any number of
\* intents, interactions, compactions and retries.
THEOREM TypeCorrect == Spec => []TypeOK
BY InitType, TypeStep, PTL DEF Spec

-----------------------------------------------------------------------------
(* What the methods keep.                                                  *)

\* t differs from s in nothing Sound speaks of, a turn that opens apart.
Agree(s, t) ==
  /\ t.closing = s.closing /\ t.closed = s.closed
  /\ t.waiting = s.waiting /\ t.flight = s.flight
  /\ t.holding = s.holding /\ t.inflight = s.inflight
  /\ t.pending = s.pending
  /\ s.running # 0 => t.running # 0

LEMMA AgreeSound ==
  ASSUME NEW s, NEW t, Sound(s), t \in Actor, Agree(s, t)
  PROVE  Sound(t)
BY DEF Sound, Agree, ClosingWaits, AsksHeld, HoldsOne

\* An acknowledgement changes no field but the fates.
LEMMA AckFrame ==
  ASSUME NEW s \in Actor, NEW i \in Intents, NEW o \in Fate
  PROVE  /\ Agree(s, Ack(s, i, o))
         /\ Ack(s, i, o).running = s.running
         /\ Ack(s, i, o).queue = s.queue /\ Ack(s, i, o).line = s.line
BY DEF Ack, Agree, Actor

LEMMA AckAllFrame ==
  ASSUME NEW s \in Actor, NEW is, NEW o \in Fate
  PROVE  /\ Agree(s, AckAll(s, is, o))
         /\ AckAll(s, is, o).running = s.running
         /\ AckAll(s, is, o).queue = s.queue /\ AckAll(s, is, o).line = s.line
BY DEF AckAll, Agree, Actor

LEMMA AckSound ==
  ASSUME NEW s, Sound(s), NEW i \in Intents, NEW o \in Fate
  PROVE  Sound(Ack(s, i, o))
BY AckType, AckFrame, AgreeSound DEF Sound

LEMMA AckAllSound ==
  ASSUME NEW s, Sound(s), NEW is, NEW o \in Fate
  PROVE  Sound(AckAll(s, is, o))
BY AckAllType, AckAllFrame, AgreeSound DEF Sound

LEMMA EnqueueSound ==
  ASSUME NEW s, Sound(s), NEW i \in Intents
  PROVE  /\ Sound(Enqueue(s, i))
         /\ Enqueue(s, i).queue = Append(s.queue, i)
         /\ Enqueue(s, i).line = s.line
         /\ Agree(s, Enqueue(s, i)) /\ Enqueue(s, i).running = s.running
<1>. DEFINE a == [s EXCEPT !.queue = Append(@, i)]
<1>0. s \in Actor
  BY DEF Sound
<1>1. Append(s.queue, i) \in Seq(Intents)
  BY <1>0 DEF Actor
<1>2. a \in Actor /\ a.queue = Append(s.queue, i) /\ a.line = s.line
  BY <1>0, <1>1 DEF Actor
<1>3. Agree(s, a) /\ a.running = s.running
  BY <1>0 DEF Agree, Actor
<1>4. Enqueue(s, i) = Ack(a, i, "queued")
  BY DEF Enqueue
<1>. HIDE DEF a
<1>5. /\ Agree(a, Enqueue(s, i)) /\ Enqueue(s, i).running = a.running
      /\ Enqueue(s, i).queue = a.queue /\ Enqueue(s, i).line = a.line
  BY <1>2, <1>4, AckFrame DEF Fate
<1>6. Agree(s, Enqueue(s, i)) /\ Enqueue(s, i).running = s.running
  BY <1>3, <1>5 DEF Agree
<1>. QED
  BY <1>2, <1>5, <1>6, EnqueueType, AgreeSound DEF Sound

\* A turn that opens makes the session busy.
LEMMA StartTurnSound ==
  ASSUME NEW s, Sound(s), NEW inputs \in Seq(Intents)
  PROVE  /\ Sound(StartTurn(s, inputs))
         /\ Busy(StartTurn(s, inputs))
<1>. DEFINE turn == s.turns + 1
            a == [s EXCEPT !.turns = turn, !.running = turn,
                           !.ended = FALSE, !.stop = FALSE,
                           !.said = @ \o UserItems(inputs, turn)]
<1>0. s \in Actor
  BY DEF Sound
<1>1. turn \in Nat /\ turn # 0
  BY <1>0 DEF Actor
<1>. HIDE DEF turn
<1>2. Agree(s, a) /\ a.running = turn
  BY <1>0, <1>1 DEF Agree, Actor
<1>3. a \in Actor
  <2>1. s.said \in Seq(Said)
    BY <1>0 DEF Actor
  <2>2. s.said \o UserItems(inputs, turn) \in Seq(Said)
    BY <1>1, <2>1, UserItemsType, ConcatProperties
  <2>. QED
    BY <1>0, <1>1, <2>2 DEF Actor
<1>4. StartTurn(s, inputs) = AckAll(a, SeqRange(inputs), "started")
  BY DEF StartTurn, turn
<1>. HIDE DEF a
<1>5. Sound(a)
  BY <1>2, <1>3, AgreeSound
<1>6. Sound(StartTurn(s, inputs)) /\ StartTurn(s, inputs).running = turn
  BY <1>2, <1>3, <1>4, <1>5, AckAllSound, AckAllFrame DEF Fate
<1>. QED
  BY <1>1, <1>6 DEF Busy

\* So does prose that takes the queue's held prose with it.
LEMMA TakeQueueSound ==
  ASSUME NEW s, Sound(s)
  PROVE  Sound([s EXCEPT !.queue = Left(@, ProseOf(s))])
<1>1. s \in Actor
  BY DEF Sound
<1>2. [s EXCEPT !.queue = Left(@, ProseOf(s))] \in Actor
  BY <1>1, TakeQueueType
<1>3. Agree(s, [s EXCEPT !.queue = Left(@, ProseOf(s))])
  BY <1>1 DEF Agree, Actor
<1>. QED
  BY <1>2, <1>3, AgreeSound

LEMMA HeldThenSound ==
  ASSUME NEW s, Sound(s), NEW i \in Intents
  PROVE  Sound(HeldThen(s, i)) /\ Busy(HeldThen(s, i))
<1>. DEFINE q == Taken(s.queue, ProseOf(s))
<1>1. q \in Seq(Intents)
  BY TakeQueueType DEF Sound
<1>. HIDE DEF q
<1>2. Append(q, i) \in Seq(Intents)
  BY <1>1
<1>. QED
  BY <1>2, TakeQueueSound, StartTurnSound DEF HeldThen, q

LEMMA LogInputSound ==
  ASSUME NEW s, Sound(s), NEW i \in Intents
  PROVE  /\ Sound(LogInput(s, i))
         /\ Agree(s, LogInput(s, i)) /\ LogInput(s, i).running = s.running
         /\ LogInput(s, i).queue = s.queue /\ LogInput(s, i).line = s.line
<1>1. s \in Actor /\ LogInput(s, i) \in Actor
  BY LogInputType DEF Sound
<1>2. /\ Agree(s, LogInput(s, i)) /\ LogInput(s, i).running = s.running
      /\ LogInput(s, i).queue = s.queue /\ LogInput(s, i).line = s.line
  BY <1>1 DEF LogInput, Ack, Agree, Actor
<1>. QED
  BY <1>1, <1>2, AgreeSound

-----------------------------------------------------------------------------
(* The gate.                                                               *)

\* A gate with anything in it still has when its next input is started.
LEMMA StartGateSound ==
  ASSUME NEW s, Sound(s)
  PROVE  /\ Sound(StartGate(s))
         /\ GateBusy(s) => GateBusy(StartGate(s))
<1>. DEFINE w == Head(s.waiting)
            f == [intent |-> w.intent, kind |-> w.kind, cut |-> FALSE]
            a == [s EXCEPT !.waiting = Tail(@), !.flight = f]
<1>0. s \in Actor /\ StartGate(s) \in Actor
  BY StartGateType DEF Sound
<1>1. CASE s.flight.intent # None \/ s.closing \/ s.closed \/ s.waiting = <<>>
  BY <1>1 DEF StartGate
<1>2. CASE ~(s.flight.intent # None \/ s.closing \/ s.closed \/ s.waiting = <<>>)
  <2>1. s.waiting \in Seq(Waiting) /\ s.waiting # <<>>
    BY <1>0, <1>2 DEF Actor
  <2>2. w \in Waiting /\ w = s.waiting[1] /\ 1 \in DOMAIN s.waiting
    BY <2>1, HeadTailProperties, LenProperties, EmptySeq
  <2>3. /\ Tail(s.waiting) \in Seq(Waiting)
        /\ \A k \in DOMAIN Tail(s.waiting) :
             k + 1 \in DOMAIN s.waiting /\ Tail(s.waiting)[k] = s.waiting[k + 1]
    BY <2>1, HeadTailProperties, LenProperties
  <2>4. w.kind # "queued" /\ w.intent \in Intents
    BY <1>2, <2>2 DEF Sound, HoldsOne, Waiting
  <2>5. StartGate(s) = a
    BY <1>2 DEF StartGate
  <2>. HIDE DEF w
  <2>6. /\ a.waiting = Tail(s.waiting) /\ a.flight = f
        /\ a.closing = s.closing /\ a.closed = s.closed /\ a.running = s.running
        /\ a.holding = s.holding /\ a.inflight = s.inflight /\ a.pending = s.pending
    BY <1>0 DEF Actor
  <2>7. f.intent # None /\ f.kind # "queued"
    BY <2>4, ConstantsAssumption
  <2>. HIDE DEF a, f
  <2>8. ClosingWaits(a) /\ AsksHeld(a)
    BY <2>6 DEF Sound, ClosingWaits, AsksHeld
  <2>9. HoldsOne(a)
    BY <2>3, <2>6, <2>7 DEF Sound, HoldsOne
  <2>10. GateBusy(a)
    BY <2>6, <2>7 DEF GateBusy
  <2>. QED
    BY <1>0, <2>5, <2>8, <2>9, <2>10 DEF Sound
<1>. QED
  BY <1>1, <1>2

\* An input given to the gate makes it busy.  One that waited in the queue
\* is only given to an idle gate, of a session no command holds.
LEMMA GateInputSound ==
  ASSUME NEW s, Sound(s), NEW i \in Intents, NEW kind \in GateKinds,
         kind = "queued" => /\ s.flight.intent = None /\ s.waiting = <<>>
                            /\ ~s.closing /\ s.holding = None
  PROVE  Sound(GateInput(s, i, kind)) /\ GateBusy(GateInput(s, i, kind))
<1>. DEFINE w == [intent |-> i, kind |-> kind]
            ws == IF kind \in {"queued", "prose"} THEN <<w>> \o s.waiting
                  ELSE Append(s.waiting, w)
            a == [s EXCEPT !.waiting = ws]
<1>0. s \in Actor /\ GateInput(s, i, kind) \in Actor
  BY GateInputType DEF Sound
<1>1. w \in Waiting /\ w.kind = kind /\ w.intent = i
  BY DEF Waiting
<1>2. s.waiting \in Seq(Waiting) /\ Len(s.waiting) \in Nat
  BY <1>0, LenProperties DEF Actor
<1>3. GateInput(s, i, kind) = StartGate(a)
  BY DEF GateInput
<1>. HIDE DEF w
<1>4. /\ ws \in Seq(Waiting) /\ ws # <<>>
      /\ \A k \in DOMAIN ws : ws[k] = w \/ \E j \in DOMAIN s.waiting : ws[k] = s.waiting[j]
  <2>1. CASE kind \in {"queued", "prose"}
    <3>1. /\ <<w>> \in Seq(Waiting) /\ Len(<<w>>) = 1 /\ <<w>>[1] = w
      BY <1>1
    <3>2. /\ <<w>> \o s.waiting \in Seq(Waiting)
          /\ Len(<<w>> \o s.waiting) = 1 + Len(s.waiting)
          /\ \A k \in 1..(1 + Len(s.waiting)) :
               (<<w>> \o s.waiting)[k] = IF k <= 1 THEN <<w>>[k] ELSE s.waiting[k - 1]
      BY <1>2, <3>1, ConcatProperties
    <3>. DEFINE v == <<w>> \o s.waiting
    <3>3. ws = v
      BY <2>1
    <3>. HIDE DEF v, ws
    <3>4. DOMAIN v = 1..(1 + Len(s.waiting)) /\ v # <<>> /\ DOMAIN s.waiting = 1..Len(s.waiting)
      BY <1>2, <3>2, LenProperties DEF v
    <3>5. \A k \in DOMAIN v : v[k] = w \/ \E j \in DOMAIN s.waiting : v[k] = s.waiting[j]
      <4>. SUFFICES ASSUME NEW k \in DOMAIN v, k # 1
                    PROVE  \E j \in DOMAIN s.waiting : v[k] = s.waiting[j]
        BY <1>2, <3>1, <3>2, <3>4 DEF v
      <4>1. k - 1 \in DOMAIN s.waiting /\ v[k] = s.waiting[k - 1]
        BY <1>2, <3>2, <3>4 DEF v
      <4>. QED
        BY <4>1
    <3>. QED
      BY <3>2, <3>3, <3>4, <3>5 DEF v
  <2>2. CASE kind \notin {"queued", "prose"}
    <3>1. ws = Append(s.waiting, w)
      BY <2>2
    <3>. QED
      BY <1>1, <1>2, <3>1
  <2>. QED
    BY <2>1, <2>2
<1>. HIDE DEF ws
<1>5. /\ a \in Actor /\ a.waiting = ws /\ a.flight = s.flight
      /\ a.closing = s.closing /\ a.closed = s.closed /\ a.running = s.running
      /\ a.holding = s.holding /\ a.inflight = s.inflight /\ a.pending = s.pending
  BY <1>0, <1>4 DEF Actor
<1>. HIDE DEF a
<1>6. GateBusy(a)
  BY <1>4, <1>5 DEF GateBusy
<1>7. CASE kind # "queued"
  <2>1. HoldsOne(a)
    BY <1>1, <1>4, <1>5, <1>7 DEF Sound, HoldsOne
  <2>2. Sound(a)
    BY <1>5, <2>1 DEF Sound, ClosingWaits, AsksHeld
  <2>. QED
    BY <1>3, <1>6, <2>2, StartGateSound
<1>8. CASE kind = "queued"
  <2>1. CASE s.closed
    <3>1. HoldsOne(a)
      BY <1>5, <2>1 DEF Sound, HoldsOne
    <3>2. Sound(a)
      BY <1>5, <3>1 DEF Sound, ClosingWaits, AsksHeld
    <3>. QED
      BY <1>3, <1>6, <3>2, StartGateSound
  <2>2. CASE ~s.closed
    <3>a. ws = <<w>> \o s.waiting /\ s.waiting = <<>>
      BY <1>8, Zenon DEF ws
    <3>b. <<w>> \in Seq(Waiting)
      BY <1>1
    <3>1. ws = <<w>>
      BY <3>a, <3>b, ConcatEmptySeq
    <3>. DEFINE f == [intent |-> Head(ws).intent, kind |-> Head(ws).kind, cut |-> FALSE]
                b == [a EXCEPT !.waiting = Tail(@), !.flight = f]
    <3>2. Head(ws) = w /\ Tail(ws) = <<>>
      BY <1>1, <3>1
    <3>3. StartGate(a) = b
      BY <1>4, <1>5, <1>8, <2>2 DEF StartGate
    <3>4. f.intent = i /\ f.kind = kind
      BY <1>1, <3>2
    <3>5. /\ b.waiting = <<>> /\ b.flight = f
          /\ b.closing = s.closing /\ b.closed = s.closed /\ b.running = s.running
          /\ b.holding = s.holding /\ b.inflight = s.inflight /\ b.pending = s.pending
      BY <1>5, <3>2 DEF Actor
    <3>. HIDE DEF b, f
    <3>6. HoldsOne(b)
      BY <1>8, <3>5 DEF Sound, HoldsOne
    <3>7. ClosingWaits(b) /\ AsksHeld(b)
      BY <3>5 DEF Sound, ClosingWaits, AsksHeld
    <3>8. GateBusy(b)
      BY <3>4, <3>5, ConstantsAssumption DEF GateBusy
    <3>. QED
      BY <1>0, <1>3, <3>3, <3>6, <3>7, <3>8 DEF Sound
  <2>. QED
    BY <2>1, <2>2
<1>. QED
  BY <1>7, <1>8

-----------------------------------------------------------------------------
(* drain_queue leaves nothing stranded.                                    *)

\* NothingStranded, of an actor.
Calm(s) == ~s.closed /\ ~Busy(s) /\ ~GateBusy(s) => ~Ready(s)

LEMMA DrainQueueSound ==
  ASSUME NEW s, Sound(s)
  PROVE  Sound(DrainQueue(s)) /\ Calm(DrainQueue(s))
<1>0. s \in Actor
  BY DEF Sound
<1>1. CASE Busy(s) \/ GateBusy(s)
  BY <1>1 DEF DrainQueue, Calm
<1>2. CASE s.queue = <<>>
  BY <1>2 DEF DrainQueue, Calm, Ready
<1>3. CASE ~(Busy(s) \/ GateBusy(s)) /\ s.queue # <<>>
  <2>. DEFINE a == [s EXCEPT !.queue = Tail(@)]
              g == GateInput(a, Head(s.queue), "queued")
              t == StartTurn([s EXCEPT !.queue = Left(@, ProseOf(s))],
                             Taken(s.queue, ProseOf(s)))
  <2>1. s.queue \in Seq(Intents)
    BY <1>0 DEF Actor
  <2>2. Tail(s.queue) \in Seq(Intents) /\ Head(s.queue) \in Intents
    BY <1>3, <2>1, HeadTailProperties
  <2>3. a \in Actor /\ Agree(s, a)
    BY <1>0, <2>2 DEF Actor, Agree
  <2>4. /\ a.flight.intent = None /\ a.waiting = <<>>
        /\ ~a.closing /\ a.holding = None
    BY <1>3, <2>3 DEF Agree, Busy, GateBusy, Sound, ClosingWaits
  <2>5. Sound(a)
    BY <2>3, AgreeSound
  <2>6. "queued" \in GateKinds
    BY DEF GateKinds
  <2>. HIDE DEF a
  <2>7. Sound(g) /\ GateBusy(g)
    BY <2>2, <2>4, <2>5, <2>6, GateInputSound
  <2>8. Sound(t) /\ Busy(t)
    BY <1>0, TakeQueueType, TakeQueueSound, StartTurnSound
  <2>9. DrainQueue(s) = g \/ DrainQueue(s) = t
    BY <1>3 DEF DrainQueue, a
  <2>. QED
    BY <2>7, <2>8, <2>9 DEF Calm
<1>. QED
  BY <1>1, <1>2, <1>3

LEMMA SubmitProseSound ==
  ASSUME NEW s, Sound(s), NEW i \in Intents
  PROVE  Sound(SubmitProse(s, i))
BY LogInputSound, EnqueueSound, HeldThenSound DEF SubmitProse

LEMMA DeliverReadySound ==
  ASSUME NEW s, Sound(s), NEW i \in Intents
  PROVE  Sound(DeliverReady(s, i))
BY AckSound, LogInputSound, EnqueueSound, HeldThenSound DEF DeliverReady, Fate

\* A command runs when the gate has let go of it.
LEMMA SubmitCommandSound ==
  ASSUME NEW s, Sound(s), NEW i \in Intents, NEW queued, NEW instant,
         s.flight.intent = None
  PROVE  Sound(SubmitCommand(s, i, queued, instant))
<1>. DEFINE h == IF instant THEN s.holding ELSE i
            a == [s EXCEPT !.inflight = @ \cup {i}, !.cut = @ \ {i}, !.holding = h]
<1>0. s \in Actor
  BY DEF Sound
<1>1. h \in Intents \cup {None} /\ (h = s.holding \/ h = i)
  BY <1>0 DEF Actor
<1>2. SubmitCommand(s, i, queued, instant) \in {Enqueue(s, i), a}
  BY DEF SubmitCommand, RunCommand
<1>. HIDE DEF h
<1>3. /\ a \in Actor /\ a.holding = h /\ a.inflight = s.inflight \cup {i}
      /\ a.waiting = s.waiting /\ a.flight = s.flight /\ a.pending = s.pending
      /\ a.closing = s.closing /\ a.closed = s.closed /\ a.running = s.running
  BY <1>0, <1>1 DEF Actor
<1>. HIDE DEF a
<1>4. h # None => h \in s.inflight \cup {i}
  BY <1>1 DEF Sound, HoldsOne
<1>5. s.holding # None => h # None
  BY <1>1, ConstantsAssumption
<1>6. HoldsOne(a)
  BY <1>3, <1>4 DEF Sound, HoldsOne
<1>7. Sound(a)
  BY <1>3, <1>5, <1>6 DEF Sound, ClosingWaits, AsksHeld
<1>. QED
  BY <1>2, <1>7, EnqueueSound

LEMMA ApplyGateSound ==
  ASSUME NEW s, Sound(s), NEW i \in Intents, NEW kind, NEW verdict,
         s.flight.intent = None
  PROVE  Sound(ApplyGate(s, i, kind, verdict))
BY AckSound, SubmitProseSound, DeliverReadySound, SubmitCommandSound DEF ApplyGate, Fate

LEMMA CancelCommandAsksSound ==
  ASSUME NEW s \in Actor, ClosingWaits(s), HoldsOne(s)
  PROVE  Sound(CancelCommandAsks(s))
<1>. DEFINE a == [s EXCEPT !.pending = {p \in @ : ~p.byCommand}]
<1>1. /\ a.pending = {p \in s.pending : ~p.byCommand}
      /\ a.waiting = s.waiting /\ a.flight = s.flight
      /\ a.closing = s.closing /\ a.closed = s.closed /\ a.running = s.running
      /\ a.holding = s.holding /\ a.inflight = s.inflight
  BY DEF Actor
<1>2. a = CancelCommandAsks(s) /\ a \in Actor
  BY CancelCommandAsksType DEF CancelCommandAsks
<1>. HIDE DEF a
<1>. QED
  BY <1>1, <1>2 DEF Sound, ClosingWaits, HoldsOne, AsksHeld

LEMMA FinishCloseSound ==
  ASSUME NEW s \in Actor, AsksHeld(s), HoldsOne(s)
  PROVE  Sound(FinishClose(s)) /\ FinishClose(s).closed
<1>. DEFINE a == [s EXCEPT !.queue = <<>>, !.closed = TRUE, !.closing = FALSE]
<1>1. a \in Actor
  BY EmptySeq DEF Actor
<1>2. /\ a.closed = TRUE /\ a.closing = FALSE
      /\ a.waiting = s.waiting /\ a.flight = s.flight /\ a.pending = s.pending
      /\ a.holding = s.holding /\ a.inflight = s.inflight
  BY DEF Actor
<1>3. FinishClose(s) = AckAll(a, SeqRange(s.queue), "rejected")
  BY DEF FinishClose
<1>. HIDE DEF a
<1>4. Sound(a)
  BY <1>1, <1>2 DEF Sound, ClosingWaits, AsksHeld, HoldsOne
<1>. QED
  BY <1>1, <1>2, <1>3, <1>4, AckAllSound, AckAllFrame DEF Fate, Agree

\* A close ends the session, or waits for the turn that runs.
LEMMA ClosedSound ==
  ASSUME NEW s, Sound(s)
  PROVE  Sound(Closed(s)) /\ Calm(Closed(s))
<1>. DEFINE a == CancelTokens(s)
            b == [a EXCEPT !.waiting = <<>>, !.flight = NoFlight]
            c == CloseGate(a)
            d == [c EXCEPT !.pending = {}]
            e == [d EXCEPT !.closing = TRUE]
<1>0. s \in Actor /\ Closed(s) \in Actor
  BY ClosedType DEF Sound
<1>1. a \in Actor
  <2>1. s.inflight \in SUBSET Intents /\ (s.running # 0) \in BOOLEAN
    BY <1>0 DEF Actor
  <2>. QED
    BY <1>0, <2>1 DEF CancelTokens, Actor
<1>2. a.running = s.running /\ a.holding = s.holding /\ a.inflight = s.inflight
  BY <1>0 DEF CancelTokens, Actor
<1>3. Closed(s) = IF s.running # 0 THEN e ELSE FinishClose(d)
  BY DEF Closed
<1>. HIDE DEF a
<1>4. /\ b \in Actor /\ b.waiting = <<>> /\ b.flight = NoFlight
      /\ b.running = a.running /\ b.holding = a.holding /\ b.inflight = a.inflight
  BY <1>1, NoFlightType, EmptySeq DEF Actor
<1>5. \E is : c = AckAll(b, is, "rejected")
  BY DEF CloseGate
<1>. HIDE DEF b, c
<1>6. /\ c \in Actor /\ c.waiting = <<>> /\ c.flight = NoFlight
      /\ c.running = a.running /\ c.holding = a.holding /\ c.inflight = a.inflight
  BY <1>4, <1>5, AckAllType, AckAllFrame DEF Agree, Fate
<1>7. /\ d \in Actor /\ d.waiting = <<>> /\ d.flight = NoFlight /\ d.pending = {}
      /\ d.running = c.running /\ d.holding = c.holding /\ d.inflight = c.inflight
  BY <1>6 DEF Actor
<1>. HIDE DEF d
<1>8. AsksHeld(d) /\ HoldsOne(d)
  BY <1>2, <1>6, <1>7 DEF Sound, AsksHeld, HoldsOne, NoFlight
<1>9. CASE s.running = 0
  BY <1>3, <1>7, <1>8, <1>9, FinishCloseSound DEF Calm
<1>10. CASE s.running # 0
  <2>1. /\ e \in Actor /\ e.waiting = <<>> /\ e.flight = NoFlight /\ e.pending = {}
        /\ e.running = d.running /\ e.holding = d.holding /\ e.inflight = d.inflight
    BY <1>7 DEF Actor
  <2>. HIDE DEF e
  <2>2. Sound(e) /\ Busy(e)
    BY <1>2, <1>6, <1>7, <1>10, <2>1
       DEF Sound, AsksHeld, HoldsOne, ClosingWaits, NoFlight, Busy
  <2>. QED
    BY <1>3, <1>10, <2>2 DEF Calm
<1>. QED
  BY <1>0, <1>9, <1>10 DEF Actor

-----------------------------------------------------------------------------
(* Every handler keeps the inductive invariant.                            *)

LEMMA CalmFrame ==
  ASSUME NEW s, NEW t, Calm(s), Agree(s, t), t.running = s.running,
         t.queue = s.queue, t.line = s.line
  PROVE  Calm(t)
BY DEF Calm, Agree, Busy, GateBusy, Ready, IsHeld

\* Sending a line changes no field of the gate, the queue or the turn.
LEMMA SentSound ==
  ASSUME Sound(actor), NEW i \in Intents, NEW kind \in LineKinds
  PROVE  /\ Sound(Sent(i, kind)) /\ Agree(actor, Sent(i, kind))
         /\ Sent(i, kind).running = actor.running
         /\ Sent(i, kind).queue = actor.queue
         /\ Sent(i, kind).line = [actor.line EXCEPT ![i] = kind]
<1>1. actor \in Actor /\ Sent(i, kind) \in Actor
  BY SentType DEF Sound, TypeOK
<1>2. /\ Agree(actor, Sent(i, kind))
      /\ Sent(i, kind).running = actor.running
      /\ Sent(i, kind).queue = actor.queue
      /\ Sent(i, kind).line = [actor.line EXCEPT ![i] = kind]
  BY <1>1 DEF Sent, Agree, Actor
<1>. QED
  BY <1>1, <1>2, AgreeSound

LEMMA SubmitKeeps ==
  ASSUME IInv, NEW i \in Intents, NEW kind \in Lines, Submit(i, kind)
  PROVE  Sound(actor') /\ Calm(actor')
<1>. DEFINE s == Sent(i, kind)
<1>1. Sound(actor) /\ kind \in LineKinds
  BY LinesKinds DEF IInv
<1>2. Sound(s) /\ Agree(actor, s) /\ s.running = actor.running
  BY <1>1, SentSound
<1>3. CASE actor.closing
  <2>1. actor' = Ack(s, i, "rejected")
    BY <1>3 DEF Submit
  <2>. HIDE DEF s
  <2>2. s \in Actor /\ s.running # 0
    BY <1>1, <1>2, <1>3 DEF Sound, ClosingWaits
  <2>3. Sound(actor') /\ actor'.running # 0
    BY <1>2, <2>1, <2>2, AckSound, AckFrame DEF Fate
  <2>. QED
    BY <2>3 DEF Calm, Busy
<1>4. CASE ~actor.closing
  <2>1. actor' = GateInput(s, i, "submit")
    BY <1>4 DEF Submit
  <2>. HIDE DEF s
  <2>2. Sound(actor') /\ GateBusy(actor')
    BY <1>2, <2>1, GateInputSound DEF GateKinds
  <2>. QED
    BY <2>2 DEF Calm
<1>. QED
  BY <1>3, <1>4

\* A delivery that goes straight in joins the queue of an idle session only
\* when it asked to be held.
LEMMA DeliverKeeps ==
  ASSUME IInv, NEW i \in Intents, NEW kind \in Lines, Deliver(i, kind)
  PROVE  Sound(actor') /\ Calm(actor')
<1>. DEFINE s == Sent(i, kind)
<1>1. Sound(actor) /\ actor \in Actor /\ Calm(actor) /\ kind \in LineKinds
  BY LinesKinds DEF IInv, NothingStranded, Calm, Sound
<1>2. /\ Sound(s) /\ Agree(actor, s) /\ s.running = actor.running
      /\ s.queue = actor.queue /\ s.line = [actor.line EXCEPT ![i] = kind]
  BY <1>1, SentSound
<1>3. actor.line[i] = "unsent" \/ actor.line[i] = kind
  BY DEF Deliver, Arrives
<1>4. CASE GateBusy(actor) \/ actor.links
  <2>1. actor' = GateInput(s, i, "deliver")
    BY <1>4 DEF Deliver
  <2>. HIDE DEF s
  <2>2. Sound(actor') /\ GateBusy(actor')
    BY <1>2, <2>1, GateInputSound DEF GateKinds
  <2>. QED
    BY <2>2 DEF Calm
<1>5. CASE ~(GateBusy(actor) \/ actor.links)
  <2>1. actor' = DeliverReady(s, i)
    BY <1>5 DEF Deliver
  <2>. HIDE DEF s
  <2>2. s \in Actor
    BY <1>2 DEF Sound
  <2>3. Calm(s)
    <3>. SUFFICES ASSUME ~s.closed, ~Busy(s), ~GateBusy(s), Ready(s)
                  PROVE  FALSE
      BY DEF Calm
    <3>1. ~Ready(actor)
      BY <1>1, <1>2 DEF Calm, Agree, Busy, GateBusy
    <3>2. PICK k \in DOMAIN s.queue : ~IsHeld(s, s.queue[k])
      BY DEF Ready
    <3>3. k \in DOMAIN actor.queue /\ IsHeld(actor, actor.queue[k]) /\ s.queue[k] = actor.queue[k]
      BY <1>2, <3>1, <3>2 DEF Ready
    <3>4. actor.queue[k] \in Intents
      <4>1. actor.queue \in Seq(Intents)
        BY <1>1 DEF Actor
      <4>. QED
        BY <3>3, <4>1, LenProperties, ElementOfSeq
    <3>5. actor.queue[k] = i => actor.line[i] = kind
      BY <1>3, <3>3 DEF IsHeld
    <3>6. s.line[actor.queue[k]] = actor.line[actor.queue[k]]
      BY <1>1, <1>2, <3>4, <3>5 DEF Actor
    <3>. QED
      BY <3>2, <3>3, <3>6 DEF IsHeld
  <2>4. Sound(actor')
    BY <1>2, <2>1, DeliverReadySound
  <2>5. CASE s.closed \/ s.closing
    <3>1. actor' = Ack(s, i, "rejected")
      BY <2>1, <2>5 DEF DeliverReady
    <3>2. /\ Agree(s, actor') /\ actor'.running = s.running
          /\ actor'.queue = s.queue /\ actor'.line = s.line
      BY <2>2, <3>1, AckFrame DEF Fate
    <3>. QED
      BY <2>3, <2>4, <3>2, CalmFrame
  <2>6. CASE ~(s.closed \/ s.closing) /\ ~s.model
    <3>1. actor' = LogInput(s, i)
      BY <2>1, <2>6 DEF DeliverReady
    <3>. QED
      BY <1>2, <2>3, <3>1, LogInputSound, CalmFrame
  <2>7. CASE ~(s.closed \/ s.closing) /\ s.model /\ (Busy(s) \/ Ready(s) \/ IsHeld(s, i))
    <3>1. actor' = Enqueue(s, i)
      BY <2>1, <2>7 DEF DeliverReady
    <3>2. /\ Agree(s, actor') /\ actor'.running = s.running
          /\ actor'.queue = Append(s.queue, i) /\ actor'.line = s.line
      BY <1>2, <3>1, EnqueueSound
    <3>. SUFFICES ASSUME ~actor'.closed, ~Busy(actor'), ~GateBusy(actor')
                  PROVE  ~Ready(actor')
      BY <2>4 DEF Calm
    <3>3. ~s.closed /\ ~Busy(s) /\ ~GateBusy(s)
      BY <3>2 DEF Agree, Busy, GateBusy
    <3>4. ~Ready(s) /\ IsHeld(s, i)
      BY <2>3, <2>7, <3>3 DEF Calm
    <3>5. s.queue \in Seq(Intents)
      BY <2>2 DEF Actor
    <3>6. \A k \in DOMAIN Append(s.queue, i) :
            Append(s.queue, i)[k] = i \/ \E j \in DOMAIN s.queue : Append(s.queue, i)[k] = s.queue[j]
      BY <3>5
    <3>. QED
      BY <3>2, <3>4, <3>6 DEF Ready, IsHeld
  <2>8. CASE ~(s.closed \/ s.closing) /\ s.model /\ ~(Busy(s) \/ Ready(s) \/ IsHeld(s, i))
    <3>1. actor' = HeldThen(s, i)
      BY <2>1, <2>8 DEF DeliverReady
    <3>. QED
      BY <1>2, <3>1, HeldThenSound DEF Calm
  <2>. QED
    BY <2>4, <2>5, <2>6, <2>7, <2>8
<1>. QED
  BY <1>4, <1>5

\* The gate's report drains the queue, or leaves it with nothing ready.
LEMMA GatedKeeps ==
  ASSUME IInv, NEW v, Gated(v)
  PROVE  Sound(actor') /\ Calm(actor')
<1>. DEFINE i == actor.flight.intent
            kind == actor.flight.kind
            taken == [actor EXCEPT !.flight = NoFlight]
            applied == StartGate(ApplyGate(taken, i, kind, v))
<1>1. Sound(actor) /\ actor \in Actor
  BY DEF IInv, Sound
<1>2. i \in Intents
  BY <1>1 DEF Gated, Actor, Flight
<1>3. /\ taken \in Actor /\ taken.flight = NoFlight
      /\ taken.closing = actor.closing /\ taken.closed = actor.closed
      /\ taken.waiting = actor.waiting /\ taken.holding = actor.holding
      /\ taken.inflight = actor.inflight /\ taken.pending = actor.pending
      /\ taken.running = actor.running
  BY <1>1, NoFlightType DEF Actor
<1>4. actor' = IF MovesQueue(applied, i, v) THEN DrainQueue(applied) ELSE applied
  BY DEF Gated
<1>. HIDE DEF taken, i, kind
<1>5. Sound(taken) /\ taken.flight.intent = None
  BY <1>1, <1>3 DEF Sound, ClosingWaits, AsksHeld, HoldsOne, NoFlight
<1>6. Sound(applied)
  BY <1>2, <1>5, ApplyGateSound, StartGateSound
<1>. HIDE DEF applied
<1>. QED
  BY <1>4, <1>6, DrainQueueSound DEF MovesQueue, Calm

LEMMA CommandFinishedKeeps ==
  ASSUME IInv, NEW i \in Intents, NEW o \in {"applied", "rejected", "prompt"},
         CommandFinished(i, o)
  PROVE  Sound(actor') /\ Calm(actor')
<1>. DEFINE h == IF actor.holding = i THEN None ELSE actor.holding
            f == [actor EXCEPT !.inflight = @ \ {i}, !.cut = @ \ {i}, !.holding = h]
            a == IF actor.holding = i THEN CancelCommandAsks(f) ELSE f
            p == [a EXCEPT !.line[i] = "prompt"]
<1>1. Sound(actor) /\ actor \in Actor
  BY DEF IInv, Sound
<1>2. /\ h \in Intents \cup {None}
      /\ h # None => h = actor.holding /\ h # i
      /\ actor.holding # i => h = actor.holding
  BY <1>1 DEF Actor
<1>3. actor' = DrainQueue(IF o = "prompt" THEN GateInput(p, i, "prose") ELSE Ack(a, i, o))
  BY DEF CommandFinished, Reported, CommandOver
<1>. HIDE DEF h
<1>4. /\ f \in Actor /\ f.holding = h /\ f.inflight = actor.inflight \ {i}
      /\ f.closing = actor.closing /\ f.closed = actor.closed
      /\ f.waiting = actor.waiting /\ f.flight = actor.flight
      /\ f.pending = actor.pending /\ f.running = actor.running
  BY <1>1, <1>2 DEF Actor
<1>. HIDE DEF f
<1>5. ClosingWaits(f) /\ HoldsOne(f)
  BY <1>1, <1>2, <1>4 DEF Sound, ClosingWaits, HoldsOne
<1>6. Sound(a)
  <2>1. CASE actor.holding = i
    BY <1>4, <1>5, <2>1, CancelCommandAsksSound
  <2>2. CASE actor.holding # i
    BY <1>1, <1>2, <1>4, <1>5, <2>2 DEF Sound, AsksHeld
  <2>. QED
    BY <2>1, <2>2
<1>. HIDE DEF a
<1>7. p \in Actor /\ Agree(a, p)
  BY <1>6 DEF Sound, Agree, Actor, LineKinds
<1>. HIDE DEF p
<1>8. Sound(p)
  BY <1>6, <1>7, AgreeSound
<1>9. Sound(GateInput(p, i, "prose"))
  BY <1>8, GateInputSound DEF GateKinds
<1>10. o # "prompt" => Sound(Ack(a, i, o))
  BY <1>6, AckSound DEF Fate
<1>. QED
  BY <1>3, <1>9, <1>10, DrainQueueSound

\* A queue with entries taken out of it has nothing ready that was not.
LEMMA ShrinkCalm ==
  ASSUME NEW s, NEW t, Calm(s), Agree(s, t), t.running = s.running, t.line = s.line,
         \A k \in DOMAIN t.queue : \E j \in DOMAIN s.queue : t.queue[k] = s.queue[j]
  PROVE  Calm(t)
BY DEF Calm, Agree, Busy, GateBusy, Ready, IsHeld

LEMMA InterruptKeeps ==
  ASSUME IInv, Interrupt
  PROVE  Sound(actor') /\ Calm(actor')
<1>. DEFINE a == [actor EXCEPT !.stop = TRUE, !.pending = {}]
            b == [actor EXCEPT !.cut = @ \cup {actor.holding}]
            c == [actor EXCEPT !.flight.cut = actor.flight.intent # None]
<1>1. Sound(actor) /\ actor \in Actor /\ Calm(actor)
  BY DEF IInv, Sound, NothingStranded, Calm
<1>2. actor' = IF actor.running # 0 THEN a
               ELSE IF actor.holding # None THEN CancelCommandAsks(b) ELSE c
  BY DEF Interrupt
<1>3. actor' \in Actor
  BY TypeStep DEF IInv, Sound, TypeOK, Next
<1>4. CASE actor.running # 0
  <2>1. /\ a.pending = {} /\ a.waiting = actor.waiting /\ a.flight = actor.flight
        /\ a.closing = actor.closing /\ a.closed = actor.closed
        /\ a.running = actor.running /\ a.holding = actor.holding
        /\ a.inflight = actor.inflight
    BY <1>1 DEF Actor
  <2>2. actor' = a
    BY <1>2, <1>4
  <2>. HIDE DEF a
  <2>. QED
    BY <1>1, <1>3, <1>4, <2>1, <2>2
       DEF Sound, ClosingWaits, AsksHeld, HoldsOne, Calm, Busy
<1>5. CASE actor.running = 0 /\ actor.holding # None
  <2>1. b \in Actor /\ Agree(actor, b) /\ b.holding # None
    BY <1>1, <1>5 DEF Actor, Agree
  <2>2. actor' = CancelCommandAsks(b)
    BY <1>2, <1>5
  <2>. HIDE DEF b
  <2>3. Sound(b)
    BY <1>1, <2>1, AgreeSound
  <2>4. Sound(actor')
    BY <2>1, <2>2, <2>3, CancelCommandAsksSound DEF Sound
  <2>5. actor'.holding = b.holding
    BY <2>1, <2>2 DEF CancelCommandAsks, Actor
  <2>. QED
    BY <2>1, <2>4, <2>5 DEF Calm, Busy
<1>6. CASE actor.running = 0 /\ actor.holding = None
  <2>1. actor.flight \in Flight
    BY <1>1 DEF Actor
  <2>2. /\ c.flight.intent = actor.flight.intent /\ c.flight.kind = actor.flight.kind
        /\ c.waiting = actor.waiting /\ c.pending = actor.pending
        /\ c.closing = actor.closing /\ c.closed = actor.closed
        /\ c.running = actor.running /\ c.holding = actor.holding
        /\ c.inflight = actor.inflight /\ c.queue = actor.queue /\ c.line = actor.line
    BY <1>1, <2>1 DEF Actor, Flight
  <2>3. actor' = c
    BY <1>2, <1>6
  <2>. HIDE DEF c
  <2>4. Sound(actor')
    BY <1>1, <1>3, <2>2, <2>3 DEF Sound, ClosingWaits, AsksHeld, HoldsOne
  <2>5. Calm(actor')
    BY <1>1, <2>2, <2>3 DEF Calm, Busy, GateBusy, Ready, IsHeld
  <2>. QED
    BY <2>4, <2>5
<1>. QED
  BY <1>4, <1>5, <1>6

LEMMA WithdrawKeeps ==
  ASSUME IInv, NEW i \in Intents, Withdraw(i)
  PROVE  Sound(actor') /\ Calm(actor')
<1>. DEFINE q == actor.queue
<1>1. Sound(actor) /\ actor \in Actor /\ Calm(actor)
  BY DEF IInv, Sound, NothingStranded, Calm
<1>2. PICK k \in DOMAIN q :
        actor' = Ack([actor EXCEPT !.queue = SubSeq(@, 1, k - 1) \o SubSeq(@, k + 1, Len(@))],
                     i, "withdrawn")
  BY DEF Withdraw, Without
<1>3. q \in Seq(Intents)
  BY <1>1 DEF Actor
<1>. DEFINE l == SubSeq(q, 1, k - 1)
            r == SubSeq(q, k + 1, Len(q))
            a == [actor EXCEPT !.queue = l \o r]
<1>4. actor' = Ack(a, i, "withdrawn")
  BY <1>2
<1>. HIDE DEF q
<1>5. k \in 1..Len(q) /\ Len(q) \in Nat /\ DOMAIN q = 1..Len(q)
      /\ \A j \in 1..Len(q) : q[j] \in Intents
  BY <1>3, LenProperties, ElementOfSeq
<1>6. /\ l \in Seq(Intents) /\ Len(l) = k - 1
      /\ \A j \in 1..(k - 1) : l[j] = q[j]
  <2>1. 1 \in Int /\ k - 1 \in Int /\ \A j \in 1..(k - 1) : q[j] \in Intents
    BY <1>5
  <2>2. /\ l \in Seq(Intents)
        /\ Len(l) = IF 1 <= k - 1 THEN (k - 1) - 1 + 1 ELSE 0
        /\ \A j \in 1..((k - 1) - 1 + 1) : l[j] = q[1 + j - 1]
    BY <2>1, SubSeqProperties
  <2>. HIDE DEF l
  <2>. QED
    BY <1>5, <2>2
<1>7. k + 1 \in 1..(Len(q) + 1)
  BY <1>5
<1>8. /\ r \in Seq(Intents)
      /\ \A j \in DOMAIN r : \E m \in DOMAIN q : r[j] = q[m]
  BY <1>3, <1>7, RestOfSeq
<1>. HIDE DEF l, r
<1>9. /\ l \o r \in Seq(Intents)
      /\ Len(l \o r) = Len(l) + Len(r)
      /\ \A j \in 1..(Len(l) + Len(r)) :
           (l \o r)[j] = IF j <= Len(l) THEN l[j] ELSE r[j - Len(l)]
  BY <1>6, <1>8, ConcatProperties
<1>10. \A j \in DOMAIN (l \o r) : \E m \in DOMAIN q : (l \o r)[j] = q[m]
  <2>. SUFFICES ASSUME NEW j \in DOMAIN (l \o r)
                PROVE  \E m \in DOMAIN q : (l \o r)[j] = q[m]
    OBVIOUS
  <2>1. Len(l) \in Nat /\ Len(r) \in Nat /\ DOMAIN r = 1..Len(r)
        /\ DOMAIN (l \o r) = 1..Len(l \o r)
    BY <1>6, <1>8, <1>9, LenProperties
  <2>. DEFINE v == l \o r
  <2>. HIDE DEF v
  <2>2. j \in 1..(Len(l) + Len(r))
    BY <1>9, <2>1
  <2>3. CASE j <= Len(l)
    <3>1. v[j] = l[j] /\ l[j] = q[j] /\ j \in DOMAIN q
      BY <1>5, <1>6, <1>9, <2>1, <2>2, <2>3 DEF v
    <3>. QED
      BY <3>1 DEF v
  <2>4. CASE ~(j <= Len(l))
    <3>1. v[j] = r[j - Len(l)] /\ j - Len(l) \in DOMAIN r
      BY <1>9, <2>1, <2>2, <2>4 DEF v
    <3>. QED
      BY <1>8, <3>1 DEF v
  <2>. QED
    BY <2>3, <2>4
<1>11. /\ a \in Actor /\ Agree(actor, a) /\ a.running = actor.running
       /\ a.queue = l \o r /\ a.line = actor.line
  BY <1>1, <1>9 DEF Actor, Agree
<1>. HIDE DEF a
<1>12. Sound(a) /\ Calm(a)
  BY <1>1, <1>10, <1>11, AgreeSound, ShrinkCalm DEF q
<1>13. /\ Agree(a, actor') /\ actor'.running = a.running
       /\ actor'.queue = a.queue /\ actor'.line = a.line
  BY <1>4, <1>11, AckFrame DEF Fate
<1>. QED
  BY <1>4, <1>12, <1>13, AckSound, CalmFrame DEF Fate

LEMMA AbsorbKeeps ==
  ASSUME IInv, Absorb
  PROVE  Sound(actor') /\ Calm(actor')
<1>1. Sound(actor) /\ actor \in Actor /\ Calm(actor)
  BY DEF IInv, Sound, NothingStranded, Calm
<1>2. actor' \in Actor
  BY TypeStep DEF IInv, Sound, TypeOK, Next
<1>3. actor.queue \in Seq(Intents)
  BY <1>1 DEF Actor
<1>4. /\ Agree(actor, actor') /\ actor'.running = actor.running
      /\ actor'.line = actor.line
      /\ actor'.queue = Left(actor.queue, SteersOf(actor))
  BY <1>1 DEF Absorb, Agree, Actor
<1>5. \A k \in DOMAIN actor'.queue : \E j \in DOMAIN actor.queue : actor'.queue[k] = actor.queue[j]
  BY <1>3, <1>4, TakenLeftType
<1>. QED
  BY <1>1, <1>2, <1>4, <1>5, AgreeSound, ShrinkCalm

\* The handlers of interactions and of the turn's own reports leave the
\* queue and the gate alone.
LEMMA OthersKeep ==
  ASSUME IInv, Ask \/ (\E p \in actor.pending : Answer(p)) \/ ReachBarrier \/ Steer \/ TurnFinished
  PROVE  Sound(actor') /\ Calm(actor')
<1>1. Sound(actor) /\ actor \in Actor /\ Calm(actor)
  BY DEF IInv, Sound, NothingStranded, Calm
<1>2. actor' \in Actor
  BY TypeStep DEF IInv, Sound, TypeOK, Next
<1>3. /\ actor'.closing = actor.closing /\ actor'.closed = actor.closed
      /\ actor'.waiting = actor.waiting /\ actor'.flight = actor.flight
      /\ actor'.holding = actor.holding /\ actor'.inflight = actor.inflight
      /\ actor'.running = actor.running
      /\ actor'.queue = actor.queue /\ actor'.line = actor.line
  <2>1. CASE Ask
    BY <1>1, <2>1 DEF Ask, Actor
  <2>2. CASE \E p \in actor.pending : Answer(p)
    BY <1>1, <2>2 DEF Answer, Actor
  <2>3. CASE ReachBarrier
    BY <1>1, <2>3 DEF ReachBarrier, Actor
  <2>4. CASE Steer
    BY <1>1, <2>4 DEF Steer, AckAll, Actor
  <2>5. CASE TurnFinished
    BY <1>1, <2>5 DEF TurnFinished, AckAll, Actor
  <2>. QED
    BY <2>1, <2>2, <2>3, <2>4, <2>5
<1>4. \A p \in actor'.pending : p \in actor.pending \/ (p.byCommand => actor.holding # None)
  <2>1. CASE Ask
    <3>. DEFINE new == [id |-> actor.asks + 1, turn |-> actor.running,
                        byCommand |-> actor.holding # None]
    <3>1. actor'.pending = actor.pending \cup {new}
      BY <1>1, <2>1 DEF Ask, Actor
    <3>2. new.byCommand => actor.holding # None
      OBVIOUS
    <3>. HIDE DEF new
    <3>. QED
      BY <3>1, <3>2
  <2>2. CASE \E p \in actor.pending : Answer(p)
    BY <1>1, <2>2 DEF Answer, Actor
  <2>3. CASE ReachBarrier
    BY <1>1, <2>3 DEF ReachBarrier, Actor
  <2>4. CASE Steer
    BY <1>1, <2>4 DEF Steer, AckAll, Actor
  <2>5. CASE TurnFinished
    BY <1>1, <2>5 DEF TurnFinished, AckAll, Actor
  <2>. QED
    BY <2>1, <2>2, <2>3, <2>4, <2>5
<1>5. Sound(actor')
  BY <1>1, <1>2, <1>3, <1>4 DEF Sound, ClosingWaits, AsksHeld, HoldsOne
<1>6. Calm(actor')
  BY <1>1, <1>3 DEF Calm, Busy, GateBusy, Ready, IsHeld
<1>. QED
  BY <1>5, <1>6

LEMMA CompletionReadyKeeps ==
  ASSUME IInv, CompletionReady
  PROVE  Sound(actor') /\ Calm(actor')
<1>. DEFINE a == [actor EXCEPT !.running = 0, !.ended = FALSE, !.stop = FALSE]
<1>1. Sound(actor) /\ actor \in Actor
  BY DEF IInv, Sound
<1>2. /\ a \in Actor
      /\ a.closing = actor.closing /\ a.closed = actor.closed
      /\ a.waiting = actor.waiting /\ a.flight = actor.flight
      /\ a.holding = actor.holding /\ a.inflight = actor.inflight
      /\ a.pending = actor.pending
  BY <1>1 DEF Actor
<1>3. actor' = IF actor.closing THEN FinishClose(a) ELSE DrainQueue(a)
  BY DEF CompletionReady, TurnOver
<1>. HIDE DEF a
<1>4. AsksHeld(a) /\ HoldsOne(a)
  BY <1>1, <1>2 DEF Sound, AsksHeld, HoldsOne
<1>5. CASE actor.closing
  BY <1>2, <1>3, <1>4, <1>5, FinishCloseSound DEF Calm
<1>6. CASE ~actor.closing
  <2>1. Sound(a)
    BY <1>2, <1>4, <1>6 DEF Sound, ClosingWaits
  <2>. QED
    BY <1>3, <1>6, <2>1, DrainQueueSound
<1>. QED
  BY <1>5, <1>6

LEMMA StorageFailedKeeps ==
  ASSUME IInv, StorageFailed
  PROVE  Sound(actor') /\ Calm(actor')
<1>1. PICK x \in Actor : actor' = Halt(x)
  BY FailedType DEF IInv, Sound, TypeOK
<1>2. Halt(x) \in Actor
  BY HaltType
<1>3. /\ Halt(x).closing = FALSE /\ Halt(x).closed = TRUE
      /\ Halt(x).waiting = <<>> /\ Halt(x).flight = NoFlight
      /\ Halt(x).holding = None /\ Halt(x).pending = {}
  BY DEF Halt, AckAll, Actor
<1>. QED
  BY <1>1, <1>2, <1>3 DEF Sound, ClosingWaits, AsksHeld, HoldsOne, Calm, NoFlight

LEMMA CompactKeeps ==
  ASSUME IInv, Compact
  PROVE  Sound(actor') /\ Calm(actor')
<1>. DEFINE a == [actor EXCEPT !.compacts = @ + 1]
<1>1. Sound(actor) /\ actor \in Actor
  BY DEF IInv, Sound
<1>2. a \in Actor /\ Agree(actor, a)
  <2>1. actor.compacts + 1 \in Nat
    BY <1>1 DEF Actor
  <2>. QED
    BY <1>1, <2>1 DEF Actor, Agree
<1>3. actor' = StartTurn(a, <<>>)
  BY DEF Compact
<1>. HIDE DEF a
<1>. QED
  BY <1>1, <1>2, <1>3, AgreeSound, EmptySeq, StartTurnSound DEF Calm

LEMMA InvInit == Init => IInv
<1>. SUFFICES ASSUME Init PROVE IInv
  OBVIOUS
<1>1. actor \in Actor
  BY InitType DEF TypeOK
<1>2. /\ actor.closing = FALSE /\ actor.waiting = <<>> /\ actor.flight = NoFlight
      /\ actor.pending = {} /\ actor.holding = None /\ actor.queue = <<>>
  BY DEF Init
<1>. QED
  BY <1>1, <1>2 DEF IInv, Sound, ClosingWaits, AsksHeld, HoldsOne, NoFlight,
                    NothingStranded, Ready

LEMMA InvStep == IInv /\ [Next]_vars => IInv'
<1>. SUFFICES ASSUME IInv, [Next]_vars
              PROVE  Sound(actor') /\ Calm(actor')
  BY DEF IInv, NothingStranded, Calm, Sound, Busy, GateBusy, Ready, IsHeld,
         ClosingWaits, AsksHeld, HoldsOne
<1>1. CASE Close \/ ReserveDelete
  BY <1>1, ClosedSound DEF IInv, Close, ReserveDelete
<1>2. CASE Stopped \/ UNCHANGED vars
  <2>1. actor' = actor
    BY <1>2 DEF Stopped, vars
  <2>. QED
    BY <2>1 DEF IInv, NothingStranded, Calm
<1>. QED
  BY <1>1, <1>2, SubmitKeeps, DeliverKeeps, GatedKeeps, CommandFinishedKeeps,
     InterruptKeeps, WithdrawKeeps, CompactKeeps, OthersKeep, AbsorbKeeps,
     CompletionReadyKeeps, StorageFailedKeeps DEF Next

LEMMA Invariance == Spec => []IInv
BY InvInit, InvStep, PTL DEF Spec

\* Nothing that is ready to run is left in the queue of an idle session,
\* whatever the order lines, gate verdicts, commands, turns, interrupts,
\* withdrawals and closes arrive in, and however many there are.
THEOREM QueueMoves == Spec => []NothingStranded
<1>1. IInv => NothingStranded
  BY DEF IInv
<1>. QED
  BY <1>1, Invariance, PTL

\* A question a holding command asked is closed by the handler that ends
\* its hold on the queue.
THEOREM CommandAsksEnd == Spec => []CommandAsksEndWithIt
<1>1. IInv => CommandAsksEndWithIt
  BY DEF IInv, Sound, AsksHeld, CommandAsksEndWithIt
<1>. QED
  BY <1>1, Invariance, PTL

\* A command that waited in the queue never starts beside one that holds it.
THEOREM OneHolder == Spec => []HeldByOne
<1>1. IInv => HeldByOne
  BY DEF IInv, Sound, HoldsOne, HeldByOne
<1>. QED
  BY <1>1, Invariance, PTL

-----------------------------------------------------------------------------
(* Counting.  Every number in Homes is the number of positions of a        *)
(* sequence whose entry is in some set.                                    *)

Tally(q, S) == Cardinality({k \in DOMAIN q : q[k] \in S})

LEMMA TallyFinite ==
  ASSUME NEW T, NEW q \in Seq(T), NEW S
  PROVE  /\ IsFiniteSet({k \in DOMAIN q : q[k] \in S})
         /\ Tally(q, S) \in Nat
         /\ Tally(q, S) = 0 <=> \A k \in DOMAIN q : q[k] \notin S
<1>. DEFINE A == {k \in DOMAIN q : q[k] \in S}
<1>1. DOMAIN q = 1..Len(q) /\ Len(q) \in Nat
  BY LenProperties
<1>2. A \in SUBSET (1..Len(q)) /\ IsFiniteSet(1..Len(q))
  BY <1>1, FS_Interval
<1>. HIDE DEF A
<1>3. IsFiniteSet(A)
  BY <1>2, FS_Subset
<1>4. Cardinality(A) \in Nat /\ (Cardinality(A) = 0 <=> A = {})
  BY <1>3, FS_CardinalityType, FS_EmptySet
<1>. QED
  BY <1>3, <1>4 DEF A, Tally

\* What is counted in a concatenation is counted in its parts.
LEMMA TallyConcat ==
  ASSUME NEW T, NEW q \in Seq(T), NEW r \in Seq(T), NEW S
  PROVE  Tally(q \o r, S) = Tally(q, S) + Tally(r, S)
<1>. DEFINE m == Len(q)
            A == {k \in DOMAIN q : q[k] \in S}
            B == {k \in DOMAIN r : r[k] \in S}
            C == {k + m : k \in B}
            f == [k \in B |-> k + m]
<1>1. /\ m \in Nat /\ Len(r) \in Nat /\ DOMAIN q = 1..m /\ DOMAIN r = 1..Len(r)
  BY LenProperties
<1>2. /\ q \o r \in Seq(T) /\ Len(q \o r) = m + Len(r)
      /\ \A k \in 1..(m + Len(r)) :
           (q \o r)[k] = IF k <= m THEN q[k] ELSE r[k - m]
  BY ConcatProperties
<1>3. DOMAIN (q \o r) = 1..(m + Len(r))
  BY <1>2, LenProperties
<1>. HIDE DEF m
<1>4. {k \in DOMAIN (q \o r) : (q \o r)[k] \in S} = A \cup C
  <2>1. ASSUME NEW k \in DOMAIN (q \o r), (q \o r)[k] \in S
        PROVE  k \in A \cup C
    <3>1. CASE k <= m
      BY <1>1, <1>2, <1>3, <2>1, <3>1
    <3>2. CASE ~(k <= m)
      <4>1. k - m \in DOMAIN r /\ r[k - m] \in S /\ (k - m) + m = k
        BY <1>1, <1>2, <1>3, <2>1, <3>2
      <4>. QED
        BY <4>1
    <3>. QED
      BY <3>1, <3>2
  <2>2. ASSUME NEW k \in A
        PROVE  k \in DOMAIN (q \o r) /\ (q \o r)[k] \in S
    BY <1>1, <1>2, <1>3
  <2>3. ASSUME NEW k \in B
        PROVE  k + m \in DOMAIN (q \o r) /\ (q \o r)[k + m] \in S
    <3>1. k + m \in 1..(m + Len(r)) /\ ~(k + m <= m) /\ (k + m) - m = k
      BY <1>1
    <3>. QED
      BY <1>2, <1>3, <3>1
  <2>. QED
    BY <2>1, <2>2, <2>3
<1>5. A \cap C = {}
  BY <1>1
<1>6. IsFiniteSet(A) /\ IsFiniteSet(B)
  BY TallyFinite
<1>7. ExistsBijection(B, C)
  <2>1. f \in [B -> C] /\ \A x, y \in B : f[x] = f[y] => x = y
    BY <1>1
  <2>2. \A y \in C : \E x \in B : f[x] = y
    OBVIOUS
  <2>3. f \in Bijection(B, C)
    BY <2>1, <2>2 DEF Bijection, Injection, IsInjective, Surjection
  <2>. QED
    BY <2>3 DEF ExistsBijection
<1>7a. Tally(q, S) = Cardinality(A) /\ Tally(r, S) = Cardinality(B)
  BY DEF Tally
<1>7b. Tally(q \o r, S) = Cardinality(A \cup C)
  BY <1>4 DEF Tally
<1>. HIDE DEF A, B, C
<1>8. IsFiniteSet(C) /\ Cardinality(C) = Cardinality(B)
  BY <1>6, <1>7, FS_Bijection
<1>9. Cardinality(A \cup C) = Cardinality(A) + Cardinality(C) - 0
  BY <1>5, <1>6, <1>8, FS_Union, FS_EmptySet
<1>. QED
  BY <1>6, <1>7a, <1>7b, <1>8, <1>9, FS_CardinalityType

LEMMA TallySmall ==
  ASSUME NEW S
  PROVE  /\ Tally(<<>>, S) = 0
         /\ \A x : Tally(<<x>>, S) = Once(x \in S)
<1>1. Tally(<<>>, S) = 0
  <2>1. {k \in DOMAIN <<>> : <<>>[k] \in S} = {}
    OBVIOUS
  <2>. QED
    BY <2>1, FS_EmptySet DEF Tally
<1>2. ASSUME NEW x
      PROVE  Tally(<<x>>, S) = Once(x \in S)
  <2>1. CASE x \in S
    <3>1. {k \in DOMAIN <<x>> : <<x>>[k] \in S} = {1}
      BY <2>1
    <3>. QED
      BY <2>1, <3>1, FS_Singleton DEF Tally, Once
  <2>2. CASE x \notin S
    <3>1. {k \in DOMAIN <<x>> : <<x>>[k] \in S} = {}
      BY <2>2
    <3>. QED
      BY <2>2, <3>1, FS_EmptySet DEF Tally, Once
  <2>. QED
    BY <2>1, <2>2
<1>. QED
  BY <1>1, <1>2

LEMMA TallyAppend ==
  ASSUME NEW T, NEW q \in Seq(T), NEW x \in T, NEW S
  PROVE  /\ Tally(Append(q, x), S) = Tally(q, S) + Once(x \in S)
         /\ Tally(<<x>> \o q, S) = Tally(q, S) + Once(x \in S)
<1>1. <<x>> \in Seq(T) /\ Append(q, x) = q \o <<x>>
  BY AppendIsConcat
<1>2. Tally(q, S) \in Nat /\ Tally(<<x>>, S) = Once(x \in S) /\ Once(x \in S) \in Nat
  BY TallyFinite, TallySmall DEF Once
<1>. DEFINE y == <<x>>
<1>3. y \in Seq(T)
  BY <1>1
<1>. HIDE DEF y
<1>4. Tally(q \o y, S) = Tally(q, S) + Tally(y, S) /\ Tally(y \o q, S) = Tally(y, S) + Tally(q, S)
  BY <1>3, TallyConcat
<1>5. /\ Tally(q \o <<x>>, S) = Tally(q, S) + Tally(<<x>>, S)
      /\ Tally(<<x>> \o q, S) = Tally(<<x>>, S) + Tally(q, S)
  BY <1>4 DEF y
<1>. QED
  BY <1>1, <1>2, <1>5

-----------------------------------------------------------------------------
(* A line in one place.  While a handler moves a line from one place to    *)
(* another it is in neither: it is in the handler's hand, h.               *)

Of(j) == {w \in Waiting : w.intent = j}

Placed(s, h) ==
  \A j \in Intents : Homes(s, j) + Tally(h, {j}) = Once(s.line[j] # "unsent")

LEMMA HomesIs ==
  ASSUME NEW s \in Actor, NEW j \in Intents
  PROVE  /\ Homes(s, j) = Tally(s.waiting, Of(j)) + Once(s.flight.intent = j)
                          + Tally(s.queue, {j}) + Once(j \in s.inflight)
                          + Tally(s.steers, {j}) + Tally(s.fate[j], Final)
         /\ Tally(s.waiting, Of(j)) \in Nat /\ Tally(s.queue, {j}) \in Nat
         /\ Tally(s.steers, {j}) \in Nat /\ Tally(s.fate[j], Final) \in Nat
<1>1. /\ s.waiting \in Seq(Waiting) /\ s.queue \in Seq(Intents)
      /\ s.steers \in Seq(Intents) /\ s.fate[j] \in Seq(Fate)
  BY DEF Actor
<1>2. \A k \in DOMAIN s.waiting : s.waiting[k] \in Waiting
  BY <1>1, LenProperties, ElementOfSeq
<1>3. {k \in DOMAIN s.waiting : s.waiting[k].intent = j}
        = {k \in DOMAIN s.waiting : s.waiting[k] \in Of(j)}
  BY <1>2 DEF Of
<1>4. ASSUME NEW q
      PROVE  Occurs(q, j) = Tally(q, {j})
  <2>1. {k \in DOMAIN q : q[k] = j} = {k \in DOMAIN q : q[k] \in {j}}
    OBVIOUS
  <2>. QED
    BY <2>1 DEF Occurs, Tally
<1>5. Tally(s.fate[j], Final) = Cardinality({k \in DOMAIN s.fate[j] : s.fate[j][k] \in Final})
  BY DEF Tally
<1>6. Tally(s.waiting, Of(j)) = Cardinality({k \in DOMAIN s.waiting : s.waiting[k].intent = j})
  BY <1>3 DEF Tally
<1>7a. Occurs(s.queue, j) = Tally(s.queue, {j}) /\ Occurs(s.steers, j) = Tally(s.steers, {j})
  BY <1>4
<1>7b. Homes(s, j) =
         Cardinality({k \in DOMAIN s.waiting : s.waiting[k].intent = j})
         + Once(s.flight.intent = j) + Occurs(s.queue, j) + Once(j \in s.inflight)
         + Occurs(s.steers, j)
         + Cardinality({k \in DOMAIN s.fate[j] : s.fate[j][k] \in Final})
  BY DEF Homes
<1>7. Homes(s, j) = Tally(s.waiting, Of(j)) + Once(s.flight.intent = j)
                    + Tally(s.queue, {j}) + Once(j \in s.inflight)
                    + Tally(s.steers, {j}) + Tally(s.fate[j], Final)
  BY <1>5, <1>6, <1>7a, <1>7b
<1>. QED
  BY <1>1, <1>7, TallyFinite

LEMMA OnceIs == \A b \in BOOLEAN : Once(b) \in {0, 1} /\ (Once(b) = 1 <=> b)
BY DEF Once

\* t differs from s in nothing but the fates of lines, and in fields no
\* invariant below speaks of.
Same(s, t) ==
  /\ t.model = s.model /\ t.waiting = s.waiting /\ t.flight = s.flight
  /\ t.queue = s.queue /\ t.inflight = s.inflight /\ t.holding = s.holding
  /\ t.running = s.running /\ t.ended = s.ended /\ t.barrier = s.barrier
  /\ t.steers = s.steers /\ t.closing = s.closing /\ t.closed = s.closed
  /\ t.line = s.line /\ t.arrived = s.arrived /\ t.said = s.said

LEMMA AckAllSame ==
  ASSUME NEW s \in Actor, NEW is, NEW o \in Fate
  PROVE  /\ Same(s, AckAll(s, is, o))
         /\ \A j \in Intents : AckAll(s, is, o).fate[j] =
              IF j \in is THEN Append(s.fate[j], o) ELSE s.fate[j]
BY DEF AckAll, Same, Actor

\* What acknowledging lines adds to their homes.
LEMMA AckAllHomes ==
  ASSUME NEW s \in Actor, NEW is, NEW o \in Fate, NEW j \in Intents
  PROVE  Homes(AckAll(s, is, o), j) = Homes(s, j) + Once(j \in is /\ o \in Final)
<1>. DEFINE t == AckAll(s, is, o)
<1>1. t \in Actor /\ Same(s, t)
      /\ t.fate[j] = IF j \in is THEN Append(s.fate[j], o) ELSE s.fate[j]
  BY AckAllType, AckAllSame
<1>. HIDE DEF t
<1>2. s.fate[j] \in Seq(Fate)
  BY DEF Actor
<1>3. Tally(Append(s.fate[j], o), Final) = Tally(s.fate[j], Final) + Once(o \in Final)
  BY <1>2, TallyAppend
<1>4. Tally(t.fate[j], Final) = Tally(s.fate[j], Final) + Once(j \in is /\ o \in Final)
  <2>1. CASE j \in is
    BY <1>1, <1>3, <2>1 DEF Once
  <2>2. CASE j \notin is
    <3>1. Tally(s.fate[j], Final) \in Nat
      BY HomesIs
    <3>. QED
      BY <1>1, <2>2, <3>1 DEF Once
  <2>. QED
    BY <2>1, <2>2
<1>5. Once(j \in is /\ o \in Final) \in {0, 1}
  BY DEF Once
<1>6. t.waiting = s.waiting /\ t.flight = s.flight /\ t.queue = s.queue
      /\ t.inflight = s.inflight /\ t.steers = s.steers
  BY <1>1 DEF Same
<1>7. Once(s.flight.intent = j) \in {0, 1} /\ Once(j \in s.inflight) \in {0, 1}
  BY DEF Once
<1>8. Homes(s, j) = Tally(s.waiting, Of(j)) + Once(s.flight.intent = j)
                    + Tally(s.queue, {j}) + Once(j \in s.inflight)
                    + Tally(s.steers, {j}) + Tally(s.fate[j], Final)
  BY HomesIs
<1>9. Homes(t, j) = Tally(s.waiting, Of(j)) + Once(s.flight.intent = j)
                    + Tally(s.queue, {j}) + Once(j \in s.inflight)
                    + Tally(s.steers, {j}) + Tally(t.fate[j], Final)
  BY <1>1, <1>6, HomesIs
<1>. QED
  BY <1>4, <1>5, <1>7, <1>8, <1>9, HomesIs DEF t

LEMMA HomesNat ==
  ASSUME NEW s \in Actor, NEW j \in Intents
  PROVE  Homes(s, j) \in Nat
<1>1. Once(s.flight.intent = j) \in {0, 1} /\ Once(j \in s.inflight) \in {0, 1}
  BY DEF Once
<1>2. Once(s.flight.intent = j) \in Nat /\ Once(j \in s.inflight) \in Nat
  BY <1>1
<1>3. /\ Tally(s.waiting, Of(j)) \in Nat /\ Tally(s.queue, {j}) \in Nat
      /\ Tally(s.steers, {j}) \in Nat /\ Tally(s.fate[j], Final) \in Nat
  BY HomesIs
<1>4. Homes(s, j) = Tally(s.waiting, Of(j)) + Once(s.flight.intent = j)
                    + Tally(s.queue, {j}) + Once(j \in s.inflight)
                    + Tally(s.steers, {j}) + Tally(s.fate[j], Final)
  BY HomesIs
<1>. QED
  BY <1>2, <1>3, <1>4

\* The lines in hand are given a final outcome, and are settled.
LEMMA SettlePlaced ==
  ASSUME NEW s \in Actor, NEW h \in Seq(Intents), Placed(s, h), NEW o \in Final
  PROVE  Placed(AckAll(s, SeqRange(h), o), <<>>)
<1>. DEFINE t == AckAll(s, SeqRange(h), o)
<1>0. o \in Fate
  BY DEF Final
<1>1. t.line = s.line
  BY <1>0, AckAllSame DEF Same
<1>. SUFFICES ASSUME NEW j \in Intents
              PROVE  Homes(t, j) + Tally(<<>>, {j}) = Once(t.line[j] # "unsent")
  BY DEF Placed
<1>2. Homes(t, j) = Homes(s, j) + Once(j \in SeqRange(h) /\ o \in Final)
  BY <1>0, AckAllHomes
<1>3. Homes(s, j) \in Nat /\ Tally(h, {j}) \in Nat
      /\ (Tally(h, {j}) = 0 <=> \A k \in DOMAIN h : h[k] \notin {j})
  BY HomesNat, TallyFinite
<1>4. Tally(h, {j}) = 0 <=> j \notin SeqRange(h)
  BY <1>3 DEF SeqRange
<1>5. Homes(s, j) + Tally(h, {j}) = Once(s.line[j] # "unsent") /\ Once(s.line[j] # "unsent") \in {0, 1}
  BY DEF Placed, Once
<1>6. Once(j \in SeqRange(h) /\ o \in Final) = Tally(h, {j})
  BY <1>3, <1>4, <1>5 DEF Once
<1>7. Tally(<<>>, {j}) = 0
  BY TallySmall
<1>. QED
  BY <1>1, <1>2, <1>3, <1>5, <1>6, <1>7

LEMMA AckPlaced ==
  ASSUME NEW s \in Actor, NEW i \in Intents, Placed(s, <<i>>), NEW o \in Final
  PROVE  Placed(Ack(s, i, o), <<>>)
<1>1. SeqRange(<<i>>) = {i} /\ <<i>> \in Seq(Intents) /\ o \in Fate
  BY DEF SeqRange, Final
<1>. QED
  BY <1>1, SettlePlaced, AckSame

-----------------------------------------------------------------------------
(* What no method touches: what was sent, and the barrier of a turn that   *)
(* runs.                                                                   *)

Goes(s, t) ==
  /\ t.model = s.model /\ t.line = s.line /\ t.arrived = s.arrived
  /\ t.barrier = s.barrier /\ t.steers = s.steers
  /\ s.closed => t.closed
  /\ \/ t.running = s.running /\ t.ended = s.ended
     \/ t.running # 0 /\ ~t.ended

LEMMA GoesTwice ==
  ASSUME NEW s, NEW t, NEW u, Goes(s, t), Goes(t, u)
  PROVE  Goes(s, u)
BY DEF Goes

LEMMA SameGoes ==
  ASSUME NEW s, NEW t, t.closed \in BOOLEAN, Same(s, t)
  PROVE  Goes(s, t)
BY DEF Goes, Same

LEMMA AckAllGoes ==
  ASSUME NEW s \in Actor, NEW is, NEW o \in Fate
  PROVE  Goes(s, AckAll(s, is, o))
BY DEF AckAll, Goes, Actor

LEMMA AckGoes ==
  ASSUME NEW s \in Actor, NEW i \in Intents, NEW o \in Fate
  PROVE  Goes(s, Ack(s, i, o))
BY DEF Ack, Goes, Actor

LEMMA QueueGoes ==
  ASSUME NEW s \in Actor, NEW q
  PROVE  Goes(s, [s EXCEPT !.queue = q])
BY DEF Goes, Actor

LEMMA EnqueueGoes ==
  ASSUME NEW s \in Actor, NEW i \in Intents
  PROVE  Goes(s, Enqueue(s, i))
BY DEF Enqueue, Ack, Goes, Actor

LEMMA StartTurnGoes ==
  ASSUME NEW s \in Actor, NEW inputs
  PROVE  Goes(s, StartTurn(s, inputs))
<1>1. s.turns + 1 # 0
  BY DEF Actor
<1>. QED
  BY <1>1 DEF StartTurn, AckAll, Goes, Actor

LEMMA HeldThenGoes ==
  ASSUME NEW s \in Actor, NEW i \in Intents
  PROVE  Goes(s, HeldThen(s, i))
BY TakeQueueType, QueueGoes, StartTurnGoes, GoesTwice DEF HeldThen

LEMMA LogInputGoes ==
  ASSUME NEW s \in Actor, NEW i \in Intents
  PROVE  Goes(s, LogInput(s, i))
BY DEF LogInput, Ack, Goes, Actor

LEMMA StartGateGoes ==
  ASSUME NEW s \in Actor
  PROVE  Goes(s, StartGate(s))
BY DEF StartGate, Goes, Actor

LEMMA GateInputGoes ==
  ASSUME NEW s \in Actor, NEW i \in Intents, NEW kind
  PROVE  Goes(s, GateInput(s, i, kind))
BY DEF GateInput, StartGate, Goes, Actor

LEMMA DrainQueueGoes ==
  ASSUME NEW s \in Actor
  PROVE  Goes(s, DrainQueue(s))
<1>1. CASE Busy(s) \/ GateBusy(s) \/ s.queue = <<>>
  <2>1. DrainQueue(s) = s
    BY <1>1 DEF DrainQueue
  <2>. QED
    BY <2>1 DEF Goes, Actor
<1>2. CASE ~(Busy(s) \/ GateBusy(s) \/ s.queue = <<>>)
  <2>1. s.queue \in Seq(Intents) /\ s.queue # <<>>
    BY <1>2 DEF Actor
  <2>2. Tail(s.queue) \in Seq(Intents) /\ Head(s.queue) \in Intents
    BY <2>1, HeadTailProperties
  <2>3. [s EXCEPT !.queue = Tail(@)] \in Actor
    BY <2>2 DEF Actor
  <2>4. Goes(s, GateInput([s EXCEPT !.queue = Tail(@)], Head(s.queue), "queued"))
    BY <2>2, <2>3, QueueGoes, GateInputGoes, GoesTwice
  <2>5. Goes(s, StartTurn([s EXCEPT !.queue = Left(@, ProseOf(s))], Taken(s.queue, ProseOf(s))))
    BY TakeQueueType, QueueGoes, StartTurnGoes, GoesTwice
  <2>. QED
    BY <1>2, <2>4, <2>5 DEF DrainQueue
<1>. QED
  BY <1>1, <1>2

LEMMA SubmitProseGoes ==
  ASSUME NEW s \in Actor, NEW i \in Intents
  PROVE  Goes(s, SubmitProse(s, i))
BY LogInputGoes, EnqueueGoes, HeldThenGoes DEF SubmitProse

LEMMA DeliverReadyGoes ==
  ASSUME NEW s \in Actor, NEW i \in Intents
  PROVE  Goes(s, DeliverReady(s, i))
BY AckGoes, LogInputGoes, EnqueueGoes, HeldThenGoes DEF DeliverReady, Fate

LEMMA SubmitCommandGoes ==
  ASSUME NEW s \in Actor, NEW i \in Intents, NEW queued, NEW instant
  PROVE  Goes(s, SubmitCommand(s, i, queued, instant))
<1>1. Goes(s, RunCommand(s, i, instant))
  BY DEF RunCommand, Goes, Actor
<1>. QED
  BY <1>1, EnqueueGoes DEF SubmitCommand

LEMMA ApplyGateGoes ==
  ASSUME NEW s \in Actor, NEW i \in Intents, NEW kind, NEW verdict
  PROVE  Goes(s, ApplyGate(s, i, kind, verdict))
BY AckGoes, SubmitProseGoes, DeliverReadyGoes, SubmitCommandGoes DEF ApplyGate, Fate

LEMMA FinishCloseGoes ==
  ASSUME NEW s \in Actor
  PROVE  Goes(s, FinishClose(s))
BY DEF FinishClose, AckAll, Goes, Actor

LEMMA ClosedGoes ==
  ASSUME NEW s \in Actor
  PROVE  Goes(s, Closed(s))
<1>. DEFINE c == [CloseGate(CancelTokens(s)) EXCEPT !.pending = {}]
<1>1. /\ c.model = s.model /\ c.line = s.line /\ c.arrived = s.arrived
      /\ c.barrier = s.barrier /\ c.steers = s.steers /\ c.closed = s.closed
      /\ c.running = s.running /\ c.ended = s.ended
  BY DEF CloseGate, CancelTokens, AckAll, Actor
<1>2. Goes(s, [c EXCEPT !.closing = TRUE])
  BY <1>1 DEF Goes, Actor, CloseGate, CancelTokens, AckAll
<1>3. Goes(s, FinishClose(c))
  BY <1>1 DEF Goes, Actor, FinishClose, CloseGate, CancelTokens, AckAll
<1>. QED
  BY <1>2, <1>3 DEF Closed

-----------------------------------------------------------------------------
(* Each method takes the line in hand to one place.                        *)

\* Where a line is, as a sum over its places.
Sum(s, h, j) ==
  Tally(s.waiting, Of(j)) + Once(s.flight.intent = j) + Tally(s.queue, {j})
  + Once(j \in s.inflight) + Tally(s.steers, {j}) + Tally(s.fate[j], Final)
  + Tally(h, {j})

LEMMA PlacedIs ==
  ASSUME NEW s \in Actor, NEW h
  PROVE  Placed(s, h) <=> \A j \in Intents : Sum(s, h, j) = Once(s.line[j] # "unsent")
<1>1. \A j \in Intents : Homes(s, j) + Tally(h, {j}) = Sum(s, h, j)
  BY HomesIs DEF Sum
<1>. QED
  BY <1>1 DEF Placed

LEMMA MovePlaced ==
  ASSUME NEW s \in Actor, NEW h, NEW t \in Actor, NEW g, Placed(s, h),
         t.line = s.line,
         \A j \in Intents : Sum(t, g, j) = Sum(s, h, j)
  PROVE  Placed(t, g)
BY PlacedIs

\* The fields that say where a line is.
Still(s, t) ==
  /\ t.waiting = s.waiting /\ t.flight.intent = s.flight.intent /\ t.queue = s.queue
  /\ t.inflight = s.inflight /\ t.steers = s.steers /\ t.fate = s.fate /\ t.line = s.line

LEMMA StillPlaced ==
  ASSUME NEW s \in Actor, NEW h, NEW t \in Actor, Placed(s, h), Still(s, t)
  PROVE  Placed(t, h)
<1>1. \A j \in Intents : Sum(t, h, j) = Sum(s, h, j)
  BY DEF Sum, Still
<1>. QED
  BY <1>1, MovePlaced DEF Still

\* The numbers of which a sum consists.
Numbers(s, h, j) ==
  /\ Tally(s.waiting, Of(j)) \in Nat /\ Once(s.flight.intent = j) \in Nat
  /\ Tally(s.queue, {j}) \in Nat /\ Once(j \in s.inflight) \in Nat
  /\ Tally(s.steers, {j}) \in Nat /\ Tally(s.fate[j], Final) \in Nat
  /\ Tally(h, {j}) \in Nat

LEMMA SumNat ==
  ASSUME NEW s \in Actor, NEW h \in Seq(Intents), NEW j \in Intents
  PROVE  Numbers(s, h, j)
BY HomesIs, TallyFinite DEF Once, Numbers

LEMMA AckQueuedPlaced ==
  ASSUME NEW s \in Actor, NEW i \in Intents, NEW h \in Seq(Intents), Placed(s, h)
  PROVE  Placed(Ack(s, i, "queued"), h)
<1>1. "queued" \in Fate /\ "queued" \notin Final
  BY DEF Fate, Final
<1>2. Ack(s, i, "queued") = AckAll(s, {i}, "queued")
  BY <1>1, AckSame
<1>3. \A j \in Intents : Homes(Ack(s, i, "queued"), j) = Homes(s, j) + 0
  BY <1>1, <1>2, AckAllHomes DEF Once
<1>4. Ack(s, i, "queued").line = s.line
  BY <1>1, <1>2, AckAllSame DEF Same
<1>. QED
  BY <1>3, <1>4, HomesNat DEF Placed

LEMMA EnqueuePlaced ==
  ASSUME NEW s \in Actor, NEW i \in Intents, Placed(s, <<i>>)
  PROVE  Placed(Enqueue(s, i), <<>>)
<1>. DEFINE q == Append(s.queue, i)
            a == [s EXCEPT !.queue = q]
<1>1. s.queue \in Seq(Intents) /\ <<>> \in Seq(Intents) /\ <<i>> \in Seq(Intents)
  BY DEF Actor
<1>2. q \in Seq(Intents)
  BY <1>1
<1>3. \A j \in Intents : Tally(q, {j}) = Tally(s.queue, {j}) + Once(i \in {j})
  BY <1>1, TallyAppend
<1>4. Enqueue(s, i) = Ack(a, i, "queued")
  BY DEF Enqueue
<1>. HIDE DEF q
<1>5. /\ a \in Actor /\ a.queue = q /\ a.waiting = s.waiting /\ a.flight = s.flight
      /\ a.inflight = s.inflight /\ a.steers = s.steers /\ a.fate = s.fate /\ a.line = s.line
  BY <1>2 DEF Actor
<1>. HIDE DEF a
<1>6. \A j \in Intents : Sum(a, <<>>, j) = Sum(s, <<i>>, j)
  <2>. SUFFICES ASSUME NEW j \in Intents PROVE Sum(a, <<>>, j) = Sum(s, <<i>>, j)
    OBVIOUS
  <2>1. Tally(<<>>, {j}) = 0 /\ Tally(<<i>>, {j}) = Once(i \in {j})
    BY TallySmall
  <2>2. Numbers(s, <<i>>, j) /\ Once(i \in {j}) \in Nat
    BY <1>1, SumNat DEF Once
  <2>3. Tally(a.queue, {j}) = Tally(s.queue, {j}) + Once(i \in {j})
    BY <1>3, <1>5
  <2>4. Sum(a, <<>>, j) = Tally(s.waiting, Of(j)) + Once(s.flight.intent = j)
                          + (Tally(s.queue, {j}) + Once(i \in {j})) + Once(j \in s.inflight)
                          + Tally(s.steers, {j}) + Tally(s.fate[j], Final) + 0
    BY <1>5, <2>1, <2>3 DEF Sum
  <2>5. Sum(s, <<i>>, j) = Tally(s.waiting, Of(j)) + Once(s.flight.intent = j)
                           + Tally(s.queue, {j}) + Once(j \in s.inflight)
                           + Tally(s.steers, {j}) + Tally(s.fate[j], Final) + Once(i \in {j})
    BY <2>1 DEF Sum
  <2>. DEFINE a1 == Tally(s.waiting, Of(j))
              a2 == Once(s.flight.intent = j)
              a3 == Tally(s.queue, {j})
              a4 == Once(j \in s.inflight)
              a5 == Tally(s.steers, {j})
              a6 == Tally(s.fate[j], Final)
              a7 == Once(i \in {j})
  <2>6. /\ a1 \in Nat /\ a2 \in Nat /\ a3 \in Nat /\ a4 \in Nat /\ a5 \in Nat /\ a6 \in Nat
        /\ a7 \in Nat
    BY <2>2 DEF Numbers
  <2>. HIDE DEF a1, a2, a3, a4, a5, a6, a7
  <2>7. a1 + a2 + (a3 + a7) + a4 + a5 + a6 + 0 = a1 + a2 + a3 + a4 + a5 + a6 + a7
    BY <2>6
  <2>. QED
    BY <2>4, <2>5, <2>7 DEF a1, a2, a3, a4, a5, a6, a7
<1>7. Placed(a, <<>>)
  BY <1>5, <1>6, MovePlaced
<1>. QED
  BY <1>1, <1>4, <1>5, <1>7, AckQueuedPlaced

\* A queue is what is taken from it and what is left.
LEMMA TakenThenLeft ==
  ASSUME NEW q \in Seq(Intents), NEW keep
  PROVE  q = Taken(q, keep) \o Left(q, keep)
<1>. DEFINE n == RunLength(q, keep)
<1>1. n \in 0..Len(q) /\ Len(q) \in Nat
  BY RunLengthExists, LenProperties
<1>. HIDE DEF n
<1>2. 1 \in 1..(Len(q) + 1) /\ n \in (1 - 1)..Len(q) /\ Len(q) \in n..Len(q)
  BY <1>1
<1>3. SubSeq(q, 1, n) \o SubSeq(q, n + 1, Len(q)) = SubSeq(q, 1, Len(q))
  BY <1>2, ConcatAdjacentSubSeq
<1>4. SubSeq(q, 1, Len(q)) = q
  BY SubSeqFull
<1>. QED
  BY <1>3, <1>4 DEF Taken, Left, n

\* Lines are taken off the head of the queue, ahead of the one in hand.
LEMMA TakePlaced ==
  ASSUME NEW s \in Actor, NEW keep, NEW h \in Seq(Intents), Placed(s, h)
  PROVE  Placed([s EXCEPT !.queue = Left(@, keep)], Taken(s.queue, keep) \o h)
<1>. DEFINE T == Taken(s.queue, keep)
            L == Left(s.queue, keep)
            g == T \o h
            a == [s EXCEPT !.queue = L]
<1>1. s.queue \in Seq(Intents)
  BY DEF Actor
<1>2. T \in Seq(Intents) /\ L \in Seq(Intents) /\ s.queue = T \o L
  BY <1>1, TakenLeftType, TakenThenLeft
<1>. HIDE DEF T, L
<1>3. \A j \in Intents : Tally(s.queue, {j}) = Tally(T, {j}) + Tally(L, {j})
  BY <1>2, TallyConcat
<1>5. \A j \in Intents : Tally(g, {j}) = Tally(T, {j}) + Tally(h, {j})
  BY <1>2, TallyConcat
<1>. HIDE DEF g
<1>6. /\ a \in Actor /\ a.queue = L /\ a.waiting = s.waiting /\ a.flight = s.flight
      /\ a.inflight = s.inflight /\ a.steers = s.steers /\ a.fate = s.fate /\ a.line = s.line
  BY <1>2 DEF Actor
<1>7. a = [s EXCEPT !.queue = Left(@, keep)]
  BY DEF L
<1>. HIDE DEF a
<1>8. \A j \in Intents : Sum(a, g, j) = Sum(s, h, j)
  <2>. SUFFICES ASSUME NEW j \in Intents PROVE Sum(a, g, j) = Sum(s, h, j)
    OBVIOUS
  <2>1. Tally(T, {j}) \in Nat /\ Tally(L, {j}) \in Nat
    BY <1>2, TallyFinite
  <2>2. Numbers(s, h, j)
    BY SumNat
  <2>3. /\ Tally(s.queue, {j}) = Tally(T, {j}) + Tally(a.queue, {j})
        /\ Tally(g, {j}) = Tally(T, {j}) + Tally(h, {j})
    BY <1>3, <1>5, <1>6
  <2>4. Tally(a.queue, {j}) \in Nat
    BY <1>6, <2>1
  <2>5. Sum(a, g, j) = Tally(s.waiting, Of(j)) + Once(s.flight.intent = j) + Tally(a.queue, {j})
                       + Once(j \in s.inflight) + Tally(s.steers, {j})
                       + Tally(s.fate[j], Final) + (Tally(T, {j}) + Tally(h, {j}))
    BY <1>6, <2>3 DEF Sum
  <2>6. Sum(s, h, j) = Tally(s.waiting, Of(j)) + Once(s.flight.intent = j)
                       + (Tally(T, {j}) + Tally(a.queue, {j}))
                       + Once(j \in s.inflight) + Tally(s.steers, {j})
                       + Tally(s.fate[j], Final) + Tally(h, {j})
    BY <2>3 DEF Sum
  <2>. DEFINE a1 == Tally(s.waiting, Of(j))
              a2 == Once(s.flight.intent = j)
              a3 == Tally(a.queue, {j})
              a4 == Once(j \in s.inflight)
              a5 == Tally(s.steers, {j})
              a6 == Tally(s.fate[j], Final)
              a7 == Tally(T, {j})
              a8 == Tally(h, {j})
  <2>7. /\ a1 \in Nat /\ a2 \in Nat /\ a3 \in Nat /\ a4 \in Nat /\ a5 \in Nat /\ a6 \in Nat
        /\ a7 \in Nat /\ a8 \in Nat
    BY <2>1, <2>2, <2>4 DEF Numbers
  <2>. HIDE DEF a1, a2, a3, a4, a5, a6, a7, a8
  <2>8. a1 + a2 + a3 + a4 + a5 + a6 + (a7 + a8) = a1 + a2 + (a7 + a3) + a4 + a5 + a6 + a8
    BY <2>7
  <2>. QED
    BY <2>5, <2>6, <2>8 DEF a1, a2, a3, a4, a5, a6, a7, a8
<1>9. Placed(a, g)
  BY <1>6, <1>8, MovePlaced
<1>. QED
  BY <1>7, <1>9 DEF g, T

LEMMA StartTurnPlaced ==
  ASSUME NEW s \in Actor, NEW inputs \in Seq(Intents), Placed(s, inputs)
  PROVE  Placed(StartTurn(s, inputs), <<>>)
<1>. DEFINE turn == s.turns + 1
            said == s.said \o UserItems(inputs, turn)
            a == [s EXCEPT !.turns = turn, !.running = turn,
                           !.ended = FALSE, !.stop = FALSE, !.said = said]
<1>1. turn \in Nat /\ s.said \in Seq(Said)
  BY DEF Actor
<1>2. said \in Seq(Said)
  BY <1>1, UserItemsType, ConcatProperties
<1>3. StartTurn(s, inputs) = AckAll(a, SeqRange(inputs), "started")
  BY DEF StartTurn
<1>. HIDE DEF turn, said
<1>4. a \in Actor /\ Still(s, a)
  BY <1>1, <1>2 DEF Actor, Still
<1>. HIDE DEF a
<1>5. Placed(a, inputs)
  BY <1>4, StillPlaced
<1>. QED
  BY <1>3, <1>4, <1>5, SettlePlaced DEF Final, Fate

LEMMA HeldThenPlaced ==
  ASSUME NEW s \in Actor, NEW i \in Intents, Placed(s, <<i>>)
  PROVE  Placed(HeldThen(s, i), <<>>)
<1>. DEFINE T == Taken(s.queue, ProseOf(s))
<1>1. /\ T \in Seq(Intents) /\ [s EXCEPT !.queue = Left(@, ProseOf(s))] \in Actor
  BY TakeQueueType
<1>2. Append(T, i) = T \o <<i>> /\ Append(T, i) \in Seq(Intents) /\ <<i>> \in Seq(Intents)
  BY <1>1, AppendIsConcat, AppendProperties
<1>3. Placed([s EXCEPT !.queue = Left(@, ProseOf(s))], Append(T, i))
  BY <1>2, TakePlaced
<1>. QED
  BY <1>1, <1>2, <1>3, StartTurnPlaced DEF HeldThen

LEMMA LogInputPlaced ==
  ASSUME NEW s \in Actor, NEW i \in Intents, Placed(s, <<i>>)
  PROVE  Placed(LogInput(s, i), <<>>)
<1>. DEFINE said == Append(s.said, [intent |-> i, turn |-> 0])
            a == [s EXCEPT !.said = said]
<1>1. said \in Seq(Said)
  BY DEF Actor, Said
<1>2. LogInput(s, i) = Ack(a, i, "applied")
  BY DEF LogInput
<1>. HIDE DEF said
<1>3. a \in Actor /\ Still(s, a)
  BY <1>1 DEF Actor, Still
<1>. HIDE DEF a
<1>4. Placed(a, <<i>>)
  BY <1>3, StillPlaced
<1>. QED
  BY <1>2, <1>3, <1>4, AckPlaced DEF Final, Fate

\* An input behind the one in flight is counted by its intent.
LEMMA OfIntent ==
  ASSUME NEW w \in Waiting, NEW j
  PROVE  Once(w \in Of(j)) = Once(w.intent = j)
BY DEF Of, Once

LEMMA HeadThenTail ==
  ASSUME NEW T, NEW q \in Seq(T), q # <<>>
  PROVE  /\ q = <<Head(q)>> \o Tail(q) /\ Head(q) \in T /\ Tail(q) \in Seq(T)
         /\ \A S : Tally(q, S) = Tally(Tail(q), S) + Once(Head(q) \in S)
<1>1. /\ Head(q) \in T /\ Tail(q) \in Seq(T) /\ Len(q) \in Nat \ {0}
  BY HeadTailProperties, EmptySeq
<1>2. 1 \in 1..Len(q) /\ Len(q) \in 1..Len(q) /\ Head(q) = q[1]
  BY <1>1
<1>3. q = SubSeq(q, 1, Len(q)) /\ Tail(q) = SubSeq(q, 2, Len(q))
  BY SubSeqFull, TailIsSubSeq
<1>4. SubSeq(q, 1, Len(q)) = <<q[1]>> \o SubSeq(q, 1 + 1, Len(q))
  BY <1>2, SubSeqRecursiveFirst
<1>5. q = <<Head(q)>> \o Tail(q)
  BY <1>2, <1>3, <1>4
<1>. DEFINE x == Head(q)
            r == Tail(q)
<1>. HIDE DEF x, r
<1>6. \A S : Tally(<<x>> \o r, S) = Tally(r, S) + Once(x \in S)
  BY <1>1, TallyAppend DEF x, r
<1>. QED
  BY <1>1, <1>5, <1>6 DEF x, r

LEMMA StartGatePlaced ==
  ASSUME NEW s \in Actor, NEW h \in Seq(Intents), Placed(s, h)
  PROVE  Placed(StartGate(s), h)
<1>1. CASE s.flight.intent # None \/ s.closing \/ s.closed \/ s.waiting = <<>>
  BY <1>1 DEF StartGate
<1>2. CASE ~(s.flight.intent # None \/ s.closing \/ s.closed \/ s.waiting = <<>>)
  <2>. DEFINE w == Head(s.waiting)
              r == Tail(s.waiting)
              f == [intent |-> w.intent, kind |-> w.kind, cut |-> FALSE]
              a == [s EXCEPT !.waiting = r, !.flight = f]
  <2>1. s.waiting \in Seq(Waiting) /\ s.waiting # <<>>
    BY <1>2 DEF Actor
  <2>2. /\ w \in Waiting /\ r \in Seq(Waiting)
        /\ \A S : Tally(s.waiting, S) = Tally(r, S) + Once(w \in S)
    BY <2>1, HeadThenTail
  <2>3. StartGate(s) = a
    BY <1>2 DEF StartGate
  <2>. HIDE DEF w, r
  <2>4. f \in Flight /\ f.intent = w.intent
    BY <2>2 DEF Waiting, Flight
  <2>. HIDE DEF f
  <2>5. /\ a \in Actor /\ a.waiting = r /\ a.flight = f /\ a.queue = s.queue
        /\ a.inflight = s.inflight /\ a.steers = s.steers /\ a.fate = s.fate /\ a.line = s.line
    BY <2>2, <2>4 DEF Actor
  <2>. HIDE DEF a
  <2>6. \A j \in Intents : Sum(a, h, j) = Sum(s, h, j)
    <3>. SUFFICES ASSUME NEW j \in Intents PROVE Sum(a, h, j) = Sum(s, h, j)
      OBVIOUS
    <3>1. Numbers(s, h, j) /\ Tally(r, Of(j)) \in Nat /\ Once(w.intent = j) \in Nat
      BY <2>2, SumNat, TallyFinite DEF Once
    <3>2. Tally(s.waiting, Of(j)) = Tally(r, Of(j)) + Once(w.intent = j)
      BY <2>2, OfIntent
    <3>3. Once(s.flight.intent = j) = 0
      BY <1>2, ConstantsAssumption DEF Once
    <3>4. Sum(a, h, j) = Tally(r, Of(j)) + Once(w.intent = j) + Tally(s.queue, {j})
                         + Once(j \in s.inflight) + Tally(s.steers, {j})
                         + Tally(s.fate[j], Final) + Tally(h, {j})
      BY <2>4, <2>5 DEF Sum
    <3>5. Sum(s, h, j) = (Tally(r, Of(j)) + Once(w.intent = j)) + 0 + Tally(s.queue, {j})
                         + Once(j \in s.inflight) + Tally(s.steers, {j})
                         + Tally(s.fate[j], Final) + Tally(h, {j})
      BY <3>2, <3>3 DEF Sum
    <3>. QED
      BY <3>1, <3>4, <3>5 DEF Numbers
  <2>. QED
    BY <2>3, <2>5, <2>6, MovePlaced
<1>. QED
  BY <1>1, <1>2

\* The line in hand is given to the gate.
LEMMA GateInputPlaced ==
  ASSUME NEW s \in Actor, NEW i \in Intents, NEW kind \in GateKinds, Placed(s, <<i>>)
  PROVE  Placed(GateInput(s, i, kind), <<>>)
<1>. DEFINE w == [intent |-> i, kind |-> kind]
            ws == IF kind \in {"queued", "prose"} THEN <<w>> \o s.waiting
                  ELSE Append(s.waiting, w)
            a == [s EXCEPT !.waiting = ws]
<1>1. w \in Waiting /\ w.intent = i
  BY DEF Waiting
<1>2. s.waiting \in Seq(Waiting) /\ <<i>> \in Seq(Intents) /\ <<>> \in Seq(Intents)
  BY DEF Actor
<1>3. GateInput(s, i, kind) = StartGate(a)
  BY DEF GateInput
<1>. HIDE DEF w
<1>4. <<w>> \in Seq(Waiting)
  BY <1>1
<1>5. <<w>> \o s.waiting \in Seq(Waiting) /\ Append(s.waiting, w) \in Seq(Waiting)
  BY <1>1, <1>2, <1>4, ConcatProperties, AppendProperties
<1>6. \A S : /\ Tally(<<w>> \o s.waiting, S) = Tally(s.waiting, S) + Once(w \in S)
             /\ Tally(Append(s.waiting, w), S) = Tally(s.waiting, S) + Once(w \in S)
  BY <1>1, <1>2, TallyAppend
<1>7. ws \in Seq(Waiting) /\ \A S : Tally(ws, S) = Tally(s.waiting, S) + Once(w \in S)
  BY <1>5, <1>6
<1>. HIDE DEF ws
<1>8. /\ a \in Actor /\ a.waiting = ws /\ a.flight = s.flight /\ a.queue = s.queue
      /\ a.inflight = s.inflight /\ a.steers = s.steers /\ a.fate = s.fate /\ a.line = s.line
  BY <1>7 DEF Actor
<1>. HIDE DEF a
<1>9. \A j \in Intents : Sum(a, <<>>, j) = Sum(s, <<i>>, j)
  <2>. SUFFICES ASSUME NEW j \in Intents PROVE Sum(a, <<>>, j) = Sum(s, <<i>>, j)
    OBVIOUS
  <2>1. Numbers(s, <<i>>, j) /\ Once(i = j) \in Nat
    BY <1>2, SumNat DEF Once
  <2>2. Tally(ws, Of(j)) = Tally(s.waiting, Of(j)) + Once(i = j)
    BY <1>1, <1>7, OfIntent
  <2>3. Tally(<<>>, {j}) = 0 /\ Tally(<<i>>, {j}) = Once(i = j)
    BY TallySmall DEF Once
  <2>4. Sum(a, <<>>, j) = (Tally(s.waiting, Of(j)) + Once(i = j)) + Once(s.flight.intent = j)
                          + Tally(s.queue, {j}) + Once(j \in s.inflight)
                          + Tally(s.steers, {j}) + Tally(s.fate[j], Final) + 0
    BY <1>8, <2>2, <2>3 DEF Sum
  <2>5. Sum(s, <<i>>, j) = Tally(s.waiting, Of(j)) + Once(s.flight.intent = j)
                           + Tally(s.queue, {j}) + Once(j \in s.inflight)
                           + Tally(s.steers, {j}) + Tally(s.fate[j], Final) + Once(i = j)
    BY <2>3 DEF Sum
  <2>. DEFINE a1 == Tally(s.waiting, Of(j))
              a2 == Once(s.flight.intent = j)
              a3 == Tally(s.queue, {j})
              a4 == Once(j \in s.inflight)
              a5 == Tally(s.steers, {j})
              a6 == Tally(s.fate[j], Final)
              a7 == Once(i = j)
  <2>6. /\ a1 \in Nat /\ a2 \in Nat /\ a3 \in Nat /\ a4 \in Nat /\ a5 \in Nat /\ a6 \in Nat
        /\ a7 \in Nat
    BY <2>1 DEF Numbers
  <2>. HIDE DEF a1, a2, a3, a4, a5, a6, a7
  <2>7. (a1 + a7) + a2 + a3 + a4 + a5 + a6 + 0 = a1 + a2 + a3 + a4 + a5 + a6 + a7
    BY <2>6
  <2>. QED
    BY <2>4, <2>5, <2>7 DEF a1, a2, a3, a4, a5, a6, a7
<1>10. Placed(a, <<>>)
  BY <1>8, <1>9, MovePlaced
<1>. QED
  BY <1>2, <1>3, <1>8, <1>10, StartGatePlaced

LEMMA DrainQueuePlaced ==
  ASSUME NEW s \in Actor, Placed(s, <<>>)
  PROVE  Placed(DrainQueue(s), <<>>)
<1>1. CASE Busy(s) \/ GateBusy(s) \/ s.queue = <<>>
  BY <1>1 DEF DrainQueue
<1>2. CASE ~(Busy(s) \/ GateBusy(s) \/ s.queue = <<>>)
  <2>0. s.queue \in Seq(Intents) /\ s.queue # <<>> /\ <<>> \in Seq(Intents)
    BY <1>2 DEF Actor
  <2>1. CASE IsCommand(s, Head(s.queue))
    <3>. DEFINE x == Head(s.queue)
                r == Tail(s.queue)
                a == [s EXCEPT !.queue = r]
    <3>1. /\ x \in Intents /\ r \in Seq(Intents)
          /\ \A S : Tally(s.queue, S) = Tally(r, S) + Once(x \in S)
      BY <2>0, HeadThenTail
    <3>2. DrainQueue(s) = GateInput(a, x, "queued")
      BY <1>2, <2>1 DEF DrainQueue
    <3>. HIDE DEF x, r
    <3>3. /\ a \in Actor /\ a.waiting = s.waiting /\ a.flight = s.flight /\ a.queue = r
          /\ a.inflight = s.inflight /\ a.steers = s.steers /\ a.fate = s.fate /\ a.line = s.line
      BY <3>1 DEF Actor
    <3>. HIDE DEF a
    <3>4. \A j \in Intents : Sum(a, <<x>>, j) = Sum(s, <<>>, j)
      <4>. SUFFICES ASSUME NEW j \in Intents PROVE Sum(a, <<x>>, j) = Sum(s, <<>>, j)
        OBVIOUS
      <4>1. Numbers(s, <<>>, j) /\ Once(x \in {j}) \in Nat /\ Tally(r, {j}) \in Nat
        BY <2>0, <3>1, SumNat, TallyFinite DEF Once
      <4>2. Tally(<<>>, {j}) = 0 /\ Tally(<<x>>, {j}) = Once(x \in {j})
        BY TallySmall
      <4>3. Sum(a, <<x>>, j) = Tally(s.waiting, Of(j)) + Once(s.flight.intent = j)
                               + Tally(r, {j}) + Once(j \in s.inflight)
                               + Tally(s.steers, {j}) + Tally(s.fate[j], Final) + Once(x \in {j})
        BY <3>3, <4>2 DEF Sum
      <4>4. Sum(s, <<>>, j) = Tally(s.waiting, Of(j)) + Once(s.flight.intent = j)
                              + (Tally(r, {j}) + Once(x \in {j})) + Once(j \in s.inflight)
                              + Tally(s.steers, {j}) + Tally(s.fate[j], Final) + 0
        BY <3>1, <4>2 DEF Sum
      <4>. DEFINE a1 == Tally(s.waiting, Of(j))
                  a2 == Once(s.flight.intent = j)
                  a3 == Tally(r, {j})
                  a4 == Once(j \in s.inflight)
                  a5 == Tally(s.steers, {j})
                  a6 == Tally(s.fate[j], Final)
                  a7 == Once(x \in {j})
      <4>5. /\ a1 \in Nat /\ a2 \in Nat /\ a3 \in Nat /\ a4 \in Nat /\ a5 \in Nat /\ a6 \in Nat
            /\ a7 \in Nat
        BY <4>1 DEF Numbers
      <4>. HIDE DEF a1, a2, a3, a4, a5, a6, a7
      <4>6. a1 + a2 + a3 + a4 + a5 + a6 + a7 = a1 + a2 + (a3 + a7) + a4 + a5 + a6 + 0
        BY <4>5
      <4>. QED
        BY <4>3, <4>4, <4>6 DEF a1, a2, a3, a4, a5, a6, a7
    <3>5. Placed(a, <<x>>)
      BY <3>3, <3>4, MovePlaced
    <3>. QED
      BY <3>1, <3>2, <3>3, <3>5, GateInputPlaced DEF GateKinds
  <2>2. CASE ~IsCommand(s, Head(s.queue))
    <3>1. /\ Taken(s.queue, ProseOf(s)) \in Seq(Intents)
          /\ [s EXCEPT !.queue = Left(@, ProseOf(s))] \in Actor
      BY TakeQueueType
    <3>2. Taken(s.queue, ProseOf(s)) \o <<>> = Taken(s.queue, ProseOf(s))
      BY <3>1, ConcatEmptySeq
    <3>3. Placed([s EXCEPT !.queue = Left(@, ProseOf(s))], Taken(s.queue, ProseOf(s)) \o <<>>)
      BY <2>0, TakePlaced
    <3>4. Placed([s EXCEPT !.queue = Left(@, ProseOf(s))], Taken(s.queue, ProseOf(s)))
      BY <3>2, <3>3
    <3>. QED
      BY <1>2, <2>2, <3>1, <3>4, StartTurnPlaced DEF DrainQueue
  <2>. QED
    BY <2>1, <2>2
<1>. QED
  BY <1>1, <1>2

LEMMA SubmitProsePlaced ==
  ASSUME NEW s \in Actor, NEW i \in Intents, Placed(s, <<i>>)
  PROVE  Placed(SubmitProse(s, i), <<>>)
BY LogInputPlaced, EnqueuePlaced, HeldThenPlaced DEF SubmitProse

LEMMA DeliverReadyPlaced ==
  ASSUME NEW s \in Actor, NEW i \in Intents, Placed(s, <<i>>)
  PROVE  Placed(DeliverReady(s, i), <<>>)
BY AckPlaced, LogInputPlaced, EnqueuePlaced, HeldThenPlaced DEF DeliverReady, Final, Fate

\* A command in hand runs.
LEMMA RunCommandPlaced ==
  ASSUME NEW s \in Actor, NEW i \in Intents, NEW instant, Placed(s, <<i>>)
  PROVE  Placed(RunCommand(s, i, instant), <<>>)
<1>. DEFINE a == RunCommand(s, i, instant)
<1>0. <<>> \in Seq(Intents) /\ <<i>> \in Seq(Intents)
  OBVIOUS
<1>1. /\ a \in Actor /\ a.waiting = s.waiting /\ a.flight = s.flight /\ a.queue = s.queue
      /\ a.inflight = s.inflight \cup {i} /\ a.steers = s.steers /\ a.fate = s.fate /\ a.line = s.line
  BY DEF RunCommand, Actor
<1>. HIDE DEF a
<1>2. i \notin s.inflight
  <2>1. Numbers(s, <<i>>, i)
    BY <1>0, SumNat
  <2>2. Tally(<<i>>, {i}) = 1
    BY TallySmall DEF Once
  <2>3. Sum(s, <<i>>, i) \in {0, 1}
    BY PlacedIs DEF Once
  <2>. DEFINE a1 == Tally(s.waiting, Of(i))
              a2 == Once(s.flight.intent = i)
              a3 == Tally(s.queue, {i})
              a4 == Once(i \in s.inflight)
              a5 == Tally(s.steers, {i})
              a6 == Tally(s.fate[i], Final)
  <2>4. a1 + a2 + a3 + a4 + a5 + a6 + 1 \in {0, 1}
    BY <2>2, <2>3 DEF Sum
  <2>5. /\ a1 \in Nat /\ a2 \in Nat /\ a3 \in Nat /\ a4 \in Nat /\ a5 \in Nat /\ a6 \in Nat
    BY <2>1 DEF Numbers
  <2>6. a4 = 0 => i \notin s.inflight
    BY DEF Once
  <2>. HIDE DEF a1, a2, a3, a4, a5, a6
  <2>. QED
    BY <2>4, <2>5, <2>6
<1>3. \A j \in Intents : Sum(a, <<>>, j) = Sum(s, <<i>>, j)
  <2>. SUFFICES ASSUME NEW j \in Intents PROVE Sum(a, <<>>, j) = Sum(s, <<i>>, j)
    OBVIOUS
  <2>1. Numbers(s, <<i>>, j) /\ Once(i = j) \in Nat
    BY <1>0, SumNat DEF Once
  <2>2. Tally(<<>>, {j}) = 0 /\ Tally(<<i>>, {j}) = Once(i = j)
    BY TallySmall DEF Once
  <2>3. Once(j \in a.inflight) = Once(j \in s.inflight) + Once(i = j)
    BY <1>1, <1>2 DEF Once
  <2>4. Sum(a, <<>>, j) = Tally(s.waiting, Of(j)) + Once(s.flight.intent = j)
                          + Tally(s.queue, {j}) + (Once(j \in s.inflight) + Once(i = j))
                          + Tally(s.steers, {j}) + Tally(s.fate[j], Final) + 0
    BY <1>1, <2>2, <2>3 DEF Sum
  <2>5. Sum(s, <<i>>, j) = Tally(s.waiting, Of(j)) + Once(s.flight.intent = j)
                           + Tally(s.queue, {j}) + Once(j \in s.inflight)
                           + Tally(s.steers, {j}) + Tally(s.fate[j], Final) + Once(i = j)
    BY <2>2 DEF Sum
  <2>. DEFINE a1 == Tally(s.waiting, Of(j))
              a2 == Once(s.flight.intent = j)
              a3 == Tally(s.queue, {j})
              a4 == Once(j \in s.inflight)
              a5 == Tally(s.steers, {j})
              a6 == Tally(s.fate[j], Final)
              a7 == Once(i = j)
  <2>6. /\ a1 \in Nat /\ a2 \in Nat /\ a3 \in Nat /\ a4 \in Nat /\ a5 \in Nat /\ a6 \in Nat
        /\ a7 \in Nat
    BY <2>1 DEF Numbers
  <2>. HIDE DEF a1, a2, a3, a4, a5, a6, a7
  <2>7. a1 + a2 + a3 + (a4 + a7) + a5 + a6 + 0 = a1 + a2 + a3 + a4 + a5 + a6 + a7
    BY <2>6
  <2>. QED
    BY <2>4, <2>5, <2>7 DEF a1, a2, a3, a4, a5, a6, a7
<1>. QED
  BY <1>1, <1>3, MovePlaced DEF a

LEMMA SubmitCommandPlaced ==
  ASSUME NEW s \in Actor, NEW i \in Intents, NEW queued, NEW instant, Placed(s, <<i>>)
  PROVE  Placed(SubmitCommand(s, i, queued, instant), <<>>)
BY EnqueuePlaced, RunCommandPlaced DEF SubmitCommand

LEMMA ApplyGatePlaced ==
  ASSUME NEW s \in Actor, NEW i \in Intents, NEW kind, NEW verdict, Placed(s, <<i>>)
  PROVE  Placed(ApplyGate(s, i, kind, verdict), <<>>)
BY AckPlaced, SubmitProsePlaced, DeliverReadyPlaced, SubmitCommandPlaced
   DEF ApplyGate, Final, Fate

\* A command that is over is in hand.
LEMMA CommandOverPlaced ==
  ASSUME NEW s \in Actor, NEW i \in s.inflight, Placed(s, <<>>)
  PROVE  CommandOver(s, i) \in Actor /\ Placed(CommandOver(s, i), <<i>>)
<1>. DEFINE a == CommandOver(s, i)
<1>0. <<>> \in Seq(Intents) /\ i \in Intents
  BY DEF Actor
<1>1. /\ a \in Actor /\ a.waiting = s.waiting /\ a.flight = s.flight /\ a.queue = s.queue
      /\ a.inflight = s.inflight \ {i} /\ a.steers = s.steers /\ a.fate = s.fate /\ a.line = s.line
  BY DEF CommandOver, Actor
<1>. HIDE DEF a
<1>3. \A j \in Intents : Sum(a, <<i>>, j) = Sum(s, <<>>, j)
  <2>. SUFFICES ASSUME NEW j \in Intents PROVE Sum(a, <<i>>, j) = Sum(s, <<>>, j)
    OBVIOUS
  <2>1. Numbers(s, <<>>, j) /\ Once(i = j) \in Nat /\ Once(j \in a.inflight) \in Nat
    BY <1>0, SumNat DEF Once
  <2>2. Tally(<<>>, {j}) = 0 /\ Tally(<<i>>, {j}) = Once(i = j)
    BY TallySmall DEF Once
  <2>3. Once(j \in s.inflight) = Once(j \in a.inflight) + Once(i = j)
    BY <1>1 DEF Once
  <2>4. Sum(a, <<i>>, j) = Tally(s.waiting, Of(j)) + Once(s.flight.intent = j)
                           + Tally(s.queue, {j}) + Once(j \in a.inflight)
                           + Tally(s.steers, {j}) + Tally(s.fate[j], Final) + Once(i = j)
    BY <1>1, <2>2 DEF Sum
  <2>5. Sum(s, <<>>, j) = Tally(s.waiting, Of(j)) + Once(s.flight.intent = j)
                          + Tally(s.queue, {j}) + (Once(j \in a.inflight) + Once(i = j))
                          + Tally(s.steers, {j}) + Tally(s.fate[j], Final) + 0
    BY <2>2, <2>3 DEF Sum
  <2>. DEFINE a1 == Tally(s.waiting, Of(j))
              a2 == Once(s.flight.intent = j)
              a3 == Tally(s.queue, {j})
              a4 == Once(j \in a.inflight)
              a5 == Tally(s.steers, {j})
              a6 == Tally(s.fate[j], Final)
              a7 == Once(i = j)
  <2>6. /\ a1 \in Nat /\ a2 \in Nat /\ a3 \in Nat /\ a4 \in Nat /\ a5 \in Nat /\ a6 \in Nat
        /\ a7 \in Nat
    BY <2>1 DEF Numbers
  <2>. HIDE DEF a1, a2, a3, a4, a5, a6, a7
  <2>7. a1 + a2 + a3 + a4 + a5 + a6 + a7 = a1 + a2 + a3 + (a4 + a7) + a5 + a6 + 0
    BY <2>6
  <2>. QED
    BY <2>4, <2>5, <2>7 DEF a1, a2, a3, a4, a5, a6, a7
<1>. QED
  BY <1>1, <1>3, MovePlaced DEF a

\* The queue, or what a barrier took of it, is in hand.
LEMMA InHand ==
  ASSUME NEW s \in Actor, NEW t \in Actor, Placed(s, <<>>),
         t.waiting = s.waiting, t.flight.intent = s.flight.intent,
         t.inflight = s.inflight, t.fate = s.fate, t.line = s.line
  PROVE  /\ t.queue = <<>> /\ t.steers = s.steers => Placed(t, s.queue)
         /\ t.steers = <<>> /\ t.queue = s.queue => Placed(t, s.steers)
<1>0. <<>> \in Seq(Intents)
  OBVIOUS
<1>1. ASSUME t.queue = <<>>, t.steers = s.steers
      PROVE  Placed(t, s.queue)
  <2>1. \A j \in Intents : Sum(t, s.queue, j) = Sum(s, <<>>, j)
    <3>. SUFFICES ASSUME NEW j \in Intents PROVE Sum(t, s.queue, j) = Sum(s, <<>>, j)
      OBVIOUS
    <3>1. Numbers(s, <<>>, j) /\ Tally(<<>>, {j}) = 0
      BY <1>0, SumNat, TallySmall
    <3>2. Sum(t, s.queue, j) = Tally(s.waiting, Of(j)) + Once(s.flight.intent = j)
                               + 0 + Once(j \in s.inflight) + Tally(s.steers, {j})
                               + Tally(s.fate[j], Final) + Tally(s.queue, {j})
      BY <1>1, <3>1 DEF Sum
    <3>. QED
      BY <3>1, <3>2 DEF Sum, Numbers
  <2>. QED
    BY <2>1, MovePlaced
<1>2. ASSUME t.steers = <<>>, t.queue = s.queue
      PROVE  Placed(t, s.steers)
  <2>1. \A j \in Intents : Sum(t, s.steers, j) = Sum(s, <<>>, j)
    <3>. SUFFICES ASSUME NEW j \in Intents PROVE Sum(t, s.steers, j) = Sum(s, <<>>, j)
      OBVIOUS
    <3>1. Numbers(s, <<>>, j) /\ Tally(<<>>, {j}) = 0
      BY <1>0, SumNat, TallySmall
    <3>2. Sum(t, s.steers, j) = Tally(s.waiting, Of(j)) + Once(s.flight.intent = j)
                               + Tally(s.queue, {j}) + Once(j \in s.inflight) + 0
                               + Tally(s.fate[j], Final) + Tally(s.steers, {j})
      BY <1>2, <3>1 DEF Sum
    <3>. QED
      BY <3>1, <3>2 DEF Sum, Numbers
  <2>. QED
    BY <2>1, MovePlaced
<1>. QED
  BY <1>1, <1>2

LEMMA FinishClosePlaced ==
  ASSUME NEW s \in Actor, Placed(s, <<>>)
  PROVE  Placed(FinishClose(s), <<>>)
<1>. DEFINE a == [s EXCEPT !.queue = <<>>, !.closed = TRUE, !.closing = FALSE]
<1>1. s.queue \in Seq(Intents)
  BY DEF Actor
<1>2. /\ a \in Actor /\ a.waiting = s.waiting /\ a.flight = s.flight /\ a.queue = <<>>
      /\ a.inflight = s.inflight /\ a.steers = s.steers /\ a.fate = s.fate /\ a.line = s.line
  BY EmptySeq DEF Actor
<1>3. FinishClose(s) = AckAll(a, SeqRange(s.queue), "rejected")
  BY DEF FinishClose
<1>. HIDE DEF a
<1>4. Placed(a, s.queue)
  BY <1>2, InHand
<1>. QED
  BY <1>1, <1>2, <1>3, <1>4, SettlePlaced DEF Final, Fate

\* The intents of a sequence of records that have one.
Names(q) == [k \in 1..Len(q) |-> q[k].intent]

LEMMA NamesIs ==
  ASSUME NEW T, \A x \in T : x.intent \in Intents, NEW q \in Seq(T)
  PROVE  /\ Names(q) \in Seq(Intents)
         /\ Len(Names(q)) = Len(q) /\ DOMAIN Names(q) = DOMAIN q
         /\ \A k \in DOMAIN q : Names(q)[k] = q[k].intent
<1>1. Len(q) \in Nat /\ DOMAIN q = 1..Len(q) /\ \A k \in 1..Len(q) : q[k] \in T
  BY LenProperties, ElementOfSeq
<1>2. Names(q) \in [1..Len(q) -> Intents]
  BY <1>1 DEF Names
<1>3. Names(q) \in Seq(Intents) /\ Len(Names(q)) = Len(q)
  BY <1>1, <1>2
<1>. QED
  BY <1>1, <1>3, LenProperties DEF Names

LEMMA WaitingNames ==
  ASSUME NEW q \in Seq(Waiting)
  PROVE  /\ Names(q) \in Seq(Intents)
         /\ SeqRange(Names(q)) = {q[k].intent : k \in DOMAIN q}
         /\ \A j \in Intents : Tally(Names(q), {j}) = Tally(q, Of(j))
<1>1. /\ Names(q) \in Seq(Intents) /\ DOMAIN Names(q) = DOMAIN q
      /\ \A k \in DOMAIN q : Names(q)[k] = q[k].intent
  BY NamesIs DEF Waiting
<1>2. \A k \in DOMAIN q : q[k] \in Waiting
  BY LenProperties, ElementOfSeq
<1>3. ASSUME NEW j \in Intents
      PROVE  Tally(Names(q), {j}) = Tally(q, Of(j))
  <2>1. {k \in DOMAIN Names(q) : Names(q)[k] \in {j}} = {k \in DOMAIN q : q[k] \in Of(j)}
    BY <1>1, <1>2 DEF Of
  <2>. QED
    BY <2>1 DEF Tally
<1>. QED
  BY <1>1, <1>3 DEF SeqRange

\* A close settles what is at the gate.
LEMMA CloseGatePlaced ==
  ASSUME NEW s \in Actor, Placed(s, <<>>)
  PROVE  CloseGate(s) \in Actor /\ Placed(CloseGate(s), <<>>)
<1>. DEFINE n == Names(s.waiting)
            i == s.flight.intent
            a == [s EXCEPT !.waiting = <<>>, !.flight = NoFlight]
            is == {s.waiting[k].intent : k \in DOMAIN s.waiting} \cup ({i} \ {None})
            h == IF i = None THEN n ELSE Append(n, i)
<1>1. s.waiting \in Seq(Waiting) /\ i \in Intents \cup {None} /\ <<>> \in Seq(Intents)
  BY DEF Actor, Flight
<1>2. /\ n \in Seq(Intents)
      /\ SeqRange(n) = {s.waiting[k].intent : k \in DOMAIN s.waiting}
      /\ \A j \in Intents : Tally(n, {j}) = Tally(s.waiting, Of(j))
  BY <1>1, WaitingNames
<1>3. /\ a \in Actor /\ a.waiting = <<>> /\ a.flight = NoFlight /\ a.queue = s.queue
      /\ a.inflight = s.inflight /\ a.steers = s.steers /\ a.fate = s.fate /\ a.line = s.line
  BY NoFlightType, EmptySeq DEF Actor
<1>4. CloseGate(s) = AckAll(a, is, "rejected")
  BY DEF CloseGate
<1>. HIDE DEF a, n, i
<1>5. /\ h \in Seq(Intents) /\ SeqRange(h) = is
      /\ \A j \in Intents : Tally(h, {j}) = Tally(s.waiting, Of(j)) + Once(i = j)
  <2>1. CASE i = None
    <3>1. \A j \in Intents : Once(i = j) = 0 /\ Tally(n, {j}) \in Nat
      BY <1>2, <2>1, ConstantsAssumption, TallyFinite DEF Once
    <3>. QED
      BY <1>2, <2>1, <3>1
  <2>2. CASE i # None
    <3>1. i \in Intents
      BY <1>1, <2>2
    <3>2. /\ Append(n, i) \in Seq(Intents) /\ DOMAIN Append(n, i) = 1..(Len(n) + 1)
          /\ Len(n) \in Nat /\ DOMAIN n = 1..Len(n)
          /\ \A k \in 1..Len(n) : Append(n, i)[k] = n[k]
          /\ Append(n, i)[Len(n) + 1] = i
      BY <1>2, <3>1, AppendProperties, LenProperties
    <3>3. SeqRange(Append(n, i)) = SeqRange(n) \cup {i}
      BY <3>2 DEF SeqRange
    <3>4. ASSUME NEW j \in Intents
          PROVE  Tally(Append(n, i), {j}) = Tally(n, {j}) + Once(i = j)
      <4>0. n \in Seq(Intents)
        BY <1>2
      <4>1. Tally(Append(n, i), {j}) = Tally(n, {j}) + Once(i \in {j})
        BY <3>1, <4>0, TallyAppend
      <4>2. Once(i \in {j}) = Once(i = j)
        BY DEF Once
      <4>. QED
        BY <4>1, <4>2
    <3>5. h = Append(n, i)
      BY <2>2
    <3>6. is = SeqRange(n) \cup {i}
      BY <1>2, <2>2
    <3>7. \A j \in Intents : Tally(Append(n, i), {j}) = Tally(s.waiting, Of(j)) + Once(i = j)
      BY <1>2, <3>4
    <3>. HIDE DEF h, is
    <3>. QED
      BY <3>2, <3>3, <3>5, <3>6, <3>7
  <2>. QED
    BY <2>1, <2>2
<1>. HIDE DEF h
<1>6. \A j \in Intents : Sum(a, h, j) = Sum(s, <<>>, j)
  <2>. SUFFICES ASSUME NEW j \in Intents PROVE Sum(a, h, j) = Sum(s, <<>>, j)
    OBVIOUS
  <2>1. Numbers(s, <<>>, j)
    BY <1>1, SumNat
  <2>2. Tally(<<>>, Of(j)) = 0 /\ Tally(<<>>, {j}) = 0
    BY TallySmall
  <2>3. Once(a.flight.intent = j) = 0
    BY <1>3, ConstantsAssumption DEF Once, NoFlight
  <2>4. Sum(a, h, j) = 0 + 0 + Tally(s.queue, {j}) + Once(j \in s.inflight)
                       + Tally(s.steers, {j}) + Tally(s.fate[j], Final)
                       + (Tally(s.waiting, Of(j)) + Once(s.flight.intent = j))
    BY <1>3, <1>5, <2>2, <2>3 DEF Sum, i
  <2>5. Sum(s, <<>>, j) = Tally(s.waiting, Of(j)) + Once(s.flight.intent = j)
                          + Tally(s.queue, {j}) + Once(j \in s.inflight)
                          + Tally(s.steers, {j}) + Tally(s.fate[j], Final) + 0
    BY <2>2 DEF Sum
  <2>. QED
    BY <2>1, <2>4, <2>5 DEF Numbers
<1>7. Placed(a, h)
  BY <1>3, <1>6, MovePlaced
<1>8. "rejected" \in Final /\ "rejected" \in Fate
  BY DEF Final, Fate
<1>9. AckAll(a, SeqRange(h), "rejected") \in Actor /\ Placed(AckAll(a, SeqRange(h), "rejected"), <<>>)
  BY <1>3, <1>5, <1>7, <1>8, SettlePlaced, AckAllType
<1>10. CloseGate(s) = AckAll(a, SeqRange(h), "rejected")
  BY <1>4, <1>5
<1>. QED
  BY <1>9, <1>10

LEMMA ClosedPlaced ==
  ASSUME NEW s \in Actor, Placed(s, <<>>)
  PROVE  Placed(Closed(s), <<>>)
<1>. DEFINE a == CancelTokens(s)
            b == CloseGate(a)
            c == [b EXCEPT !.pending = {}]
            d == [c EXCEPT !.closing = TRUE]
<1>1. a \in Actor /\ Still(s, a)
  <2>1. s.inflight \in SUBSET Intents /\ (s.running # 0) \in BOOLEAN
    BY DEF Actor
  <2>. QED
    BY <2>1 DEF CancelTokens, Actor, Still
<1>. HIDE DEF a
<1>2. b \in Actor /\ Placed(b, <<>>)
  BY <1>1, StillPlaced, CloseGatePlaced
<1>. HIDE DEF b
<1>3. c \in Actor /\ Still(b, c)
  BY <1>2 DEF Actor, Still
<1>. HIDE DEF c
<1>4. d \in Actor /\ Still(c, d)
  BY <1>3 DEF Actor, Still
<1>. HIDE DEF d
<1>5. Placed(c, <<>>)
  BY <1>2, <1>3, StillPlaced
<1>6. Placed(d, <<>>) /\ Placed(FinishClose(c), <<>>)
  BY <1>3, <1>4, <1>5, StillPlaced, FinishClosePlaced
<1>. QED
  BY <1>6 DEF Closed, a, b, c, d

-----------------------------------------------------------------------------
(* Every handler keeps each line in one place.                             *)

\* No line arrives twice, and a line that was sent has arrived.
Arrivals(s) ==
  /\ \A a, b \in DOMAIN s.arrived : s.arrived[a] = s.arrived[b] => a = b
  /\ SeqRange(s.arrived) = {i \in Intents : s.line[i] # "unsent"}

\* A turn that is at its barrier runs, and nothing is in the barrier's
\* reply before it is given or after it is read.
Barred(s) ==
  ~s.closed => /\ s.barrier # "none" => s.running # 0 /\ ~s.ended
               /\ s.steers # <<>> => s.barrier = "answered"

Housed(s) == Placed(s, <<>>) /\ Arrivals(s) /\ Barred(s)

LEMMA GoesKeeps ==
  ASSUME NEW s, NEW t, Goes(s, t)
  PROVE  /\ Barred(s) => Barred(t)
         /\ Arrivals(s) => Arrivals(t)
<1>1. Barred(s) => Barred(t)
  BY DEF Goes, Barred
<1>2. Arrivals(s) => Arrivals(t)
  BY DEF Goes, Arrivals
<1>. QED
  BY <1>1, <1>2

LEMMA Fresh ==
  ASSUME TypeOK, Arrivals(actor), MaxRetries = 0, NEW i \in Intents, NEW kind, Arrives(i, kind)
  PROVE  actor.line[i] = "unsent" /\ i \notin SeqRange(actor.arrived)
<1>. DEFINE q == actor.arrived
            K == {j \in Intents : actor.line[j] # "unsent"}
<1>1. q \in Seq(Intents) /\ Len(q) \in Nat /\ DOMAIN q = 1..Len(q) /\ q \in [1..Len(q) -> Intents]
  BY LenProperties DEF TypeOK, Actor
<1>2. SeqRange(q) = K
  BY DEF Arrivals
<1>3. q \in [1..Len(q) -> K] /\ \A j \in K : \E k \in 1..Len(q) : q[k] = j
  BY <1>1, <1>2 DEF SeqRange
<1>4. q \in Surjection(1..Len(q), K)
  BY <1>3 DEF Surjection
<1>5. IsFiniteSet(1..Len(q)) /\ Cardinality(1..Len(q)) = Len(q)
  BY <1>1, FS_Interval
<1>6. IsFiniteSet(K) /\ Cardinality(K) <= Len(q)
  BY <1>4, <1>5, FS_Surjection
<1>7. Cardinality(K) \in Nat
  BY <1>6, FS_CardinalityType
<1>8. Retries(actor) = Len(q) - Cardinality(K)
  BY DEF Retries
<1>. HIDE DEF q, K
<1>9. ~(Retries(actor) < MaxRetries)
  BY <1>1, <1>6, <1>7, <1>8
<1>10. actor.line[i] = "unsent"
  BY <1>9 DEF Arrives
<1>. QED
  BY <1>2, <1>10 DEF q, K

LEMMA SentHoused ==
  ASSUME TypeOK, Housed(actor), NEW i \in Intents, NEW kind \in LineKinds,
         actor.line[i] = "unsent", i \notin SeqRange(actor.arrived)
  PROVE  /\ Sent(i, kind) \in Actor
         /\ Placed(Sent(i, kind), <<i>>) /\ Arrivals(Sent(i, kind)) /\ Barred(Sent(i, kind))
<1>. DEFINE s == actor
            t == Sent(i, kind)
            q == Append(s.arrived, i)
<1>0. s \in Actor /\ s.arrived \in Seq(Intents) /\ <<>> \in Seq(Intents) /\ kind # "unsent"
  BY DEF TypeOK, Actor, LineKinds, SubmitKinds, DeliverKinds
<1>1. t \in Actor
  BY SentType
<1>2. /\ t.waiting = s.waiting /\ t.flight = s.flight /\ t.queue = s.queue
      /\ t.inflight = s.inflight /\ t.steers = s.steers /\ t.fate = s.fate
      /\ t.line = [s.line EXCEPT ![i] = kind] /\ t.arrived = q
      /\ t.barrier = s.barrier /\ t.running = s.running /\ t.ended = s.ended /\ t.closed = s.closed
  BY <1>0 DEF Sent, Actor
<1>3. /\ q \in Seq(Intents) /\ Len(s.arrived) \in Nat
      /\ DOMAIN s.arrived = 1..Len(s.arrived) /\ DOMAIN q = 1..(Len(s.arrived) + 1)
      /\ \A k \in 1..Len(s.arrived) : q[k] = s.arrived[k]
      /\ q[Len(s.arrived) + 1] = i
  BY <1>0, AppendProperties, LenProperties
<1>4. s.line \in [Intents -> LineKinds \cup {"unsent"}]
  BY <1>0 DEF Actor
<1>. HIDE DEF s, t, q
<1>5. SeqRange(q) = SeqRange(s.arrived) \cup {i}
  BY <1>3 DEF SeqRange
<1>6. i \notin SeqRange(s.arrived) /\ s.line[i] = "unsent" /\ Arrivals(s)
  BY DEF s, Housed
<1>7. \A a, b \in DOMAIN q : q[a] = q[b] => a = b
  <2>1. \A a \in 1..Len(s.arrived) : s.arrived[a] # i
    BY <1>3, <1>6 DEF SeqRange
  <2>2. \A a, b \in 1..Len(s.arrived) : s.arrived[a] = s.arrived[b] => a = b
    BY <1>3, <1>6 DEF Arrivals
  <2>. QED
    BY <1>3, <2>1, <2>2
<1>8. \A j \in Intents : t.line[j] = IF j = i THEN kind ELSE s.line[j]
  BY <1>2, <1>4
<1>9. SeqRange(t.arrived) = {j \in Intents : t.line[j] # "unsent"}
  BY <1>0, <1>2, <1>5, <1>6, <1>8 DEF Arrivals
<1>10. Arrivals(t)
  BY <1>2, <1>7, <1>9 DEF Arrivals
<1>11. Barred(t)
  BY <1>2 DEF Barred, Housed, s
<1>12. Placed(t, <<i>>)
  <2>. SUFFICES ASSUME NEW j \in Intents
                PROVE  Homes(t, j) + Tally(<<i>>, {j}) = Once(t.line[j] # "unsent")
    BY DEF Placed
  <2>0. Homes(t, j) = Homes(s, j)
    BY <1>2 DEF Homes
  <2>1. Homes(t, j) = Homes(s, j) /\ Homes(s, j) \in Nat
    BY <1>0, <2>0, HomesNat
  <2>2. Tally(<<>>, {j}) = 0 /\ Tally(<<i>>, {j}) = Once(i = j)
    BY TallySmall DEF Once
  <2>3. Homes(s, j) + Tally(<<>>, {j}) = Once(s.line[j] # "unsent")
    BY DEF Housed, Placed, s
  <2>4. CASE j = i
    BY <1>0, <1>6, <1>8, <2>1, <2>2, <2>3, <2>4 DEF Once
  <2>5. CASE j # i
    BY <1>8, <2>1, <2>2, <2>3, <2>5 DEF Once
  <2>. QED
    BY <2>4, <2>5
<1>. QED
  BY <1>1, <1>10, <1>11, <1>12 DEF t

\* The method a handler ends with goes on from an actor whose lines are
\* placed.
LEMMA EndHoused ==
  ASSUME NEW s, NEW t, Arrivals(s), Barred(s), Goes(s, t), Placed(t, <<>>)
  PROVE  Housed(t)
BY GoesKeeps DEF Housed

LEMMA SubmitHoused ==
  ASSUME TypeOK, Housed(actor), MaxRetries = 0,
         NEW i \in Intents, NEW kind \in Lines, Submit(i, kind)
  PROVE  Housed(actor')
<1>. DEFINE s == Sent(i, kind)
<1>1. actor.line[i] = "unsent" /\ i \notin SeqRange(actor.arrived)
  BY Fresh DEF Submit, Housed
<1>2. s \in Actor /\ Placed(s, <<i>>) /\ Arrivals(s) /\ Barred(s)
  BY <1>1, LinesKinds, SentHoused
<1>. HIDE DEF s
<1>3. Housed(Ack(s, i, "rejected"))
  BY <1>2, AckPlaced, AckGoes, EndHoused DEF Fate, Final
<1>4. Housed(GateInput(s, i, "submit"))
  BY <1>2, GateInputPlaced, GateInputGoes, EndHoused DEF GateKinds
<1>. QED
  BY <1>3, <1>4 DEF Submit, s

LEMMA DeliverHoused ==
  ASSUME TypeOK, Housed(actor), MaxRetries = 0,
         NEW i \in Intents, NEW kind \in Lines, Deliver(i, kind)
  PROVE  Housed(actor')
<1>. DEFINE s == Sent(i, kind)
<1>1. actor.line[i] = "unsent" /\ i \notin SeqRange(actor.arrived)
  BY Fresh DEF Deliver, Housed
<1>2. s \in Actor /\ Placed(s, <<i>>) /\ Arrivals(s) /\ Barred(s)
  BY <1>1, LinesKinds, SentHoused
<1>. HIDE DEF s
<1>3. Housed(DeliverReady(s, i))
  BY <1>2, DeliverReadyPlaced, DeliverReadyGoes, EndHoused
<1>4. Housed(GateInput(s, i, "deliver"))
  BY <1>2, GateInputPlaced, GateInputGoes, EndHoused DEF GateKinds
<1>. QED
  BY <1>3, <1>4 DEF Deliver, s

\* The input in flight is in hand.
LEMMA GatedHand ==
  ASSUME NEW s \in Actor, Placed(s, <<>>), s.flight.intent # None
  PROVE  /\ s.flight.intent \in Intents
         /\ [s EXCEPT !.flight = NoFlight] \in Actor
         /\ Placed([s EXCEPT !.flight = NoFlight], <<s.flight.intent>>)
<1>. DEFINE a == [s EXCEPT !.flight = NoFlight]
            i == s.flight.intent
<1>1. i \in Intents /\ <<>> \in Seq(Intents)
  BY DEF Actor, Flight
<1>2. /\ a \in Actor /\ a.waiting = s.waiting /\ a.flight = NoFlight /\ a.queue = s.queue
      /\ a.inflight = s.inflight /\ a.steers = s.steers /\ a.fate = s.fate /\ a.line = s.line
  BY NoFlightType DEF Actor
<1>. HIDE DEF a
<1>3. \A j \in Intents : Sum(a, <<i>>, j) = Sum(s, <<>>, j)
  <2>. SUFFICES ASSUME NEW j \in Intents PROVE Sum(a, <<i>>, j) = Sum(s, <<>>, j)
    OBVIOUS
  <2>1. Numbers(s, <<>>, j)
    BY <1>1, SumNat
  <2>2. Tally(<<>>, {j}) = 0 /\ Tally(<<i>>, {j}) = Once(s.flight.intent = j)
    BY TallySmall DEF Once
  <2>3. Once(a.flight.intent = j) = 0
    BY <1>2, ConstantsAssumption DEF Once, NoFlight
  <2>4. Sum(a, <<i>>, j) = Tally(s.waiting, Of(j)) + 0 + Tally(s.queue, {j})
                           + Once(j \in s.inflight) + Tally(s.steers, {j})
                           + Tally(s.fate[j], Final) + Once(s.flight.intent = j)
    BY <1>2, <2>2, <2>3 DEF Sum
  <2>5. Sum(s, <<>>, j) = Tally(s.waiting, Of(j)) + Once(s.flight.intent = j)
                          + Tally(s.queue, {j}) + Once(j \in s.inflight)
                          + Tally(s.steers, {j}) + Tally(s.fate[j], Final) + 0
    BY <2>2 DEF Sum
  <2>. QED
    BY <2>1, <2>4, <2>5 DEF Numbers
<1>4. Placed(a, <<i>>)
  BY <1>2, <1>3, MovePlaced
<1>. QED
  BY <1>1, <1>2, <1>4 DEF a

\* What the gate's report makes of the input in flight, and the gate after it.
Given(s, verdict) ==
  ApplyGate([s EXCEPT !.flight = NoFlight], s.flight.intent, s.flight.kind, verdict)

AfterGate(s, verdict) == StartGate(Given(s, verdict))

LEMMA GatedHoused ==
  ASSUME NEW s \in Actor, Housed(s), s.flight.intent # None, NEW verdict
  PROVE  /\ Given(s, verdict) \in Actor /\ Housed(Given(s, verdict))
         /\ AfterGate(s, verdict) \in Actor /\ Housed(AfterGate(s, verdict))
         /\ Housed(DrainQueue(AfterGate(s, verdict)))
<1>. DEFINE i == s.flight.intent
            taken == [s EXCEPT !.flight = NoFlight]
            given == ApplyGate(taken, i, s.flight.kind, verdict)
            applied == StartGate(given)
<1>0. <<>> \in Seq(Intents)
  OBVIOUS
<1>1. i \in Intents /\ taken \in Actor /\ Placed(taken, <<i>>)
  BY GatedHand DEF Housed
<1>2. Goes(s, taken)
  BY DEF Goes, Actor
<1>3. Given(s, verdict) = given /\ AfterGate(s, verdict) = applied
  BY DEF Given, AfterGate
<1>. HIDE DEF taken
<1>4. given \in Actor /\ Placed(given, <<>>) /\ Goes(taken, given)
  BY <1>1, ApplyGateType, ApplyGatePlaced, ApplyGateGoes
<1>. HIDE DEF given
<1>5. applied \in Actor /\ Placed(applied, <<>>) /\ Goes(given, applied)
  BY <1>0, <1>4, StartGateType, StartGatePlaced, StartGateGoes
<1>. HIDE DEF applied
<1>6. Placed(DrainQueue(applied), <<>>) /\ Goes(applied, DrainQueue(applied))
  BY <1>5, DrainQueuePlaced, DrainQueueGoes
<1>7. Goes(s, given) /\ Goes(s, applied) /\ Goes(s, DrainQueue(applied))
  BY <1>2, <1>4, <1>5, <1>6, GoesTwice
<1>8. Housed(given) /\ Housed(applied) /\ Housed(DrainQueue(applied))
  BY <1>4, <1>5, <1>6, <1>7, EndHoused DEF Housed
<1>. QED
  BY <1>3, <1>4, <1>5, <1>8

LEMMA HandKnown ==
  ASSUME NEW s \in Actor, NEW i \in Intents, Placed(s, <<i>>)
  PROVE  s.line[i] # "unsent"
<1>1. Homes(s, i) \in Nat /\ Tally(<<i>>, {i}) = 1
  BY HomesNat, TallySmall DEF Once
<1>2. Homes(s, i) + 1 = Once(s.line[i] # "unsent")
  BY <1>1 DEF Placed
<1>. QED
  BY <1>1, <1>2 DEF Once

\* A command that is over, its questions with it, is in the handler's hand.
Finished(s, i) ==
  IF s.holding = i THEN CancelCommandAsks(CommandOver(s, i)) ELSE CommandOver(s, i)

LEMMA FinishedHoused ==
  ASSUME NEW s \in Actor, Housed(s), NEW i \in s.inflight
  PROVE  /\ Finished(s, i) \in Actor /\ Placed(Finished(s, i), <<i>>) /\ Goes(s, Finished(s, i))
         /\ Arrivals(Finished(s, i)) /\ Barred(Finished(s, i))
<1>. DEFINE finished == CommandOver(s, i)
<1>0. Placed(s, <<>>) /\ Arrivals(s) /\ Barred(s) /\ i \in Intents
  BY DEF Housed, Actor
<1>1. finished \in Actor /\ Placed(finished, <<i>>)
  BY <1>0, CommandOverPlaced
<1>2. Goes(s, finished)
  BY DEF CommandOver, Goes, Actor
<1>. HIDE DEF finished
<1>3. /\ CancelCommandAsks(finished) \in Actor
      /\ Still(finished, CancelCommandAsks(finished))
      /\ Goes(finished, CancelCommandAsks(finished))
  <2>1. CancelCommandAsks(finished) \in Actor
    BY <1>1, CancelCommandAsksType
  <2>2. Still(finished, CancelCommandAsks(finished))
    BY <1>1 DEF CancelCommandAsks, Still, Actor
  <2>3. Goes(finished, CancelCommandAsks(finished))
    BY <1>1 DEF CancelCommandAsks, Goes, Actor
  <2>. QED
    BY <2>1, <2>2, <2>3
<1>. DEFINE asked == IF s.holding = i THEN CancelCommandAsks(finished) ELSE finished
<1>4. asked \in Actor /\ Placed(asked, <<i>>) /\ Goes(s, asked)
  BY <1>1, <1>2, <1>3, StillPlaced, GoesTwice
<1>. HIDE DEF asked
<1>5. Arrivals(asked) /\ Barred(asked)
  BY <1>0, <1>4, GoesKeeps
<1>. QED
  BY <1>4, <1>5 DEF Finished, asked, finished

\* A command turned into prose.
Prompted(s, i) == [s EXCEPT !.line[i] = "prompt"]

LEMMA PromptedHoused ==
  ASSUME NEW s \in Actor, NEW i \in Intents, Placed(s, <<i>>), Arrivals(s), Barred(s)
  PROVE  /\ Prompted(s, i) \in Actor /\ Placed(Prompted(s, i), <<i>>)
         /\ Arrivals(Prompted(s, i)) /\ Barred(Prompted(s, i))
<1>. DEFINE p == Prompted(s, i)
<1>1. s.line \in [Intents -> LineKinds \cup {"unsent"}] /\ s.line[i] # "unsent"
  BY HandKnown DEF Actor
<1>2. [s.line EXCEPT ![i] = "prompt"] \in [Intents -> LineKinds \cup {"unsent"}]
  BY <1>1 DEF LineKinds
<1>3. /\ p \in Actor /\ p.line = [s.line EXCEPT ![i] = "prompt"]
      /\ p.waiting = s.waiting /\ p.flight = s.flight /\ p.queue = s.queue
      /\ p.inflight = s.inflight /\ p.steers = s.steers /\ p.fate = s.fate
      /\ p.arrived = s.arrived /\ p.barrier = s.barrier /\ p.closed = s.closed
      /\ p.running = s.running /\ p.ended = s.ended
  BY <1>2 DEF Prompted, Actor
<1>. HIDE DEF p
<1>4. \A j \in Intents : p.line[j] # "unsent" <=> s.line[j] # "unsent"
  BY <1>1, <1>3
<1>5. Barred(p)
  BY <1>3 DEF Barred
<1>6. Arrivals(p)
  <2>1. {j \in Intents : p.line[j] # "unsent"} = {j \in Intents : s.line[j] # "unsent"}
    BY <1>4
  <2>. QED
    BY <1>3, <2>1 DEF Arrivals
<1>7. Placed(p, <<i>>)
  <2>. SUFFICES ASSUME NEW j \in Intents
                PROVE  Homes(p, j) + Tally(<<i>>, {j}) = Once(p.line[j] # "unsent")
    BY DEF Placed
  <2>1. Homes(p, j) = Homes(s, j)
    BY <1>3 DEF Homes
  <2>2. Homes(s, j) + Tally(<<i>>, {j}) = Once(s.line[j] # "unsent")
    BY DEF Placed
  <2>3. Once(p.line[j] # "unsent") = Once(s.line[j] # "unsent")
    BY <1>4 DEF Once
  <2>. QED
    BY <2>1, <2>2, <2>3
<1>. QED
  BY <1>3, <1>5, <1>6, <1>7 DEF p

LEMMA ReportedHoused ==
  ASSUME NEW s \in Actor, Housed(s), NEW i \in s.inflight, NEW o \in {"applied", "rejected", "prompt"}
  PROVE  /\ Reported(s, i, o) \in Actor /\ Housed(Reported(s, i, o))
         /\ Housed(DrainQueue(Reported(s, i, o)))
<1>. DEFINE asked == Finished(s, i)
            p == Prompted(asked, i)
            u == IF o = "prompt" THEN GateInput(p, i, "prose") ELSE Ack(asked, i, o)
<1>1. i \in Intents
  BY DEF Actor
<1>2. Reported(s, i, o) = u
  BY DEF Reported, Finished, Prompted
<1>3. asked \in Actor /\ Placed(asked, <<i>>) /\ Arrivals(asked) /\ Barred(asked)
  BY FinishedHoused
<1>. HIDE DEF asked
<1>4. p \in Actor /\ Placed(p, <<i>>) /\ Arrivals(p) /\ Barred(p)
  BY <1>1, <1>3, PromptedHoused
<1>. HIDE DEF p
<1>5. GateInput(p, i, "prose") \in Actor /\ Housed(GateInput(p, i, "prose"))
  BY <1>1, <1>4, GateInputType, GateInputPlaced, GateInputGoes, EndHoused DEF GateKinds
<1>6. o # "prompt" => Ack(asked, i, o) \in Actor /\ Housed(Ack(asked, i, o))
  BY <1>1, <1>3, AckType, AckPlaced, AckGoes, EndHoused DEF Fate, Final
<1>7. u \in Actor /\ Housed(u)
  BY <1>5, <1>6
<1>. HIDE DEF u
<1>8. Housed(DrainQueue(u))
  BY <1>7, DrainQueuePlaced, DrainQueueGoes, EndHoused DEF Housed
<1>. QED
  BY <1>2, <1>7, <1>8

\* A queue without one of its entries.
LEMMA Without1 ==
  ASSUME NEW q \in Seq(Intents), NEW k \in DOMAIN q
  PROVE  /\ SubSeq(q, 1, k - 1) \in Seq(Intents) /\ SubSeq(q, k + 1, Len(q)) \in Seq(Intents)
         /\ q = SubSeq(q, 1, k - 1) \o (<<q[k]>> \o SubSeq(q, k + 1, Len(q)))
<1>. DEFINE n == Len(q)
<1>1. n \in Nat /\ k \in 1..n /\ \A m \in 1..n : q[m] \in Intents
  BY LenProperties, ElementOfSeq
<1>2. SubSeq(q, 1, k - 1) \in Seq(Intents) /\ SubSeq(q, k + 1, n) \in Seq(Intents)
  <2>1. (k - 1) \in Int /\ (k + 1) \in Int /\ 1 \in Int /\ n \in Int
        /\ (\A m \in 1..(k - 1) : q[m] \in Intents) /\ (\A m \in (k + 1)..n : q[m] \in Intents)
    BY <1>1
  <2>. QED
    BY <2>1, SubSeqProperties
<1>3. SubSeq(q, k, n) = <<q[k]>> \o SubSeq(q, k + 1, n)
  <2>1. n \in k..n
    BY <1>1
  <2>. QED
    BY <1>1, <2>1, SubSeqRecursiveFirst
<1>4. SubSeq(q, 1, k - 1) \o SubSeq(q, k, n) = q
  <2>1. 1 \in 1..(n + 1) /\ k - 1 \in (1 - 1)..n /\ n \in (k - 1)..n /\ (k - 1) + 1 = k
    BY <1>1
  <2>2. SubSeq(q, 1, k - 1) \o SubSeq(q, (k - 1) + 1, n) = SubSeq(q, 1, n)
    BY <2>1, ConcatAdjacentSubSeq
  <2>. QED
    BY <2>1, <2>2, SubSeqFull
<1>. QED
  BY <1>2, <1>3, <1>4

LEMMA WithoutPlaced ==
  ASSUME NEW s \in Actor, Placed(s, <<>>), NEW k \in DOMAIN s.queue, NEW i \in Intents,
         s.queue[k] = i
  PROVE  /\ Placed([s EXCEPT !.queue = Without(@, k)], <<i>>)
         /\ Goes(s, [s EXCEPT !.queue = Without(@, k)])
<1>0. s.queue \in Seq(Intents) /\ <<>> \in Seq(Intents)
  BY DEF Actor
<1>. DEFINE A == SubSeq(s.queue, 1, k - 1)
            B == SubSeq(s.queue, k + 1, Len(s.queue))
            r == A \o B
            a == [s EXCEPT !.queue = r]
<1>2. A \in Seq(Intents) /\ B \in Seq(Intents) /\ s.queue = A \o (<<i>> \o B)
  BY <1>0, Without1
<1>3. [s EXCEPT !.queue = Without(@, k)] = a
  BY DEF Without
<1>. HIDE DEF A, B
<1>4. <<i>> \o B \in Seq(Intents) /\ r \in Seq(Intents)
  <2>1. <<i>> \in Seq(Intents)
    OBVIOUS
  <2>. QED
    BY <1>2, <2>1, ConcatProperties
<1>5. ASSUME NEW j \in Intents
      PROVE  /\ Tally(r, {j}) = Tally(A, {j}) + Tally(B, {j})
             /\ Tally(s.queue, {j}) = Tally(A, {j}) + (Tally(B, {j}) + Once(i \in {j}))
             /\ Tally(A, {j}) \in Nat /\ Tally(B, {j}) \in Nat
  <2>1. Tally(<<i>> \o B, {j}) = Tally(B, {j}) + Once(i \in {j})
    BY <1>2, TallyAppend
  <2>2. Tally(A \o (<<i>> \o B), {j}) = Tally(A, {j}) + Tally(<<i>> \o B, {j})
    <3>. DEFINE C == <<i>> \o B
    <3>1. A \in Seq(Intents) /\ C \in Seq(Intents)
      BY <1>2, <1>4
    <3>. HIDE DEF C
    <3>2. Tally(A \o C, {j}) = Tally(A, {j}) + Tally(C, {j})
      BY <3>1, TallyConcat
    <3>. QED
      BY <3>2 DEF C
  <2>3. Tally(r, {j}) = Tally(A, {j}) + Tally(B, {j})
    BY <1>2, TallyConcat
  <2>4. Tally(A, {j}) \in Nat /\ Tally(B, {j}) \in Nat
    BY <1>2, TallyFinite
  <2>. QED
    BY <1>2, <2>1, <2>2, <2>3, <2>4
<1>. HIDE DEF r
<1>6. /\ a \in Actor /\ a.waiting = s.waiting /\ a.flight = s.flight /\ a.queue = r
      /\ a.inflight = s.inflight /\ a.steers = s.steers /\ a.fate = s.fate /\ a.line = s.line
  BY <1>0, <1>4 DEF Actor
<1>7. Goes(s, a)
  BY <1>0, QueueGoes
<1>. HIDE DEF a
<1>8. \A j \in Intents : Sum(a, <<i>>, j) = Sum(s, <<>>, j)
  <2>. SUFFICES ASSUME NEW j \in Intents PROVE Sum(a, <<i>>, j) = Sum(s, <<>>, j)
    OBVIOUS
  <2>1. Numbers(s, <<>>, j) /\ Once(i \in {j}) \in Nat
    BY <1>0, SumNat DEF Once
  <2>2. Tally(<<>>, {j}) = 0 /\ Tally(<<i>>, {j}) = Once(i \in {j})
    BY TallySmall
  <2>3. /\ Tally(r, {j}) = Tally(A, {j}) + Tally(B, {j})
        /\ Tally(s.queue, {j}) = Tally(A, {j}) + (Tally(B, {j}) + Once(i \in {j}))
        /\ Tally(A, {j}) \in Nat /\ Tally(B, {j}) \in Nat
    BY <1>5
  <2>4. Sum(a, <<i>>, j) = Tally(s.waiting, Of(j)) + Once(s.flight.intent = j)
                           + (Tally(A, {j}) + Tally(B, {j})) + Once(j \in s.inflight)
                           + Tally(s.steers, {j}) + Tally(s.fate[j], Final) + Once(i \in {j})
    BY <1>6, <2>2, <2>3 DEF Sum
  <2>5. Sum(s, <<>>, j) = Tally(s.waiting, Of(j)) + Once(s.flight.intent = j)
                          + (Tally(A, {j}) + (Tally(B, {j}) + Once(i \in {j})))
                          + Once(j \in s.inflight)
                          + Tally(s.steers, {j}) + Tally(s.fate[j], Final) + 0
    BY <2>2, <2>3 DEF Sum
  <2>. DEFINE a1 == Tally(s.waiting, Of(j))
              a2 == Once(s.flight.intent = j)
              a3 == Tally(A, {j})
              a4 == Tally(B, {j})
              a5 == Once(j \in s.inflight)
              a6 == Tally(s.steers, {j})
              a7 == Tally(s.fate[j], Final)
              a8 == Once(i \in {j})
  <2>6. /\ a1 \in Nat /\ a2 \in Nat /\ a3 \in Nat /\ a4 \in Nat
        /\ a5 \in Nat /\ a6 \in Nat /\ a7 \in Nat /\ a8 \in Nat
    BY <2>1, <2>3 DEF Numbers
  <2>. HIDE DEF a1, a2, a3, a4, a5, a6, a7, a8
  <2>7. a1 + a2 + (a3 + a4) + a5 + a6 + a7 + a8 = a1 + a2 + (a3 + (a4 + a8)) + a5 + a6 + a7 + 0
    BY <2>6
  <2>. QED
    BY <2>4, <2>5, <2>7 DEF a1, a2, a3, a4, a5, a6, a7, a8
<1>9. Placed(a, <<i>>)
  BY <1>0, <1>6, <1>8, MovePlaced
<1>. QED
  BY <1>3, <1>7, <1>9

LEMMA WithdrawHoused ==
  ASSUME TypeOK, Housed(actor), NEW i \in Intents, Withdraw(i)
  PROVE  Housed(actor')
<1>1. PICK k \in DOMAIN actor.queue :
        /\ actor.queue[k] = i
        /\ actor' = Ack([actor EXCEPT !.queue = Without(@, k)], i, "withdrawn")
  BY DEF Withdraw
<1>. DEFINE a == [actor EXCEPT !.queue = Without(@, k)]
<1>2. actor \in Actor /\ Placed(actor, <<>>) /\ Arrivals(actor) /\ Barred(actor)
  BY DEF TypeOK, Housed
<1>3. a \in Actor /\ Placed(a, <<i>>) /\ Goes(actor, a)
  BY <1>1, <1>2, WithoutType, WithoutPlaced
<1>4. actor' = Ack(a, i, "withdrawn")
  BY <1>1
<1>. HIDE DEF a
<1>5. Placed(Ack(a, i, "withdrawn"), <<>>) /\ Goes(a, Ack(a, i, "withdrawn"))
  BY <1>3, AckPlaced, AckGoes DEF Fate, Final
<1>6. Goes(actor, Ack(a, i, "withdrawn"))
  BY <1>3, <1>5, GoesTwice
<1>. QED
  BY <1>2, <1>4, <1>5, <1>6, EndHoused

\* What the barrier takes of the queue is in its reply.
LEMMA AbsorbHoused ==
  ASSUME TypeOK, Housed(actor), Absorb
  PROVE  Housed(actor')
<1>. DEFINE s == actor
            t == actor'
            T == Taken(s.queue, SteersOf(s))
            L == Left(s.queue, SteersOf(s))
<1>0. s \in Actor /\ s.queue \in Seq(Intents) /\ Placed(s, <<>>) /\ Arrivals(s) /\ Barred(s)
      /\ <<>> \in Seq(Intents)
  BY DEF TypeOK, Housed, Actor
<1>1. t = [s EXCEPT !.barrier = "answered", !.queue = L, !.steers = T]
  BY DEF Absorb
<1>2. s.barrier = "asked" /\ s.steers = <<>> /\ s.running # 0 /\ ~s.ended
  BY <1>0 DEF Absorb, Barred
<1>3. T \in Seq(Intents) /\ L \in Seq(Intents) /\ s.queue = T \o L
  BY <1>0, TakenLeftType, TakenThenLeft
<1>. HIDE DEF s, T, L
<1>4. \A j \in Intents : Tally(s.queue, {j}) = Tally(T, {j}) + Tally(L, {j})
  BY <1>3, TallyConcat
<1>. HIDE DEF t
<1>5. /\ t \in Actor /\ t.waiting = s.waiting /\ t.flight = s.flight /\ t.queue = L
      /\ t.inflight = s.inflight /\ t.steers = T /\ t.fate = s.fate /\ t.line = s.line
      /\ t.arrived = s.arrived /\ t.barrier = "answered" /\ t.running = s.running /\ t.ended = s.ended
  BY <1>0, <1>1, <1>3 DEF Actor
<1>6. \A j \in Intents : Sum(t, <<>>, j) = Sum(s, <<>>, j)
  <2>. SUFFICES ASSUME NEW j \in Intents PROVE Sum(t, <<>>, j) = Sum(s, <<>>, j)
    OBVIOUS
  <2>1. Numbers(s, <<>>, j) /\ Tally(T, {j}) \in Nat /\ Tally(L, {j}) \in Nat
    BY <1>0, <1>3, SumNat, TallyFinite
  <2>2. Tally(<<>>, {j}) = 0
    BY TallySmall
  <2>3. Tally(s.steers, {j}) = 0
    BY <1>2, <2>2
  <2>4. Sum(t, <<>>, j) = Tally(s.waiting, Of(j)) + Once(s.flight.intent = j)
                          + Tally(L, {j}) + Once(j \in s.inflight)
                          + Tally(T, {j}) + Tally(s.fate[j], Final) + 0
    BY <1>5, <2>2 DEF Sum
  <2>5. Sum(s, <<>>, j) = Tally(s.waiting, Of(j)) + Once(s.flight.intent = j)
                          + (Tally(T, {j}) + Tally(L, {j})) + Once(j \in s.inflight)
                          + 0 + Tally(s.fate[j], Final) + 0
    BY <1>4, <2>2, <2>3 DEF Sum
  <2>. DEFINE a1 == Tally(s.waiting, Of(j))
              a2 == Once(s.flight.intent = j)
              a3 == Tally(T, {j})
              a4 == Tally(L, {j})
              a5 == Once(j \in s.inflight)
              a6 == Tally(s.fate[j], Final)
  <2>6. /\ a1 \in Nat /\ a2 \in Nat /\ a3 \in Nat /\ a4 \in Nat /\ a5 \in Nat /\ a6 \in Nat
    BY <2>1 DEF Numbers
  <2>. HIDE DEF a1, a2, a3, a4, a5, a6
  <2>7. a1 + a2 + a4 + a5 + a3 + a6 + 0 = a1 + a2 + (a3 + a4) + a5 + 0 + a6 + 0
    BY <2>6
  <2>. QED
    BY <2>4, <2>5, <2>7 DEF a1, a2, a3, a4, a5, a6
<1>7. Placed(t, <<>>)
  BY <1>0, <1>5, <1>6, MovePlaced
<1>8. Arrivals(t) /\ Barred(t)
  BY <1>0, <1>2, <1>5 DEF Arrivals, Barred
<1>. QED
  BY <1>7, <1>8 DEF Housed, t

\* The turn reads the reply, or ends without reading it.
Steered(s) ==
  AckAll([s EXCEPT !.barrier = "none", !.steers = <<>>,
                   !.said = @ \o UserItems(s.steers, s.running)],
         SeqRange(s.steers), "steered")

Unread(s) ==
  AckAll([s EXCEPT !.ended = TRUE, !.pending = {}, !.barrier = "none", !.steers = <<>>],
         SeqRange(s.steers), "lost")

LEMMA SteerHoused ==
  ASSUME NEW s \in Actor, Housed(s)
  PROVE  Housed(Steered(s)) /\ Housed(Unread(s))
<1>. DEFINE items == s.said \o UserItems(s.steers, s.running)
            a == [s EXCEPT !.barrier = "none", !.steers = <<>>, !.said = items]
            b == [s EXCEPT !.ended = TRUE, !.pending = {}, !.barrier = "none", !.steers = <<>>]
<1>0. s.steers \in Seq(Intents) /\ Placed(s, <<>>) /\ Arrivals(s)
  BY DEF Housed, Actor
<1>1. items \in Seq(Said)
  <2>1. s.said \in Seq(Said) /\ s.running \in Nat
    BY <1>0 DEF Actor
  <2>. QED
    BY <1>0, <2>1, UserItemsType, ConcatProperties
<1>2. /\ Steered(s) = AckAll(a, SeqRange(s.steers), "steered")
      /\ Unread(s) = AckAll(b, SeqRange(s.steers), "lost")
  BY DEF Steered, Unread
<1>. HIDE DEF items
<1>3. /\ a \in Actor /\ a.waiting = s.waiting /\ a.flight = s.flight /\ a.queue = s.queue
      /\ a.inflight = s.inflight /\ a.steers = <<>> /\ a.fate = s.fate /\ a.line = s.line
      /\ a.arrived = s.arrived /\ a.barrier = "none"
  BY <1>0, <1>1, EmptySeq DEF Actor
<1>4. /\ b \in Actor /\ b.waiting = s.waiting /\ b.flight = s.flight /\ b.queue = s.queue
      /\ b.inflight = s.inflight /\ b.steers = <<>> /\ b.fate = s.fate /\ b.line = s.line
      /\ b.arrived = s.arrived /\ b.barrier = "none"
  BY <1>0, EmptySeq DEF Actor
<1>. HIDE DEF a, b
<1>5. Placed(a, s.steers) /\ Placed(b, s.steers)
  BY <1>0, <1>3, <1>4, InHand
<1>6. Arrivals(a) /\ Barred(a) /\ Arrivals(b) /\ Barred(b)
  BY <1>0, <1>3, <1>4 DEF Arrivals, Barred
<1>7. "steered" \in Final /\ "lost" \in Final /\ "steered" \in Fate /\ "lost" \in Fate
  BY DEF Final, Fate
<1>8. Housed(AckAll(a, SeqRange(s.steers), "steered"))
  BY <1>0, <1>3, <1>5, <1>6, <1>7, SettlePlaced, AckAllGoes, EndHoused
<1>9. Housed(AckAll(b, SeqRange(s.steers), "lost"))
  BY <1>0, <1>4, <1>5, <1>6, <1>7, SettlePlaced, AckAllGoes, EndHoused
<1>. QED
  BY <1>2, <1>8, <1>9

LEMMA TurnOverHoused ==
  ASSUME NEW s \in Actor, Housed(s), ~s.closed, s.ended
  PROVE  /\ TurnOver(s) \in Actor
         /\ Housed(FinishClose(TurnOver(s))) /\ Housed(DrainQueue(TurnOver(s)))
<1>. DEFINE o == TurnOver(s)
<1>0. Placed(s, <<>>) /\ Arrivals(s) /\ Barred(s)
  BY DEF Housed
<1>2. o \in Actor /\ Still(s, o) /\ o.arrived = s.arrived /\ o.barrier = s.barrier
  BY DEF TurnOver, Actor, Still
<1>. HIDE DEF o
<1>3. Placed(o, <<>>) /\ Arrivals(o) /\ Barred(o)
  <2>1. s.barrier = "none" /\ s.steers = <<>>
    BY <1>0 DEF Barred
  <2>2. o.barrier = "none" /\ o.steers = <<>>
    BY <1>2, <2>1 DEF Still
  <2>3. Barred(o)
    BY <2>2 DEF Barred
  <2>4. Arrivals(o)
    BY <1>0, <1>2 DEF Arrivals, Still
  <2>. QED
    BY <1>0, <1>2, <2>3, <2>4, StillPlaced
<1>4. Housed(FinishClose(o)) /\ Housed(DrainQueue(o))
  BY <1>2, <1>3, FinishClosePlaced, FinishCloseGoes, DrainQueuePlaced, DrainQueueGoes, EndHoused
<1>. QED
  BY <1>2, <1>4 DEF o

LEMMA CloseHoused ==
  ASSUME TypeOK, Housed(actor), Close \/ ReserveDelete
  PROVE  Housed(actor')
<1>1. actor' = Closed(actor)
  BY DEF Close, ReserveDelete
<1>2. actor \in Actor /\ Placed(actor, <<>>) /\ Arrivals(actor) /\ Barred(actor)
  BY DEF TypeOK, Housed
<1>3. Housed(Closed(actor))
  BY <1>2, ClosedPlaced, ClosedGoes, EndHoused
<1>. QED
  BY <1>1, <1>3



LEMMA CompactHoused ==
  ASSUME TypeOK, Housed(actor), Compact
  PROVE  Housed(actor')
<1>. DEFINE s == actor
            a == [s EXCEPT !.compacts = @ + 1]
<1>0. s \in Actor /\ Placed(s, <<>>) /\ Arrivals(s) /\ Barred(s) /\ <<>> \in Seq(Intents)
  BY DEF TypeOK, Housed
<1>1. actor' = StartTurn(a, <<>>)
  BY DEF Compact
<1>. HIDE DEF s
<1>2a. s.compacts + 1 \in Nat
  BY <1>0 DEF Actor
<1>2b. a \in Actor
  BY <1>0, <1>2a DEF Actor
<1>2. a \in Actor /\ Still(s, a) /\ Goes(s, a)
  BY <1>0, <1>2b DEF Actor, Still, Goes
<1>. HIDE DEF a
<1>3. Placed(a, <<>>) /\ Arrivals(a) /\ Barred(a)
  BY <1>0, <1>2, StillPlaced, GoesKeeps
<1>4. Housed(StartTurn(a, <<>>))
  BY <1>0, <1>2, <1>3, StartTurnPlaced, StartTurnGoes, EndHoused
<1>. QED
  BY <1>1, <1>4

LEMMA OthersHoused ==
  ASSUME TypeOK, Housed(actor), TypeOK',
         \/ Interrupt \/ Ask \/ ReachBarrier
         \/ \E p \in actor.pending : Answer(p)
         \/ UNCHANGED vars
  PROVE  Housed(actor')
<1>0. actor \in Actor /\ actor' \in Actor /\ Placed(actor, <<>>) /\ Arrivals(actor) /\ Barred(actor)
  BY DEF TypeOK, Housed
<1>1. CASE Interrupt
  <2>1. actor'.flight.intent = actor.flight.intent
    <3>1. actor.flight \in [intent : Intents \cup {None}, kind : GateKinds, cut : BOOLEAN]
      BY <1>0 DEF Actor, Flight
    <3>. QED
      BY <1>0, <1>1, <3>1 DEF Interrupt, CancelCommandAsks, Actor
  <2>2. Still(actor, actor') /\ Goes(actor, actor')
    BY <1>0, <1>1, <2>1 DEF Interrupt, CancelCommandAsks, Actor, Still, Goes
  <2>. QED
    BY <1>0, <2>2, StillPlaced, EndHoused
<1>2. CASE Ask \/ (\E p \in actor.pending : Answer(p)) \/ UNCHANGED vars
  <2>1. ASSUME NEW x, NEW n
        PROVE  LET t == [actor EXCEPT !.asks = n, !.pending = x]
               IN  Still(actor, t) /\ Goes(actor, t)
    BY <1>0 DEF Actor, Still, Goes
  <2>2. Still(actor, actor') /\ Goes(actor, actor')
    <3>1. CASE Ask
      BY <2>1, <3>1 DEF Ask
    <3>2. CASE (\E p \in actor.pending : Answer(p)) \/ UNCHANGED vars
      BY <1>0, <3>2 DEF Answer, vars, Actor, Still, Goes
    <3>. QED
      BY <1>2, <3>1, <3>2
  <2>. QED
    BY <1>0, <2>2, StillPlaced, EndHoused
<1>3. CASE ReachBarrier
  <2>1. Still(actor, actor') /\ actor'.arrived = actor.arrived
    BY <1>0, <1>3 DEF ReachBarrier, Actor, Still
  <2>2. Barred(actor')
    BY <1>0, <1>3 DEF ReachBarrier, Actor, Barred
  <2>3. Arrivals(actor')
    BY <1>0, <2>1 DEF Arrivals, Still
  <2>. QED
    BY <1>0, <2>1, <2>2, <2>3, StillPlaced DEF Housed
<1>. QED
  BY <1>1, <1>2, <1>3

LEMMA InitHoused == Init => Housed(actor)
<1>. SUFFICES ASSUME Init PROVE Housed(actor)
  OBVIOUS
<1>1. actor \in Actor
  BY InitType DEF TypeOK
<1>2. /\ actor.waiting = <<>> /\ actor.flight = NoFlight /\ actor.queue = <<>>
      /\ actor.inflight = {} /\ actor.steers = <<>> /\ actor.arrived = <<>>
      /\ actor.barrier = "none"
      /\ actor.fate = [i \in Intents |-> <<>>] /\ actor.line = [i \in Intents |-> "unsent"]
  BY DEF Init
<1>3. Placed(actor, <<>>)
  <2>. SUFFICES ASSUME NEW j \in Intents
                PROVE  Sum(actor, <<>>, j) = Once(actor.line[j] # "unsent")
    BY <1>1, PlacedIs
  <2>1. Tally(<<>>, Of(j)) = 0 /\ Tally(<<>>, {j}) = 0 /\ Tally(<<>>, Final) = 0
    BY TallySmall
  <2>2. Once(actor.flight.intent = j) = 0 /\ Once(j \in actor.inflight) = 0
        /\ Once(actor.line[j] # "unsent") = 0
    BY <1>2, ConstantsAssumption DEF Once, NoFlight
  <2>3. actor.fate[j] = <<>>
    BY <1>2
  <2>. QED
    BY <1>2, <2>1, <2>2, <2>3 DEF Sum
<1>4. Arrivals(actor) /\ Barred(actor)
  BY <1>2 DEF Arrivals, Barred, SeqRange
<1>. QED
  BY <1>3, <1>4 DEF Housed

LEMMA HousedStep ==
  ASSUME MaxRetries = 0, TypeOK, Housed(actor), [Next]_vars, ~StorageFailed
  PROVE  TypeOK' /\ Housed(actor')
<1>0. actor \in Actor
  BY DEF TypeOK
<1>1. TypeOK'
  BY TypeStep
<1>2. CASE Stopped \/ UNCHANGED vars
  BY <1>1, <1>2, OthersHoused DEF Stopped, vars
<1>3. ASSUME NEW v, Gated(v)
      PROVE  Housed(actor')
  BY <1>0, <1>3, GatedHoused DEF Gated, Given, AfterGate
<1>4. ASSUME NEW i \in Intents, NEW o \in {"applied", "rejected", "prompt"}, CommandFinished(i, o)
      PROVE  Housed(actor')
  BY <1>0, <1>4, ReportedHoused DEF CommandFinished
<1>5. CASE Steer \/ TurnFinished
  <2>1. actor' = Steered(actor) \/ actor' = Unread(actor)
    BY <1>5 DEF Steer, TurnFinished, Steered, Unread
  <2>. QED
    BY <1>0, <1>1, <2>1, SteerHoused
<1>6. CASE CompletionReady
  <2>1. /\ ~actor.closed /\ actor.ended
        /\ \/ actor' = FinishClose(TurnOver(actor))
           \/ actor' = DrainQueue(TurnOver(actor))
    BY <1>6 DEF CompletionReady
  <2>. QED
    BY <1>0, <1>1, <2>1, TurnOverHoused
<1>. QED
  BY <1>1, <1>2, <1>3, <1>4, <1>5, <1>6, SubmitHoused, DeliverHoused, OthersHoused,
     WithdrawHoused, CompactHoused, AbsorbHoused, CloseHoused
     DEF Next

-----------------------------------------------------------------------------
(* Lines in a row.  A relation between intents, a set of pairs, is all     *)
(* that is said here of the order they arrived in.                         *)

Asc(R, q) == \A a, b \in DOMAIN q : a < b => <<q[a], q[b]>> \in R

Prec(R, p, q) == \A a \in DOMAIN p, b \in DOMAIN q : <<p[a], q[b]>> \in R

\* The journal, a barrier's reply, the queue, the line in flight and the
\* lines behind it.
Row(R, A, B, C, D, E) ==
  /\ Asc(R, A) /\ Asc(R, B) /\ Asc(R, C) /\ Asc(R, D) /\ Asc(R, E)
  /\ Prec(R, A, B) /\ Prec(R, A, C) /\ Prec(R, A, D) /\ Prec(R, A, E)
  /\ Prec(R, B, C) /\ Prec(R, B, D) /\ Prec(R, B, E)
  /\ Prec(R, C, D) /\ Prec(R, C, E)
  /\ Prec(R, D, E)

LEMMA ConcatIs ==
  ASSUME NEW T, NEW p \in Seq(T), NEW q \in Seq(T)
  PROVE  /\ p \o q \in Seq(T)
         /\ \A k \in DOMAIN p : k \in DOMAIN (p \o q) /\ (p \o q)[k] = p[k] /\ k \in Nat
         /\ \A k \in DOMAIN q : /\ k + Len(p) \in DOMAIN (p \o q)
                                /\ (p \o q)[k + Len(p)] = q[k]
                                /\ k \in Nat /\ \A m \in DOMAIN p : m < k + Len(p)
         /\ \A k \in DOMAIN (p \o q) :
              \/ k \in DOMAIN p
              \/ k - Len(p) \in DOMAIN q /\ (p \o q)[k] = q[k - Len(p)] /\ k > Len(p)
         /\ Len(p) \in Nat /\ \A k \in DOMAIN p : k <= Len(p)
<1>. DEFINE r == p \o q
<1>1. /\ r \in Seq(T) /\ Len(r) = Len(p) + Len(q)
      /\ \A k \in 1..(Len(p) + Len(q)) : r[k] = IF k <= Len(p) THEN p[k] ELSE q[k - Len(p)]
  BY ConcatProperties
<1>2. /\ Len(p) \in Nat /\ Len(q) \in Nat /\ DOMAIN p = 1..Len(p) /\ DOMAIN q = 1..Len(q)
      /\ DOMAIN r = 1..Len(r)
  BY <1>1, LenProperties
<1>. HIDE DEF r
<1>3. \A k \in DOMAIN p : k \in DOMAIN r /\ r[k] = p[k] /\ k \in Nat /\ k <= Len(p)
  BY <1>1, <1>2
<1>4. ASSUME NEW k \in DOMAIN q
      PROVE  /\ k + Len(p) \in DOMAIN r /\ r[k + Len(p)] = q[k]
             /\ k \in Nat /\ \A m \in DOMAIN p : m < k + Len(p)
  <2>1. k + Len(p) \in 1..(Len(p) + Len(q)) /\ ~(k + Len(p) <= Len(p)) /\ (k + Len(p)) - Len(p) = k
    BY <1>2
  <2>. QED
    BY <1>1, <1>2, <2>1
<1>5. ASSUME NEW k \in DOMAIN r, k \notin DOMAIN p
      PROVE  k - Len(p) \in DOMAIN q /\ r[k] = q[k - Len(p)] /\ k > Len(p)
  <2>1. k \in 1..(Len(p) + Len(q)) /\ ~(k <= Len(p)) /\ k - Len(p) \in 1..Len(q)
    BY <1>1, <1>2, <1>5
  <2>. QED
    BY <1>1, <1>2, <2>1
<1>. QED
  BY <1>1, <1>2, <1>3, <1>4, <1>5 DEF r

LEMMA PrecConcat ==
  ASSUME NEW R, NEW p \in Seq(Intents), NEW q \in Seq(Intents), NEW r
  PROVE  /\ Prec(R, p \o q, r) <=> Prec(R, p, r) /\ Prec(R, q, r)
         /\ Prec(R, r, p \o q) <=> Prec(R, r, p) /\ Prec(R, r, q)
<1>. DEFINE c == p \o q
<1>1. /\ c \in Seq(Intents)
      /\ \A k \in DOMAIN p : k \in DOMAIN c /\ c[k] = p[k] /\ k \in Nat
      /\ \A k \in DOMAIN q : /\ k + Len(p) \in DOMAIN c
                             /\ c[k + Len(p)] = q[k]
                             /\ k \in Nat /\ \A m \in DOMAIN p : m < k + Len(p)
      /\ \A k \in DOMAIN c :
           \/ k \in DOMAIN p
           \/ k - Len(p) \in DOMAIN q /\ c[k] = q[k - Len(p)] /\ k > Len(p)
      /\ Len(p) \in Nat /\ \A k \in DOMAIN p : k <= Len(p)
  BY ConcatIs, Zenon
<1>. HIDE DEF c
<1>2. \A k \in DOMAIN c : \/ \E m \in DOMAIN p : c[k] = p[m]
                          \/ \E m \in DOMAIN q : c[k] = q[m]
  BY <1>1
<1>3. /\ \A m \in DOMAIN p : \E k \in DOMAIN c : c[k] = p[m]
      /\ \A m \in DOMAIN q : \E k \in DOMAIN c : c[k] = q[m]
  BY <1>1
<1>4. Prec(R, c, r) <=> Prec(R, p, r) /\ Prec(R, q, r)
  BY <1>2, <1>3 DEF Prec
<1>5. Prec(R, r, c) <=> Prec(R, r, p) /\ Prec(R, r, q)
  BY <1>2, <1>3 DEF Prec
<1>. QED
  BY <1>4, <1>5 DEF c

LEMMA AscConcat ==
  ASSUME NEW R, NEW p \in Seq(Intents), NEW q \in Seq(Intents)
  PROVE  Asc(R, p \o q) <=> Asc(R, p) /\ Asc(R, q) /\ Prec(R, p, q)
<1>. DEFINE c == p \o q
<1>1. /\ c \in Seq(Intents)
      /\ \A k \in DOMAIN p : k \in DOMAIN c /\ c[k] = p[k] /\ k \in Nat
      /\ \A k \in DOMAIN q : /\ k + Len(p) \in DOMAIN c
                             /\ c[k + Len(p)] = q[k]
                             /\ k \in Nat /\ \A m \in DOMAIN p : m < k + Len(p)
      /\ \A k \in DOMAIN c :
           \/ k \in DOMAIN p
           \/ k - Len(p) \in DOMAIN q /\ c[k] = q[k - Len(p)] /\ k > Len(p)
      /\ Len(p) \in Nat /\ \A k \in DOMAIN p : k <= Len(p)
  BY ConcatIs, Zenon
<1>. HIDE DEF c
<1>1a. \A k \in DOMAIN c : k \in Nat
  BY <1>1, LenProperties
<1>2. ASSUME Asc(R, c)
      PROVE  Asc(R, p) /\ Asc(R, q) /\ Prec(R, p, q)
  <2>1. Asc(R, p)
    BY <1>1, <1>2 DEF Asc
  <2>2. Asc(R, q)
    <3>. SUFFICES ASSUME NEW a \in DOMAIN q, NEW b \in DOMAIN q, a < b
                  PROVE  <<q[a], q[b]>> \in R
      BY DEF Asc
    <3>1. a + Len(p) \in DOMAIN c /\ b + Len(p) \in DOMAIN c /\ a + Len(p) < b + Len(p)
      BY <1>1
    <3>2. <<c[a + Len(p)], c[b + Len(p)]>> \in R
      BY <1>2, <3>1 DEF Asc
    <3>. QED
      BY <1>1, <3>2
  <2>3. Prec(R, p, q)
    <3>. SUFFICES ASSUME NEW a \in DOMAIN p, NEW b \in DOMAIN q
                  PROVE  <<p[a], q[b]>> \in R
      BY DEF Prec
    <3>1. a \in DOMAIN c /\ b + Len(p) \in DOMAIN c /\ a < b + Len(p)
      BY <1>1
    <3>2. <<c[a], c[b + Len(p)]>> \in R
      BY <1>2, <3>1 DEF Asc
    <3>. QED
      BY <1>1, <3>2
  <2>. QED
    BY <2>1, <2>2, <2>3
<1>3. ASSUME Asc(R, p), Asc(R, q), Prec(R, p, q)
      PROVE  Asc(R, c)
  <2>. SUFFICES ASSUME NEW a \in DOMAIN c, NEW b \in DOMAIN c, a < b
                PROVE  <<c[a], c[b]>> \in R
    BY DEF Asc
  <2>1. CASE a \in DOMAIN p /\ b \in DOMAIN p
    BY <1>1, <1>3, <2>1 DEF Asc
  <2>2. CASE a \in DOMAIN p /\ b \notin DOMAIN p
    BY <1>1, <1>3, <2>2 DEF Prec
  <2>3. CASE a \notin DOMAIN p /\ b \in DOMAIN p
    <3>1. a > Len(p) /\ b <= Len(p)
      BY <1>1, <2>3
    <3>. QED
      BY <1>1, <1>1a, <3>1
  <2>4. CASE a \notin DOMAIN p /\ b \notin DOMAIN p
    <3>1. a - Len(p) \in DOMAIN q /\ b - Len(p) \in DOMAIN q /\ a - Len(p) < b - Len(p)
      BY <1>1, <1>1a, <2>4
    <3>2. <<q[a - Len(p)], q[b - Len(p)]>> \in R
      BY <1>3, <3>1 DEF Asc
    <3>. QED
      BY <1>1, <2>4, <3>2
  <2>. QED
    BY <2>1, <2>2, <2>3, <2>4
<1>. QED
  BY <1>2, <1>3 DEF c

LEMMA EmptyRow ==
  ASSUME NEW R
  PROVE  /\ Asc(R, <<>>) /\ \A p : Prec(R, <<>>, p) /\ Prec(R, p, <<>>)
         /\ \A x : Asc(R, <<x>>)
<1>1. DOMAIN <<>> = {}
  OBVIOUS
<1>2. \A x : Asc(R, <<x>>)
  BY DEF Asc
<1>. QED
  BY <1>1, <1>2 DEF Asc, Prec

\* Any part of a row may go.
LEMMA RowDrop ==
  ASSUME NEW R, NEW A, NEW B, NEW C, NEW D, NEW E, Row(R, A, B, C, D, E)
  PROVE  /\ Row(R, A, <<>>, C, D, E) /\ Row(R, A, B, <<>>, D, E)
         /\ Row(R, A, B, C, <<>>, E) /\ Row(R, A, B, C, D, <<>>)
BY EmptyRow DEF Row

LEMMA RowMono ==
  ASSUME NEW R, NEW S, NEW A, NEW B, NEW C, NEW D, NEW E, Row(R, A, B, C, D, E), R \subseteq S
  PROVE  Row(S, A, B, C, D, E)
<1>1. \A p : Asc(R, p) => Asc(S, p)
  BY DEF Asc
<1>2. \A p, q : Prec(R, p, q) => Prec(S, p, q)
  BY DEF Prec
<1>. QED
  BY <1>1, <1>2 DEF Row

\* What leads the queue joins the journal, or a barrier's reply does.
LEMMA RowSay ==
  ASSUME NEW R, NEW A \in Seq(Intents), NEW B \in Seq(Intents), NEW T \in Seq(Intents),
         NEW L \in Seq(Intents), NEW D, NEW E
  PROVE  /\ Row(R, A, <<>>, T \o L, D, E) => Row(R, A \o T, <<>>, L, D, E)
         /\ Row(R, A, <<>>, T \o L, D, E) => Row(R, A, T, L, D, E)
         /\ Row(R, A, B, L, D, E) => Row(R, A \o B, <<>>, L, D, E)
BY AscConcat, PrecConcat, EmptyRow DEF Row

\* Every line of q is in S.
All(q, S) == \A k \in DOMAIN q : q[k] \in S

LEMMA AllConcat ==
  ASSUME NEW S, NEW T, NEW p \in Seq(T), NEW q \in Seq(T)
  PROVE  All(p \o q, S) <=> All(p, S) /\ All(q, S)
<1>. DEFINE c == p \o q
<1>1. /\ c \in Seq(T)
      /\ \A k \in DOMAIN p : k \in DOMAIN c /\ c[k] = p[k] /\ k \in Nat
      /\ \A k \in DOMAIN q : /\ k + Len(p) \in DOMAIN c
                             /\ c[k + Len(p)] = q[k]
                             /\ k \in Nat /\ \A m \in DOMAIN p : m < k + Len(p)
      /\ \A k \in DOMAIN c :
           \/ k \in DOMAIN p
           \/ k - Len(p) \in DOMAIN q /\ c[k] = q[k - Len(p)] /\ k > Len(p)
      /\ Len(p) \in Nat /\ \A k \in DOMAIN p : k <= Len(p)
  BY ConcatIs, Zenon
<1>. HIDE DEF c
<1>2. All(c, S) <=> All(p, S) /\ All(q, S)
  BY <1>1 DEF All
<1>. QED
  BY <1>2 DEF c

LEMMA AllSmall ==
  ASSUME NEW S
  PROVE  All(<<>>, S) /\ \A x : All(<<x>>, S) <=> x \in S
<1>1. DOMAIN <<>> = {}
  OBVIOUS
<1>2. \A x : All(<<x>>, S) <=> x \in S
  BY DEF All
<1>. QED
  BY <1>1, <1>2 DEF All

LEMMA NamesConcat ==
  ASSUME NEW T, \A x \in T : x.intent \in Intents, NEW q \in Seq(T), NEW r \in Seq(T)
  PROVE  Names(q \o r) = Names(q) \o Names(r)
<1>1. /\ Len(q) \in Nat /\ Len(r) \in Nat /\ Len(q \o r) = Len(q) + Len(r)
      /\ q \o r \in Seq(T)
      /\ \A k \in 1..(Len(q) + Len(r)) : (q \o r)[k] = IF k <= Len(q) THEN q[k] ELSE r[k - Len(q)]
  BY ConcatProperties, LenProperties
<1>2. /\ Names(q) \in Seq(Intents) /\ Names(r) \in Seq(Intents)
      /\ Len(Names(q)) = Len(q) /\ Len(Names(r)) = Len(r)
      /\ \A k \in DOMAIN q : Names(q)[k] = q[k].intent
      /\ \A k \in DOMAIN r : Names(r)[k] = r[k].intent
      /\ DOMAIN q = 1..Len(q) /\ DOMAIN r = 1..Len(r)
  BY NamesIs, LenProperties
<1>3. /\ Names(q \o r) \in Seq(Intents) /\ Len(Names(q \o r)) = Len(q) + Len(r)
      /\ \A k \in 1..(Len(q) + Len(r)) : Names(q \o r)[k] = (q \o r)[k].intent
  <2>1. /\ Names(q \o r) \in Seq(Intents) /\ Len(Names(q \o r)) = Len(q \o r)
        /\ \A k \in DOMAIN (q \o r) : Names(q \o r)[k] = (q \o r)[k].intent
        /\ DOMAIN (q \o r) = 1..Len(q \o r)
    BY <1>1, NamesIs, LenProperties
  <2>. QED
    BY <1>1, <2>1
<1>4. /\ Names(q) \o Names(r) \in Seq(Intents) /\ Len(Names(q) \o Names(r)) = Len(q) + Len(r)
      /\ \A k \in 1..(Len(q) + Len(r)) :
           (Names(q) \o Names(r))[k] = IF k <= Len(q) THEN Names(q)[k] ELSE Names(r)[k - Len(q)]
  <2>. DEFINE a == Names(q)
              b == Names(r)
  <2>1. a \in Seq(Intents) /\ b \in Seq(Intents) /\ Len(a) = Len(q) /\ Len(b) = Len(r)
    BY <1>2
  <2>. HIDE DEF a, b
  <2>2. /\ a \o b \in Seq(Intents) /\ Len(a \o b) = Len(a) + Len(b)
        /\ \A k \in 1..(Len(a) + Len(b)) : (a \o b)[k] = IF k <= Len(a) THEN a[k] ELSE b[k - Len(a)]
    BY <2>1, ConcatProperties
  <2>3. /\ a \o b \in Seq(Intents) /\ Len(a \o b) = Len(q) + Len(r)
        /\ \A k \in 1..(Len(q) + Len(r)) : (a \o b)[k] = IF k <= Len(q) THEN a[k] ELSE b[k - Len(q)]
    BY <2>1, <2>2
  <2>. QED
    BY <2>3 DEF a, b
<1>5. ASSUME NEW k \in 1..(Len(q) + Len(r))
      PROVE  Names(q \o r)[k] = (Names(q) \o Names(r))[k]
  <2>1. CASE k <= Len(q)
    <3>1. k \in DOMAIN q
      BY <1>1, <1>2, <2>1
    <3>2. Names(q \o r)[k] = q[k].intent /\ (Names(q) \o Names(r))[k] = Names(q)[k]
      BY <1>1, <1>3, <1>4, <2>1
    <3>. QED
      BY <1>2, <3>1, <3>2
  <2>2. CASE ~(k <= Len(q))
    <3>1. k - Len(q) \in DOMAIN r
      BY <1>1, <1>2, <2>2
    <3>2. /\ Names(q \o r)[k] = r[k - Len(q)].intent
          /\ (Names(q) \o Names(r))[k] = Names(r)[k - Len(q)]
      BY <1>1, <1>3, <1>4, <2>2
    <3>. QED
      BY <1>2, <3>1, <3>2
  <2>. QED
    BY <2>1, <2>2
<1>. QED
  BY <1>3, <1>4, <1>5, SeqEqual

LEMMA NamesSmall ==
  /\ Names(<<>>) = <<>>
  /\ \A w : Names(<<w>>) = <<w.intent>>
<1>1. Len(<<>>) = 0 /\ 1..0 = {}
  OBVIOUS
<1>2. Names(<<>>) = <<>>
  BY <1>1 DEF Names
<1>3. ASSUME NEW w PROVE Names(<<w>>) = <<w.intent>>
  <2>1. Len(<<w>>) = 1 /\ <<w>>[1] = w /\ 1..1 = {1}
    OBVIOUS
  <2>2. Names(<<w>>) = [k \in 1..1 |-> w.intent]
    BY <2>1 DEF Names
  <2>. QED
    BY <2>1, <2>2
<1>. QED
  BY <1>2, <1>3

LEMMA NamesItems ==
  ASSUME NEW x \in Seq(Intents), NEW n \in Nat
  PROVE  UserItems(x, n) \in Seq(Said) /\ Names(UserItems(x, n)) = x
<1>1. Len(x) \in Nat /\ x \in [1..Len(x) -> Intents]
  BY LenProperties
<1>2. UserItems(x, n) \in Seq(Said)
  BY UserItemsType
<1>3. Len(UserItems(x, n)) = Len(x)
  BY <1>1 DEF UserItems
<1>4. Names(UserItems(x, n)) = [k \in 1..Len(x) |-> UserItems(x, n)[k].intent]
  BY <1>3 DEF Names
<1>5. \A k \in 1..Len(x) : UserItems(x, n)[k].intent = x[k]
  BY DEF UserItems
<1>. QED
  BY <1>1, <1>2, <1>4, <1>5

\* x comes after every line of the row.
Behind(R, A, B, C, D, E, x) ==
  /\ Prec(R, A, <<x>>) /\ Prec(R, B, <<x>>) /\ Prec(R, C, <<x>>)
  /\ Prec(R, D, <<x>>) /\ Prec(R, E, <<x>>)

LEMMA RowJoin ==
  ASSUME NEW R, NEW A \in Seq(Intents), NEW B \in Seq(Intents), NEW C \in Seq(Intents),
         NEW D \in Seq(Intents), NEW E \in Seq(Intents), NEW x \in Intents
  PROVE  /\ Row(R, A, B, C, D, E) /\ Behind(R, A, B, C, D, E, x)
              => Row(R, A, B, C, D, E \o <<x>>)
         /\ Row(R, A, B, C, D, E) /\ Behind(R, A, B, C, D, E, x) /\ Prec(R, <<x>>, E)
              => Row(R, A, B, C, D, <<x>> \o E)
         /\ Row(R, A, B, C, <<x>>, E) => Row(R, A, B, C \o <<x>>, <<>>, E)
         /\ Row(R, A, B, C, <<x>>, E) /\ Prec(R, <<x>>, B) /\ Prec(R, <<x>>, C)
              => Row(R, A \o <<x>>, B, C, <<>>, E)
         /\ Row(R, A, <<>>, C, <<x>>, E) => Row(R, A \o (C \o <<x>>), <<>>, <<>>, <<>>, E)
         /\ Row(R, A, B, C, <<>>, <<x>> \o E) => Row(R, A, B, C, <<x>>, E)
         /\ Row(R, A, B, <<x>> \o C, D, E) => Row(R, A, B, C, D, E)
<1>0. <<x>> \in Seq(Intents) /\ C \o <<x>> \in Seq(Intents)
  BY ConcatProperties
<1>1. Row(R, A, B, C, D, E) /\ Behind(R, A, B, C, D, E, x) => Row(R, A, B, C, D, E \o <<x>>)
  BY <1>0, AscConcat, PrecConcat, EmptyRow DEF Row, Behind
<1>2. Row(R, A, B, C, D, E) /\ Behind(R, A, B, C, D, E, x) /\ Prec(R, <<x>>, E)
        => Row(R, A, B, C, D, <<x>> \o E)
  BY <1>0, AscConcat, PrecConcat, EmptyRow DEF Row, Behind
<1>3. Row(R, A, B, C, <<x>>, E) => Row(R, A, B, C \o <<x>>, <<>>, E)
  BY <1>0, AscConcat, PrecConcat, EmptyRow DEF Row
<1>4. Row(R, A, B, C, <<x>>, E) /\ Prec(R, <<x>>, B) /\ Prec(R, <<x>>, C)
        => Row(R, A \o <<x>>, B, C, <<>>, E)
  BY <1>0, AscConcat, PrecConcat, EmptyRow DEF Row
<1>5. Row(R, A, <<>>, C, <<x>>, E) => Row(R, A \o (C \o <<x>>), <<>>, <<>>, <<>>, E)
  BY <1>0, AscConcat, PrecConcat, EmptyRow DEF Row
<1>6. Row(R, A, B, C, <<>>, <<x>> \o E) => Row(R, A, B, C, <<x>>, E)
  BY <1>0, AscConcat, PrecConcat, EmptyRow DEF Row
<1>7. Row(R, A, B, <<x>> \o C, D, E) => Row(R, A, B, C, D, E)
  BY <1>0, AscConcat, PrecConcat, EmptyRow DEF Row
<1>. QED
  BY <1>1, <1>2, <1>3, <1>4, <1>5, <1>6, <1>7

\* Only how the lines of the row stand to one another matters.
LEMMA RowOn ==
  ASSUME NEW R, NEW S, NEW K, NEW A, NEW B, NEW C, NEW D, NEW E, Row(R, A, B, C, D, E),
         All(A, K), All(B, K), All(C, K), All(D, K), All(E, K),
         \A x, y \in K : <<x, y>> \in R => <<x, y>> \in S
  PROVE  Row(S, A, B, C, D, E)
<1>1. \A p : Asc(R, p) /\ All(p, K) => Asc(S, p)
  BY DEF Asc, All
<1>2. \A p, q : Prec(R, p, q) /\ All(p, K) /\ All(q, K) => Prec(S, p, q)
  BY DEF Prec, All
<1>. QED
  BY <1>1, <1>2 DEF Row

-----------------------------------------------------------------------------
(* The order of the journal.  Prose that is neither a command nor what one *)
(* turned into stands, from the journal to the back of the gate, in the    *)
(* order it arrived in.                                                    *)

Plain(s) == {i \in Intents : s.line[i] \notin {"command", "prompt"}}

Loud(s) == Intents \ Plain(s)

Known(s) == {i \in Intents : s.line[i] # "unsent"}

Voices(s) == {i \in Intents : s.line[i] \notin {"command", "unsent"}}

\* A delivery is no command.
Post(s) == {w \in Waiting : w.kind = "deliver" => w.intent \in ProseOf(s)}

InOrder(s) ==
  {p \in Intents \X Intents :
     p[1] \in Plain(s) /\ p[2] \in Plain(s) =>
       \E a, b \in DOMAIN s.arrived : a < b /\ s.arrived[a] = p[1] /\ s.arrived[b] = p[2]}

AtGate(s) == IF s.flight.intent # None THEN <<s.flight.intent>> ELSE <<>>

\* d: the line in flight at the gate, or in the handler's hand.
LinedUp(s, d) ==
  Row(InOrder(s), Names(s.said), s.steers, s.queue, d, Names(s.waiting))

\* What is said is prose, and without a model no prose waits in a queue.
Spoken(s) ==
  /\ All(Names(s.said), Voices(s)) /\ All(s.steers, Voices(s))
  /\ All(s.waiting, Post(s))
  /\ s.flight.intent # None /\ s.flight.kind = "deliver" => s.flight.intent \in ProseOf(s)
  /\ ~s.model => All(s.queue, Loud(s)) /\ All(s.steers, Loud(s))

Voiced(s, d) == LinedUp(s, d) /\ Spoken(s)

LEMMA Heard ==
  ASSUME NEW s, NEW t, t.line = s.line, t.arrived = s.arrived
  PROVE  /\ InOrder(t) = InOrder(s) /\ Plain(t) = Plain(s) /\ Loud(t) = Loud(s)
         /\ Known(t) = Known(s) /\ Voices(t) = Voices(s) /\ Post(t) = Post(s)
         /\ ProseOf(t) = ProseOf(s)
BY DEF InOrder, Plain, Loud, Known, Voices, Post, ProseOf, IsCommand

LEMMA SameVoiced ==
  ASSUME NEW s, NEW t, NEW d, Voiced(s, d),
         t.line = s.line, t.arrived = s.arrived, t.model = s.model, t.said = s.said,
         t.steers = s.steers, t.queue = s.queue, t.waiting = s.waiting,
         \/ t.flight.intent = None
         \/ t.flight.intent = s.flight.intent /\ t.flight.kind = s.flight.kind
  PROVE  Voiced(t, d)
<1>1. /\ InOrder(t) = InOrder(s) /\ Loud(t) = Loud(s) /\ Voices(t) = Voices(s)
      /\ Post(t) = Post(s) /\ ProseOf(t) = ProseOf(s)
  BY Heard
<1>2. LinedUp(t, d)
  BY <1>1 DEF LinedUp, Voiced
<1>3. Spoken(t)
  BY <1>1 DEF Spoken, Voiced
<1>. QED
  BY <1>2, <1>3 DEF Voiced

\* What no order is asked of stands anywhere.
LEMMA LoudAnywhere ==
  ASSUME NEW s, NEW q \in Seq(Intents), NEW x \in Intents
  PROVE  /\ x \in Loud(s) => Prec(InOrder(s), <<x>>, q) /\ Prec(InOrder(s), q, <<x>>)
         /\ All(q, Loud(s)) => Prec(InOrder(s), <<x>>, q) /\ Prec(InOrder(s), q, <<x>>)
<1>1. \A k \in DOMAIN q : q[k] \in Intents
  BY LenProperties, ElementOfSeq
<1>2. \A y \in Intents : x \in Loud(s) \/ y \in Loud(s)
        => <<x, y>> \in InOrder(s) /\ <<y, x>> \in InOrder(s)
  BY DEF Loud, InOrder
<1>3. DOMAIN <<x>> = {1} /\ <<x>>[1] = x
  OBVIOUS
<1>. QED
  BY <1>1, <1>2, <1>3 DEF Prec, All

LEMMA RowTypes ==
  ASSUME NEW s \in Actor
  PROVE  /\ Names(s.said) \in Seq(Intents) /\ s.steers \in Seq(Intents)
         /\ s.queue \in Seq(Intents) /\ Names(s.waiting) \in Seq(Intents)
         /\ AtGate(s) \in Seq(Intents) /\ s.said \in Seq(Said) /\ s.waiting \in Seq(Waiting)
         /\ \A w \in Said : w.intent \in Intents
         /\ \A w \in Waiting : w.intent \in Intents
         /\ Voices(s) \subseteq Known(s) /\ Voices(s) \subseteq Intents
<1>1. /\ s.said \in Seq(Said) /\ s.waiting \in Seq(Waiting) /\ s.steers \in Seq(Intents)
      /\ s.queue \in Seq(Intents) /\ s.flight.intent \in Intents \cup {None}
  BY DEF Actor, Flight
<1>2. (\A w \in Said : w.intent \in Intents) /\ (\A w \in Waiting : w.intent \in Intents)
  BY DEF Said, Waiting
<1>3. Names(s.said) \in Seq(Intents) /\ Names(s.waiting) \in Seq(Intents)
  BY <1>1, <1>2, NamesIs
<1>4. AtGate(s) \in Seq(Intents)
  BY <1>1 DEF AtGate
<1>. QED
  BY <1>1, <1>2, <1>3, <1>4 DEF Voices, Known

\* A line that has a place was sent.
LEMMA PlacedKnown ==
  ASSUME NEW s \in Actor, NEW h \in Seq(Intents), Placed(s, h)
  PROVE  /\ All(s.queue, Known(s)) /\ All(s.steers, Known(s)) /\ All(h, Known(s))
         /\ All(Names(s.waiting), Known(s)) /\ All(AtGate(s), Known(s))
<1>0. /\ s.queue \in Seq(Intents) /\ s.steers \in Seq(Intents) /\ s.waiting \in Seq(Waiting)
      /\ Names(s.waiting) \in Seq(Intents) /\ s.flight.intent \in Intents \cup {None}
  BY RowTypes DEF Actor, Flight
<1>1. ASSUME NEW j \in Intents, j \notin Known(s)
      PROVE  /\ Tally(s.queue, {j}) = 0 /\ Tally(s.steers, {j}) = 0 /\ Tally(h, {j}) = 0
             /\ Tally(s.waiting, Of(j)) = 0 /\ s.flight.intent # j
  <2>1. Numbers(s, h, j)
    BY SumNat
  <2>2. Sum(s, h, j) = Once(s.line[j] # "unsent")
    BY PlacedIs
  <2>3. Once(s.line[j] # "unsent") = 0
    BY <1>1 DEF Known, Once
  <2>. DEFINE a1 == Tally(s.waiting, Of(j))
              a2 == Once(s.flight.intent = j)
              a3 == Tally(s.queue, {j})
              a4 == Once(j \in s.inflight)
              a5 == Tally(s.steers, {j})
              a6 == Tally(s.fate[j], Final)
              a7 == Tally(h, {j})
  <2>4. /\ a1 \in Nat /\ a2 \in Nat /\ a3 \in Nat /\ a4 \in Nat /\ a5 \in Nat /\ a6 \in Nat
        /\ a7 \in Nat /\ a1 + a2 + a3 + a4 + a5 + a6 + a7 = 0
    BY <2>1, <2>2, <2>3 DEF Sum, Numbers
  <2>. HIDE DEF a1, a2, a3, a4, a5, a6, a7
  <2>5. a1 = 0 /\ a2 = 0 /\ a3 = 0 /\ a5 = 0 /\ a7 = 0
    BY <2>4
  <2>6. s.flight.intent # j
    BY <2>5 DEF a2, Once
  <2>. QED
    BY <2>5, <2>6 DEF a1, a3, a5, a7
<1>2. ASSUME NEW q \in Seq(Intents), \A j \in Intents : j \notin Known(s) => Tally(q, {j}) = 0
      PROVE  All(q, Known(s))
  <2>. SUFFICES ASSUME NEW k \in DOMAIN q, q[k] \notin Known(s) PROVE FALSE
    BY DEF All
  <2>1. q[k] \in Intents
    BY LenProperties, ElementOfSeq
  <2>2. Tally(q, {q[k]}) = 0
    BY <1>2, <2>1
  <2>3. \A m \in DOMAIN q : q[m] \notin {q[k]}
    BY <2>2, TallyFinite
  <2>. QED
    BY <2>3
<1>3. \A j \in Intents : Tally(Names(s.waiting), {j}) = Tally(s.waiting, Of(j))
  BY <1>0, WaitingNames
<1>4. All(s.queue, Known(s)) /\ All(s.steers, Known(s)) /\ All(h, Known(s))
  BY <1>0, <1>1, <1>2
<1>5. All(Names(s.waiting), Known(s))
  BY <1>0, <1>1, <1>2, <1>3
<1>6. All(AtGate(s), Known(s))
  BY <1>0, <1>1, AllSmall DEF AtGate
<1>. QED
  BY <1>4, <1>5, <1>6

LEMMA MakeVoiced ==
  ASSUME NEW s, NEW t, NEW d, t.line = s.line, t.arrived = s.arrived,
         Row(InOrder(s), Names(t.said), t.steers, t.queue, d, Names(t.waiting)),
         All(Names(t.said), Voices(s)), All(t.steers, Voices(s)), All(t.waiting, Post(s)),
         t.flight.intent # None /\ t.flight.kind = "deliver" => t.flight.intent \in ProseOf(s),
         ~t.model => All(t.queue, Loud(s)) /\ All(t.steers, Loud(s))
  PROVE  Voiced(t, d)
<1>1. /\ InOrder(t) = InOrder(s) /\ Loud(t) = Loud(s) /\ Voices(t) = Voices(s)
      /\ Post(t) = Post(s) /\ ProseOf(t) = ProseOf(s)
  BY Heard
<1>2. LinedUp(t, d)
  BY <1>1 DEF LinedUp
<1>3. Spoken(t)
  BY <1>1 DEF Spoken
<1>. QED
  BY <1>2, <1>3 DEF Voiced

LEMMA AckAllVoiced ==
  ASSUME NEW s \in Actor, NEW is, NEW o \in Fate, NEW d, Voiced(s, d)
  PROVE  Voiced(AckAll(s, is, o), d)
BY AckAllSame, SameVoiced DEF Same

LEMMA AckVoiced ==
  ASSUME NEW s \in Actor, NEW i \in Intents, NEW o \in Fate, NEW d, Voiced(s, d)
  PROVE  Voiced(Ack(s, i, o), d)
BY AckSame, AckAllVoiced

\* The line in hand is dropped.
LEMMA DropVoiced ==
  ASSUME NEW s, NEW d, Voiced(s, d)
  PROVE  Voiced(s, <<>>)
BY RowDrop DEF Voiced, LinedUp

LEMMA EnqueueVoiced ==
  ASSUME NEW s \in Actor, NEW i \in Intents, Voiced(s, <<i>>), s.model \/ i \in Loud(s)
  PROVE  Voiced(Enqueue(s, i), <<>>)
<1>. DEFINE q == Append(s.queue, i)
            a == [s EXCEPT !.queue = q]
            R == InOrder(s)
            A == Names(s.said)
            E == Names(s.waiting)
<1>1. A \in Seq(Intents) /\ s.steers \in Seq(Intents) /\ s.queue \in Seq(Intents) /\ E \in Seq(Intents)
  BY RowTypes
<1>2. q \in Seq(Intents) /\ q = s.queue \o <<i>> /\ <<i>> \in Seq(Intents)
  BY <1>1, AppendProperties, AppendIsConcat
<1>3. Enqueue(s, i) = Ack(a, i, "queued")
  BY DEF Enqueue
<1>4. Row(R, A, s.steers, s.queue, <<i>>, E)
  BY DEF Voiced, LinedUp
<1>. HIDE DEF R, A, E
<1>5. Row(R, A, s.steers, s.queue \o <<i>>, <<>>, E)
  BY <1>1, <1>4, RowJoin
<1>6. ~s.model => All(q, Loud(s))
  <2>1. ~s.model => All(s.queue, Loud(s)) /\ All(<<i>>, Loud(s))
    BY AllSmall DEF Voiced, Spoken
  <2>. QED
    BY <1>1, <1>2, <2>1, AllConcat
<1>7. Row(R, A, s.steers, q, <<>>, E)
  BY <1>2, <1>5
<1>. HIDE DEF q
<1>8. /\ a \in Actor /\ a.line = s.line /\ a.arrived = s.arrived /\ a.model = s.model
      /\ a.said = s.said /\ a.steers = s.steers /\ a.queue = q /\ a.waiting = s.waiting
      /\ a.flight = s.flight
  BY <1>2 DEF Actor
<1>. HIDE DEF a
<1>9. Voiced(a, <<>>)
  BY <1>6, <1>7, <1>8, MakeVoiced DEF Voiced, Spoken, R, A, E
<1>. QED
  BY <1>3, <1>8, <1>9, AckVoiced DEF Fate

LEMMA LogInputVoiced ==
  ASSUME NEW s \in Actor, NEW i \in Intents, Voiced(s, <<i>>), ~s.model, i \in Voices(s)
  PROVE  Voiced(LogInput(s, i), <<>>)
<1>. DEFINE w == [intent |-> i, turn |-> 0]
            q == Append(s.said, w)
            a == [s EXCEPT !.said = q]
            R == InOrder(s)
            A == Names(s.said)
            E == Names(s.waiting)
<1>0. A \in Seq(Intents) /\ s.steers \in Seq(Intents) /\ s.queue \in Seq(Intents) /\ E \in Seq(Intents)
      /\ s.said \in Seq(Said) /\ \A x \in Said : x.intent \in Intents
  BY RowTypes
<1>1. w \in Said /\ w.intent = i
  BY DEF Said
<1>2. LogInput(s, i) = Ack(a, i, "applied")
  BY DEF LogInput
<1>. HIDE DEF w
<1>3. q \in Seq(Said) /\ q = s.said \o <<w>> /\ <<w>> \in Seq(Said) /\ <<i>> \in Seq(Intents)
  <2>1. q \in Seq(Said)
    BY <1>0, <1>1, AppendProperties
  <2>2. q = s.said \o <<w>>
    BY <1>0, <1>1, AppendIsConcat
  <2>. QED
    BY <1>1, <2>1, <2>2
<1>4. Names(q) = A \o <<i>>
  BY <1>0, <1>1, <1>3, NamesConcat, NamesSmall
<1>5. Row(R, A, s.steers, s.queue, <<i>>, E)
  BY DEF Voiced, LinedUp
<1>6. Prec(R, <<i>>, s.steers) /\ Prec(R, <<i>>, s.queue)
  BY <1>0, LoudAnywhere DEF Voiced, Spoken
<1>7. All(A, Voices(s)) /\ All(<<i>>, Voices(s))
  BY AllSmall DEF Voiced, Spoken
<1>. HIDE DEF R, A, E
<1>8. Row(R, A \o <<i>>, s.steers, s.queue, <<>>, E)
  BY <1>0, <1>5, <1>6, RowJoin
<1>9. All(A \o <<i>>, Voices(s))
  BY <1>0, <1>3, <1>7, AllConcat
<1>. HIDE DEF q
<1>10. /\ a \in Actor /\ a.line = s.line /\ a.arrived = s.arrived /\ a.model = s.model
       /\ a.said = q /\ a.steers = s.steers /\ a.queue = s.queue /\ a.waiting = s.waiting
       /\ a.flight = s.flight
  BY <1>3 DEF Actor
<1>. HIDE DEF a
<1>11. Row(R, Names(a.said), a.steers, a.queue, <<>>, Names(a.waiting)) /\ All(Names(a.said), Voices(s))
  BY <1>4, <1>8, <1>9, <1>10 DEF E
<1>12. Voiced(a, <<>>)
  BY <1>10, <1>11, MakeVoiced DEF Voiced, Spoken, R
<1>. QED
  BY <1>2, <1>10, <1>12, AckVoiced DEF Fate

\* A turn says its inputs.
LEMMA StartTurnVoiced ==
  ASSUME NEW s \in Actor, NEW x \in Seq(Intents), NEW d, Spoken(s), All(x, Voices(s)),
         Row(InOrder(s), Names(s.said) \o x, s.steers, s.queue, d, Names(s.waiting))
  PROVE  Voiced(StartTurn(s, x), d)
<1>. DEFINE turn == s.turns + 1
            items == UserItems(x, turn)
            said == s.said \o items
            a == [s EXCEPT !.turns = turn, !.running = turn,
                           !.ended = FALSE, !.stop = FALSE, !.said = said]
<1>0. Names(s.said) \in Seq(Intents) /\ s.said \in Seq(Said) /\ \A w \in Said : w.intent \in Intents
  BY RowTypes
<1>1. turn \in Nat
  BY DEF Actor
<1>2. StartTurn(s, x) = AckAll(a, SeqRange(x), "started")
  BY DEF StartTurn
<1>. HIDE DEF turn
<1>3. items \in Seq(Said) /\ Names(items) = x
  BY <1>1, NamesItems
<1>. HIDE DEF items
<1>4. said \in Seq(Said) /\ Names(said) = Names(s.said) \o x
  BY <1>0, <1>3, NamesConcat, ConcatProperties
<1>5. All(Names(s.said) \o x, Voices(s))
  BY <1>0, AllConcat DEF Spoken
<1>. HIDE DEF said
<1>6. /\ a \in Actor /\ a.line = s.line /\ a.arrived = s.arrived /\ a.model = s.model
      /\ a.said = said /\ a.steers = s.steers /\ a.queue = s.queue /\ a.waiting = s.waiting
      /\ a.flight = s.flight
  BY <1>1, <1>4 DEF Actor
<1>. HIDE DEF a
<1>7. Row(InOrder(s), Names(a.said), a.steers, a.queue, d, Names(a.waiting))
      /\ All(Names(a.said), Voices(s))
  BY <1>4, <1>5, <1>6
<1>8. Voiced(a, d)
  BY <1>6, <1>7, MakeVoiced DEF Spoken
<1>. QED
  BY <1>2, <1>6, <1>8, AckAllVoiced DEF Fate

LEMMA TakesAll ==
  ASSUME NEW q \in Seq(Intents), NEW keep
  PROVE  /\ All(Taken(q, keep), keep)
         /\ All(q, keep) => Taken(q, keep) = q /\ Left(q, keep) = <<>>
<1>. DEFINE n == RunLength(q, keep)
<1>1. /\ n \in 0..Len(q) /\ Len(q) \in Nat /\ \A k \in 1..n : q[k] \in keep
      /\ n < Len(q) => q[n + 1] \notin keep
  BY RunLengthExists, LenProperties
<1>2. Taken(q, keep) = SubSeq(q, 1, n) /\ Left(q, keep) = SubSeq(q, n + 1, Len(q))
  BY DEF Taken, Left
<1>. HIDE DEF n
<1>3. DOMAIN q = 1..Len(q)
  BY LenProperties
<1>4. All(Taken(q, keep), keep)
  <2>1. /\ DOMAIN SubSeq(q, 1, n) = 1..n
        /\ \A k \in 1..n : SubSeq(q, 1, n)[k] = q[k]
    BY <1>1
  <2>. QED
    BY <1>1, <1>2, <2>1 DEF All
<1>5. ASSUME All(q, keep)
      PROVE  Taken(q, keep) = q /\ Left(q, keep) = <<>>
  <2>1. ~(n < Len(q))
    <3>. SUFFICES ASSUME n < Len(q) PROVE FALSE
      OBVIOUS
    <3>1. n + 1 \in DOMAIN q
      BY <1>1, <1>3
    <3>. QED
      BY <1>1, <1>5, <3>1 DEF All
  <2>2. n = Len(q)
    BY <1>1, <2>1
  <2>3. SubSeq(q, 1, Len(q)) = q
    BY SubSeqFull
  <2>4. SubSeq(q, Len(q) + 1, Len(q)) = <<>>
    BY <1>1, SubSeqEmpty
  <2>. QED
    BY <1>2, <2>2, <2>3, <2>4
<1>. QED
  BY <1>4, <1>5

\* While no turn runs no barrier's reply is on its way.
Quiet(s) == s.running = 0 => s.steers = <<>>

LEMMA BarredQuiet ==
  ASSUME NEW s \in Actor, Barred(s), ~s.closed
  PROVE  Quiet(s)
BY DEF Barred, Quiet

LEMMA GoesQuiet ==
  ASSUME NEW s, NEW t, Goes(s, t), Quiet(s)
  PROVE  Quiet(t)
BY DEF Goes, Quiet

LEMMA HeldThenVoiced ==
  ASSUME NEW s \in Actor, NEW i \in Intents, Voiced(s, <<i>>), Placed(s, <<i>>),
         ~Ready(s), s.steers = <<>>, i \in Voices(s)
  PROVE  Voiced(HeldThen(s, i), <<>>)
<1>. DEFINE q == s.queue
            A == Names(s.said)
            E == Names(s.waiting)
            R == InOrder(s)
            T == Taken(s.queue, ProseOf(s))
            a == [s EXCEPT !.queue = Left(@, ProseOf(s))]
<1>0. A \in Seq(Intents) /\ q \in Seq(Intents) /\ E \in Seq(Intents) /\ <<i>> \in Seq(Intents)
  BY RowTypes
<1>1. \A k \in DOMAIN q : q[k] \in Intents
  BY <1>0, LenProperties, ElementOfSeq
<1>2. All(q, ProseOf(s))
  BY <1>1 DEF All, Ready, IsHeld, ProseOf, IsCommand
<1>3. T = q /\ Left(q, ProseOf(s)) = <<>>
  BY <1>0, <1>2, TakesAll
<1>4. All(q, Known(s))
  BY <1>0, PlacedKnown
<1>5. All(q, Voices(s))
  BY <1>2, <1>4 DEF All, ProseOf, IsCommand, Known, Voices
<1>6. HeldThen(s, i) = StartTurn(a, Append(q, i))
  BY <1>3 DEF HeldThen
<1>7. Append(q, i) = q \o <<i>> /\ q \o <<i>> \in Seq(Intents)
  BY <1>0, AppendIsConcat, ConcatProperties
<1>8. All(q \o <<i>>, Voices(s))
  BY <1>0, <1>5, AllConcat, AllSmall
<1>9. Row(R, A, <<>>, q, <<i>>, E)
  BY DEF Voiced, LinedUp
<1>. HIDE DEF R, A, E, q
<1>10. Row(R, A \o (q \o <<i>>), <<>>, <<>>, <<>>, E)
  BY <1>0, <1>9, RowJoin, EmptySeq
<1>11. /\ a \in Actor /\ a.line = s.line /\ a.arrived = s.arrived /\ a.model = s.model
       /\ a.said = s.said /\ a.steers = s.steers /\ a.queue = <<>> /\ a.waiting = s.waiting
       /\ a.flight = s.flight
  BY <1>3, EmptySeq DEF Actor, q
<1>. HIDE DEF a
<1>12. InOrder(a) = R /\ Voices(a) = Voices(s) /\ Post(a) = Post(s) /\ Loud(a) = Loud(s)
       /\ ProseOf(a) = ProseOf(s)
  BY <1>11, Heard DEF R
<1>13. Spoken(a)
  BY <1>11, <1>12, AllSmall DEF Voiced, Spoken
<1>14. Row(InOrder(a), Names(a.said) \o (q \o <<i>>), a.steers, a.queue, <<>>, Names(a.waiting))
  BY <1>10, <1>11, <1>12 DEF A, E
<1>15. Voiced(StartTurn(a, q \o <<i>>), <<>>)
  BY <1>7, <1>8, <1>11, <1>12, <1>13, <1>14, StartTurnVoiced
<1>. QED
  BY <1>6, <1>7, <1>15

LEMMA NamesFirst ==
  ASSUME NEW w \in Waiting, NEW r \in Seq(Waiting)
  PROVE  /\ <<w>> \o r \in Seq(Waiting) /\ Names(r) \in Seq(Intents)
         /\ Names(<<w>> \o r) = <<w.intent>> \o Names(r)
<1>1. \A y \in Waiting : y.intent \in Intents
  BY DEF Waiting
<1>. DEFINE p == <<w>>
<1>2. p \in Seq(Waiting) /\ Names(p) = <<w.intent>>
  BY NamesSmall
<1>. HIDE DEF p
<1>3. p \o r \in Seq(Waiting) /\ Names(p \o r) = Names(p) \o Names(r)
  BY <1>1, <1>2, NamesConcat, ConcatProperties
<1>4. Names(r) \in Seq(Intents)
  BY <1>1, NamesIs
<1>. QED
  BY <1>2, <1>3, <1>4 DEF p

LEMMA NamesLast ==
  ASSUME NEW w \in Waiting, NEW r \in Seq(Waiting)
  PROVE  /\ r \o <<w>> \in Seq(Waiting)
         /\ Names(r \o <<w>>) = Names(r) \o <<w.intent>>
<1>1. \A y \in Waiting : y.intent \in Intents
  BY DEF Waiting
<1>. DEFINE p == <<w>>
<1>2. p \in Seq(Waiting) /\ Names(p) = <<w.intent>>
  BY NamesSmall
<1>. HIDE DEF p
<1>3. r \o p \in Seq(Waiting) /\ Names(r \o p) = Names(r) \o Names(p)
  BY <1>1, <1>2, NamesConcat, ConcatProperties
<1>. QED
  BY <1>2, <1>3 DEF p

\* An actor whose gate is where the row says it is.
Ordered(s) == Voiced(s, AtGate(s))

LEMMA StartGateVoiced ==
  ASSUME NEW s \in Actor, Ordered(s)
  PROVE  Ordered(StartGate(s))
<1>1. CASE s.flight.intent # None \/ s.closing \/ s.closed \/ s.waiting = <<>>
  BY <1>1 DEF StartGate
<1>2. CASE ~(s.flight.intent # None \/ s.closing \/ s.closed \/ s.waiting = <<>>)
  <2>. DEFINE w == Head(s.waiting)
              r == Tail(s.waiting)
              f == [intent |-> w.intent, kind |-> w.kind, cut |-> FALSE]
              a == [s EXCEPT !.waiting = r, !.flight = f]
              A == Names(s.said)
              x == w.intent
  <2>0. A \in Seq(Intents) /\ s.steers \in Seq(Intents) /\ s.queue \in Seq(Intents)
        /\ s.waiting \in Seq(Waiting) /\ \A y \in Waiting : y.intent \in Intents
    BY RowTypes
  <2>1. s.waiting = <<w>> \o r /\ w \in Waiting /\ r \in Seq(Waiting)
    BY <1>2, <2>0, HeadThenTail
  <2>2. StartGate(s) = a
    BY <1>2 DEF StartGate
  <2>3. Row(InOrder(s), A, s.steers, s.queue, <<>>, Names(s.waiting))
    BY <1>2 DEF Ordered, Voiced, LinedUp, AtGate
  <2>. HIDE DEF w, r, A
  <2>4. x \in Intents /\ <<w>> \in Seq(Waiting) /\ x # None
    BY <2>0, <2>1, ConstantsAssumption
  <2>5. Names(r) \in Seq(Intents) /\ Names(s.waiting) = <<x>> \o Names(r)
    BY <2>1, NamesFirst
  <2>6. Row(InOrder(s), A, s.steers, s.queue, <<x>>, Names(r))
    <3>. DEFINE R == InOrder(s)
                E == Names(r)
    <3>1. Row(R, A, s.steers, s.queue, <<>>, <<x>> \o E) /\ E \in Seq(Intents)
      BY <2>3, <2>5
    <3>. HIDE DEF R, E, x
    <3>2. Row(R, A, s.steers, s.queue, <<x>>, E)
      BY <2>0, <2>4, <3>1, RowJoin, EmptySeq
    <3>. QED
      BY <3>2 DEF R, E
  <2>7. All(<<w>>, Post(s)) /\ All(r, Post(s))
    <3>1. All(<<w>> \o r, Post(s))
      BY <2>1 DEF Ordered, Voiced, Spoken
    <3>. QED
      BY <2>1, <2>4, <3>1, AllConcat
  <2>8. w \in Post(s)
    BY <2>7, AllSmall
  <2>9. /\ a.line = s.line /\ a.arrived = s.arrived /\ a.model = s.model
        /\ a.said = s.said /\ a.steers = s.steers /\ a.queue = s.queue /\ a.waiting = r
        /\ a.flight.intent = x /\ a.flight.kind = w.kind
    BY DEF Actor
  <2>. HIDE DEF a, x
  <2>10. AtGate(a) = <<x>>
    BY <2>4, <2>9 DEF AtGate
  <2>11. a.flight.kind = "deliver" => a.flight.intent \in ProseOf(s)
    BY <2>8, <2>9 DEF Post, x
  <2>12. Voiced(a, <<x>>)
    BY <2>6, <2>7, <2>9, <2>11, MakeVoiced DEF Ordered, Voiced, Spoken, A
  <2>. QED
    BY <2>2, <2>10, <2>12 DEF Ordered
<1>. QED
  BY <1>1, <1>2

\* An input joins the gate behind all the others, or ahead of those that
\* wait when no order is asked of it.
LEMMA GateInputVoiced ==
  ASSUME NEW s \in Actor, NEW i \in Intents, NEW kind \in GateKinds, Ordered(s),
         kind = "deliver" => i \in ProseOf(s),
         \/ kind \in {"queued", "prose"} /\ i \in Loud(s)
         \/ /\ kind \notin {"queued", "prose"}
            /\ Behind(InOrder(s), Names(s.said), s.steers, s.queue, AtGate(s), Names(s.waiting), i)
  PROVE  Ordered(GateInput(s, i, kind))
<1>. DEFINE w == [intent |-> i, kind |-> kind]
            ws == IF kind \in {"queued", "prose"} THEN <<w>> \o s.waiting
                  ELSE Append(s.waiting, w)
            a == [s EXCEPT !.waiting = ws]
            R == InOrder(s)
            A == Names(s.said)
            E == Names(s.waiting)
            D == AtGate(s)
<1>0. A \in Seq(Intents) /\ s.steers \in Seq(Intents) /\ s.queue \in Seq(Intents)
      /\ E \in Seq(Intents) /\ D \in Seq(Intents)
      /\ s.waiting \in Seq(Waiting) /\ \A y \in Waiting : y.intent \in Intents
  BY RowTypes
<1>1. w \in Waiting /\ w.intent = i /\ w \in Post(s)
  BY DEF Waiting, Post
<1>2. GateInput(s, i, kind) = StartGate(a)
  BY DEF GateInput
<1>3. Row(R, A, s.steers, s.queue, D, E)
  BY DEF Ordered, Voiced, LinedUp
<1>4. i \in Loud(s) => Behind(R, A, s.steers, s.queue, D, E, i) /\ Prec(R, <<i>>, E)
  <2>. SUFFICES ASSUME i \in Loud(s)
                PROVE  Behind(R, A, s.steers, s.queue, D, E, i) /\ Prec(R, <<i>>, E)
    OBVIOUS
  <2>1. \A q \in Seq(Intents) : Prec(R, <<i>>, q) /\ Prec(R, q, <<i>>)
    BY LoudAnywhere
  <2>. HIDE DEF R, A, D, E
  <2>. QED
    BY <1>0, <2>1 DEF Behind
<1>5. All(s.waiting, Post(s)) /\ All(<<w>>, Post(s))
  BY <1>1, AllSmall DEF Ordered, Voiced, Spoken
<1>. HIDE DEF w
<1>6. <<w>> \in Seq(Waiting) /\ Append(s.waiting, w) = s.waiting \o <<w>>
  <2>1. Append(s.waiting, w) = s.waiting \o <<w>>
    BY <1>0, <1>1, AppendIsConcat
  <2>. QED
    BY <1>1, <2>1
<1>7. CASE kind \in {"queued", "prose"} /\ i \in Loud(s)
  <2>1. ws = <<w>> \o s.waiting
    BY <1>7
  <2>2. ws \in Seq(Waiting) /\ Names(ws) = <<i>> \o E
    BY <1>0, <1>1, <2>1, NamesFirst
  <2>3. All(ws, Post(s))
    BY <1>0, <1>5, <1>6, <2>1, AllConcat
  <2>. HIDE DEF R, A, D, E
  <2>4. Row(R, A, s.steers, s.queue, D, <<i>> \o E)
    BY <1>0, <1>3, <1>4, <1>7, RowJoin
  <2>. HIDE DEF ws
  <2>5. Row(R, A, s.steers, s.queue, D, Names(ws))
    BY <2>2, <2>4
  <2>6. /\ a \in Actor /\ a.line = s.line /\ a.arrived = s.arrived /\ a.model = s.model
        /\ a.said = s.said /\ a.steers = s.steers /\ a.queue = s.queue /\ a.waiting = ws
        /\ a.flight = s.flight
    BY <2>2 DEF Actor
  <2>. HIDE DEF a
  <2>7. Voiced(a, D)
    BY <2>3, <2>5, <2>6, MakeVoiced DEF Ordered, Voiced, Spoken, R, A
  <2>8. AtGate(a) = D
    BY <2>6 DEF AtGate, D
  <2>. QED
    BY <1>2, <2>6, <2>7, <2>8, StartGateVoiced DEF Ordered
<1>8. CASE /\ kind \notin {"queued", "prose"}
           /\ Behind(R, A, s.steers, s.queue, D, E, i)
  <2>1. ws = s.waiting \o <<w>>
    BY <1>6, <1>8
  <2>2. ws \in Seq(Waiting) /\ Names(ws) = E \o <<i>>
    BY <1>0, <1>1, <2>1, NamesLast
  <2>3. All(ws, Post(s))
    BY <1>0, <1>5, <1>6, <2>1, AllConcat
  <2>. HIDE DEF R, A, D, E
  <2>4. Row(R, A, s.steers, s.queue, D, E \o <<i>>)
    BY <1>0, <1>3, <1>8, RowJoin
  <2>. HIDE DEF ws
  <2>5. Row(R, A, s.steers, s.queue, D, Names(ws))
    BY <2>2, <2>4
  <2>6. /\ a \in Actor /\ a.line = s.line /\ a.arrived = s.arrived /\ a.model = s.model
        /\ a.said = s.said /\ a.steers = s.steers /\ a.queue = s.queue /\ a.waiting = ws
        /\ a.flight = s.flight
    BY <2>2 DEF Actor
  <2>. HIDE DEF a
  <2>7. Voiced(a, D)
    BY <2>3, <2>5, <2>6, MakeVoiced DEF Ordered, Voiced, Spoken, R, A
  <2>8. AtGate(a) = D
    BY <2>6 DEF AtGate, D
  <2>. QED
    BY <1>2, <2>6, <2>7, <2>8, StartGateVoiced DEF Ordered
<1>. QED
  BY <1>7, <1>8

LEMMA DrainQueueVoiced ==
  ASSUME NEW s \in Actor, Ordered(s), Placed(s, <<>>), Quiet(s)
  PROVE  Ordered(DrainQueue(s))
<1>1. CASE Busy(s) \/ GateBusy(s) \/ s.queue = <<>>
  BY <1>1 DEF DrainQueue
<1>2. CASE ~(Busy(s) \/ GateBusy(s) \/ s.queue = <<>>)
  <2>. DEFINE R == InOrder(s)
              A == Names(s.said)
              E == Names(s.waiting)
  <2>0. A \in Seq(Intents) /\ s.queue \in Seq(Intents) /\ E \in Seq(Intents) /\ s.queue # <<>>
        /\ <<>> \in Seq(Intents)
    BY <1>2, RowTypes
  <2>1. AtGate(s) = <<>> /\ s.steers = <<>> /\ s.flight.intent = None
    BY <1>2 DEF GateBusy, AtGate, Busy, Quiet
  <2>2. Row(R, A, <<>>, s.queue, <<>>, E)
    BY <2>1 DEF Ordered, Voiced, LinedUp
  <2>3. CASE IsCommand(s, Head(s.queue))
    <3>. DEFINE x == Head(s.queue)
                r == Tail(s.queue)
                a == [s EXCEPT !.queue = r]
    <3>1. s.queue = <<x>> \o r /\ x \in Intents /\ r \in Seq(Intents)
      BY <2>0, HeadThenTail
    <3>2. DrainQueue(s) = GateInput(a, x, "queued")
      BY <1>2, <2>3 DEF DrainQueue
    <3>3. x \in Loud(s)
      BY <2>3, <3>1 DEF IsCommand, Loud, Plain
    <3>4. Row(R, A, <<>>, <<x>> \o r, <<>>, E)
      BY <2>2, <3>1
    <3>5. ~s.model => All(<<x>> \o r, Loud(s))
      BY <3>1 DEF Ordered, Voiced, Spoken
    <3>. HIDE DEF x, r, R, A, E
    <3>6. Row(R, A, <<>>, r, <<>>, E)
      BY <2>0, <3>1, <3>4, RowJoin
    <3>7. ~s.model => All(r, Loud(s))
      <4>1. <<x>> \in Seq(Intents)
        BY <3>1
      <4>. QED
        BY <3>1, <3>5, <4>1, AllConcat
    <3>8. /\ a \in Actor /\ a.line = s.line /\ a.arrived = s.arrived /\ a.model = s.model
          /\ a.said = s.said /\ a.steers = s.steers /\ a.queue = r /\ a.waiting = s.waiting
          /\ a.flight = s.flight
      BY <3>1 DEF Actor
    <3>. HIDE DEF a
    <3>9. Voiced(a, <<>>)
      BY <2>1, <3>6, <3>7, <3>8, MakeVoiced DEF Ordered, Voiced, Spoken, R, A, E
    <3>10. AtGate(a) = <<>> /\ Loud(a) = Loud(s)
      BY <2>1, <3>8, Heard DEF AtGate
    <3>. QED
      BY <3>1, <3>2, <3>3, <3>8, <3>9, <3>10, GateInputVoiced DEF Ordered, GateKinds
  <2>4. CASE ~IsCommand(s, Head(s.queue))
    <3>. DEFINE T == Taken(s.queue, ProseOf(s))
                L == Left(s.queue, ProseOf(s))
                a == [s EXCEPT !.queue = L]
    <3>1. T \in Seq(Intents) /\ L \in Seq(Intents) /\ s.queue = T \o L
      BY <2>0, TakenLeftType, TakenThenLeft
    <3>2. DrainQueue(s) = StartTurn(a, T)
      BY <1>2, <2>4 DEF DrainQueue
    <3>3. All(T, ProseOf(s))
      BY <2>0, TakesAll
    <3>4. All(s.queue, Known(s))
      BY <2>0, PlacedKnown
    <3>5. Row(R, A, <<>>, T \o L, <<>>, E)
      BY <2>2, <3>1
    <3>6. ~s.model => All(T \o L, Loud(s))
      BY <3>1 DEF Ordered, Voiced, Spoken
    <3>. HIDE DEF T, L, R, A, E
    <3>7. All(T \o L, Known(s))
      BY <3>1, <3>4
    <3>8. All(T, Known(s)) /\ (~s.model => All(L, Loud(s)))
      BY <3>1, <3>6, <3>7, AllConcat
    <3>9. All(T, Voices(s))
      BY <3>3, <3>8 DEF All, ProseOf, IsCommand, Known, Voices
    <3>10. Row(R, A \o T, <<>>, L, <<>>, E)
      BY <2>0, <3>1, <3>5, RowSay
    <3>11. /\ a \in Actor /\ a.line = s.line /\ a.arrived = s.arrived /\ a.model = s.model
           /\ a.said = s.said /\ a.steers = s.steers /\ a.queue = L /\ a.waiting = s.waiting
           /\ a.flight = s.flight
      BY <3>1 DEF Actor
    <3>. HIDE DEF a
    <3>12. InOrder(a) = R /\ Voices(a) = Voices(s) /\ Post(a) = Post(s) /\ Loud(a) = Loud(s)
           /\ ProseOf(a) = ProseOf(s)
      BY <3>11, Heard DEF R
    <3>13. Spoken(a)
      BY <2>1, <3>8, <3>11, <3>12, AllSmall DEF Ordered, Voiced, Spoken
    <3>14. Row(InOrder(a), Names(a.said) \o T, a.steers, a.queue, <<>>, Names(a.waiting))
      BY <2>1, <3>10, <3>11, <3>12 DEF A, E
    <3>15. Voiced(StartTurn(a, T), <<>>)
      BY <3>1, <3>9, <3>11, <3>12, <3>13, <3>14, StartTurnVoiced
    <3>16. AtGate(StartTurn(a, T)) = <<>>
      BY <2>1, <3>11 DEF StartTurn, AckAll, AtGate, Actor
    <3>. QED
      BY <3>2, <3>15, <3>16 DEF Ordered
  <2>. QED
    BY <2>3, <2>4
<1>. QED
  BY <1>1, <1>2

\* No method but the gate's own puts a line in flight there.
Idle(s) == s.flight.intent = None

LEMMA ApplyGateIdle ==
  ASSUME NEW s \in Actor, NEW i \in Intents, NEW kind, NEW verdict, Idle(s)
  PROVE  Idle(ApplyGate(s, i, kind, verdict)) /\ Idle(DeliverReady(s, i))
<1>1. \A t \in Actor, o \in Fate : Idle(t) => Idle(Ack(t, i, o))
  BY DEF Idle, Ack, Actor
<1>2. Idle(Ack(s, i, "rejected")) /\ Idle(Ack(s, i, "applied"))
  BY <1>1 DEF Fate
<1>3. Idle(LogInput(s, i)) /\ Idle(Enqueue(s, i)) /\ Idle(HeldThen(s, i))
  BY DEF Idle, LogInput, Enqueue, HeldThen, StartTurn, AckAll, Ack, Actor
<1>4. \A instant : Idle(RunCommand(s, i, instant))
  BY DEF Idle, RunCommand, Actor
<1>5. Idle(SubmitProse(s, i)) /\ Idle(DeliverReady(s, i))
  BY <1>2, <1>3 DEF SubmitProse, DeliverReady
<1>6. \A queued, instant : Idle(SubmitCommand(s, i, queued, instant))
  BY <1>3, <1>4 DEF SubmitCommand
<1>. QED
  BY <1>2, <1>5, <1>6 DEF ApplyGate

LEMMA SubmitProseVoiced ==
  ASSUME NEW s \in Actor, NEW i \in Intents, Voiced(s, <<i>>), Placed(s, <<i>>), Quiet(s),
         i \in Voices(s)
  PROVE  Voiced(SubmitProse(s, i), <<>>) /\ Voiced(DeliverReady(s, i), <<>>)
<1>1. ~Busy(s) => s.steers = <<>>
  BY DEF Busy, Quiet
<1>2. ~s.model => Voiced(LogInput(s, i), <<>>)
  BY LogInputVoiced
<1>3. s.model => Voiced(Enqueue(s, i), <<>>)
  BY EnqueueVoiced
<1>4. ~Busy(s) /\ ~Ready(s) => Voiced(HeldThen(s, i), <<>>)
  BY <1>1, HeldThenVoiced
<1>5. Voiced(Ack(s, i, "rejected"), <<>>)
  BY AckVoiced, DropVoiced DEF Fate
<1>. QED
  BY <1>2, <1>3, <1>4, <1>5 DEF SubmitProse, DeliverReady

LEMMA SubmitCommandVoiced ==
  ASSUME NEW s \in Actor, NEW i \in Intents, Voiced(s, <<i>>), i \in Loud(s),
         NEW queued, NEW instant
  PROVE  Voiced(SubmitCommand(s, i, queued, instant), <<>>)
<1>1. Voiced(Enqueue(s, i), <<>>)
  BY EnqueueVoiced
<1>2. Voiced(RunCommand(s, i, instant), <<i>>)
  <2>. DEFINE t == RunCommand(s, i, instant)
  <2>1. /\ t.line = s.line /\ t.arrived = s.arrived /\ t.model = s.model /\ t.said = s.said
        /\ t.steers = s.steers /\ t.queue = s.queue /\ t.waiting = s.waiting /\ t.flight = s.flight
    BY DEF RunCommand, Actor
  <2>. HIDE DEF t
  <2>2. Voiced(t, <<i>>)
    BY <2>1, SameVoiced
  <2>. QED
    BY <2>2 DEF t
<1>. QED
  BY <1>1, <1>2, DropVoiced DEF SubmitCommand

LEMMA ApplyGateVoiced ==
  ASSUME NEW s \in Actor, NEW i \in Intents, NEW kind, NEW verdict,
         Voiced(s, <<i>>), Placed(s, <<i>>), Quiet(s), verdict \in Verdicts(s, i, kind),
         kind = "deliver" => i \in ProseOf(s)
  PROVE  Voiced(ApplyGate(s, i, kind, verdict), <<>>)
<1>0. i \in Known(s)
  BY HandKnown DEF Known
<1>1. Voiced(Ack(s, i, "rejected"), <<>>) /\ Voiced(Ack(s, i, "applied"), <<>>)
  BY AckVoiced, DropVoiced DEF Fate
<1>2. verdict \in {"prose", "delivered"} => i \in Voices(s)
  BY <1>0 DEF Verdicts, IsCommand, ProseOf, Voices, Known
<1>3. verdict \in {"instant", "holds"} => i \in Loud(s)
  BY DEF Verdicts, IsCommand, Loud, Plain
<1>4. verdict \in {"rejected", "redirected", "prose", "delivered", "instant", "holds"}
  BY DEF Verdicts
<1>. QED
  BY <1>1, <1>2, <1>3, <1>4, SubmitProseVoiced, SubmitCommandVoiced DEF ApplyGate

\* What is sent under a fresh intent arrives behind everything.
LEMMA SentVoiced ==
  ASSUME TypeOK, Housed(actor), Ordered(actor), NEW i \in Intents, NEW kind \in LineKinds,
         actor.line[i] = "unsent", i \notin SeqRange(actor.arrived)
  PROVE  /\ Ordered(Sent(i, kind))
         /\ Behind(InOrder(Sent(i, kind)), Names(Sent(i, kind).said), Sent(i, kind).steers,
                   Sent(i, kind).queue, AtGate(Sent(i, kind)), Names(Sent(i, kind).waiting), i)
         /\ Sent(i, kind).line[i] = kind
<1>. DEFINE s == actor
            t == Sent(i, kind)
            K == Known(s)
            q == Append(s.arrived, i)
            A == Names(s.said)
            E == Names(s.waiting)
            D == AtGate(s)
<1>0. s \in Actor /\ s.arrived \in Seq(Intents) /\ <<>> \in Seq(Intents)
      /\ s.line \in [Intents -> LineKinds \cup {"unsent"}] /\ Placed(s, <<>>) /\ Arrivals(s)
      /\ Voiced(s, D)
  BY DEF TypeOK, Actor, Housed, Ordered
<1>1. /\ t.waiting = s.waiting /\ t.flight = s.flight /\ t.queue = s.queue
      /\ t.steers = s.steers /\ t.said = s.said /\ t.model = s.model
      /\ t.line = [s.line EXCEPT ![i] = kind] /\ t.arrived = q
  BY <1>0 DEF Sent, Actor
<1>2. /\ q \in Seq(Intents) /\ Len(s.arrived) \in Nat
      /\ DOMAIN s.arrived = 1..Len(s.arrived) /\ DOMAIN q = 1..(Len(s.arrived) + 1)
      /\ \A k \in 1..Len(s.arrived) : q[k] = s.arrived[k]
      /\ q[Len(s.arrived) + 1] = i
  BY <1>0, AppendProperties, LenProperties
<1>3. A \in Seq(Intents) /\ s.steers \in Seq(Intents) /\ s.queue \in Seq(Intents)
      /\ E \in Seq(Intents) /\ D \in Seq(Intents) /\ s.waiting \in Seq(Waiting)
      /\ Voices(s) \subseteq K
  BY <1>0, RowTypes
<1>4. All(s.queue, K) /\ All(s.steers, K) /\ All(E, K) /\ All(D, K)
  BY <1>0, PlacedKnown
<1>5. All(A, K)
  BY <1>0, <1>3 DEF Voiced, Spoken, All
<1>6. /\ t.line[i] = kind /\ i \notin K
      /\ \A j \in K : j \in Intents /\ t.line[j] = s.line[j] /\ j # i
      /\ \A j \in K : \E k \in DOMAIN s.arrived : s.arrived[k] = j
  BY <1>0, <1>1 DEF Known, Arrivals, SeqRange
<1>7. DOMAIN E = DOMAIN s.waiting /\ \A k \in DOMAIN s.waiting : E[k] = s.waiting[k].intent
  BY <1>3, NamesIs DEF Waiting
<1>8. AtGate(t) = D
  BY <1>1 DEF AtGate
<1>. HIDE DEF s, t, q, K, A, E, D
<1>9. ASSUME NEW x \in K, NEW y \in K, <<x, y>> \in InOrder(s)
      PROVE  <<x, y>> \in InOrder(t)
  <2>. SUFFICES ASSUME x \in Plain(t), y \in Plain(t)
                PROVE  \E a, b \in DOMAIN t.arrived : a < b /\ t.arrived[a] = x /\ t.arrived[b] = y
    BY <1>6 DEF InOrder
  <2>1. x \in Plain(s) /\ y \in Plain(s)
    BY <1>6 DEF Plain
  <2>2. PICK a, b \in DOMAIN s.arrived : a < b /\ s.arrived[a] = x /\ s.arrived[b] = y
    BY <1>9, <2>1 DEF InOrder
  <2>3. a \in DOMAIN q /\ b \in DOMAIN q /\ q[a] = x /\ q[b] = y
    BY <1>2, <2>2
  <2>. QED
    BY <1>1, <2>2, <2>3
<1>10. ASSUME NEW x \in K
       PROVE  <<x, i>> \in InOrder(t)
  <2>1. PICK a \in DOMAIN s.arrived : s.arrived[a] = x
    BY <1>6
  <2>2. /\ a \in DOMAIN q /\ Len(s.arrived) + 1 \in DOMAIN q /\ a < Len(s.arrived) + 1
        /\ q[a] = x /\ q[Len(s.arrived) + 1] = i
    BY <1>2, <2>1
  <2>. QED
    BY <1>1, <1>6, <2>2 DEF InOrder
<1>11. Row(InOrder(s), A, s.steers, s.queue, D, E)
  BY <1>0 DEF Voiced, LinedUp, A, E
<1>12. Row(InOrder(t), A, s.steers, s.queue, D, E)
  BY <1>4, <1>5, <1>9, <1>11, RowOn
<1>13. \A p : All(p, K) => Prec(InOrder(t), p, <<i>>)
  <2>1. DOMAIN <<i>> = {1} /\ <<i>>[1] = i
    OBVIOUS
  <2>. QED
    BY <1>10, <2>1 DEF All, Prec
<1>14. Behind(InOrder(t), A, s.steers, s.queue, D, E, i)
  BY <1>4, <1>5, <1>13 DEF Behind
<1>15. Spoken(t)
  <2>1. \A j \in K : /\ j \in Voices(s) => j \in Voices(t)
                     /\ j \in Loud(s) => j \in Loud(t)
                     /\ j \in ProseOf(s) => j \in ProseOf(t)
    BY <1>6 DEF Voices, Loud, Plain, ProseOf, IsCommand
  <2>2. All(A, Voices(t)) /\ All(s.steers, Voices(t))
    BY <1>0, <1>4, <1>5, <2>1 DEF Voiced, Spoken, All, A
  <2>3. ~s.model => All(s.queue, Loud(t)) /\ All(s.steers, Loud(t))
    BY <1>0, <1>4, <2>1 DEF Voiced, Spoken, All
  <2>4. All(s.waiting, Post(t))
    <3>1. \A k \in DOMAIN s.waiting : s.waiting[k] \in Post(s) /\ s.waiting[k].intent \in K
      BY <1>0, <1>4, <1>7 DEF Voiced, Spoken, All
    <3>. QED
      BY <2>1, <3>1 DEF All, Post
  <2>5. s.flight.intent # None => s.flight.intent \in K
    BY <1>4, AllSmall DEF D, AtGate
  <2>6. s.flight.intent # None /\ s.flight.kind = "deliver" => s.flight.intent \in ProseOf(t)
    BY <1>0, <2>1, <2>5 DEF Voiced, Spoken
  <2>. QED
    BY <1>1, <2>2, <2>3, <2>4, <2>6 DEF Spoken, A
<1>16. LinedUp(t, D)
  BY <1>1, <1>12 DEF LinedUp, A, E
<1>17. Ordered(t)
  BY <1>8, <1>15, <1>16 DEF Ordered, Voiced
<1>18. Behind(InOrder(t), Names(t.said), t.steers, t.queue, AtGate(t), Names(t.waiting), i)
  BY <1>1, <1>8, <1>14 DEF A, E
<1>. QED
  BY <1>6, <1>17, <1>18 DEF t

LEMMA SubmitVoiced ==
  ASSUME TypeOK, Housed(actor), Ordered(actor), MaxRetries = 0,
         NEW i \in Intents, NEW kind \in Lines, Submit(i, kind)
  PROVE  Ordered(actor')
<1>. DEFINE s == Sent(i, kind)
<1>1. actor.line[i] = "unsent" /\ i \notin SeqRange(actor.arrived)
  BY Fresh DEF Submit, Housed
<1>2. s \in Actor /\ Ordered(s)
      /\ Behind(InOrder(s), Names(s.said), s.steers, s.queue, AtGate(s), Names(s.waiting), i)
  BY <1>1, LinesKinds, SentHoused, SentVoiced
<1>. HIDE DEF s
<1>3. Ordered(GateInput(s, i, "submit"))
  BY <1>2, GateInputVoiced DEF GateKinds
<1>4. AtGate(Ack(s, i, "rejected")) = AtGate(s)
  BY <1>2 DEF AtGate, Ack, Actor
<1>5. Ordered(Ack(s, i, "rejected"))
  BY <1>2, <1>4, AckVoiced DEF Ordered, Fate
<1>. QED
  BY <1>3, <1>5 DEF Submit, s

\* A delivery to a session whose gate is free.
LEMMA DeliverReadyVoiced ==
  ASSUME TypeOK, Housed(actor), Ordered(actor), ~actor.closed, ~GateBusy(actor),
         NEW i \in Intents, NEW kind \in DeliverKinds,
         actor.line[i] = "unsent", i \notin SeqRange(actor.arrived)
  PROVE  Ordered(DeliverReady(Sent(i, kind), i))
<1>. DEFINE s == Sent(i, kind)
<1>1. kind \in LineKinds /\ kind \in {"peer", "peerHeld"}
  BY DEF LineKinds, DeliverKinds
<1>2. /\ s \in Actor /\ Ordered(s) /\ Placed(s, <<i>>) /\ Barred(s) /\ s.line[i] = kind
      /\ Behind(InOrder(s), Names(s.said), s.steers, s.queue, AtGate(s), Names(s.waiting), i)
  BY <1>1, SentHoused, SentVoiced
<1>3. s.closed = actor.closed /\ s.flight = actor.flight /\ s.waiting = actor.waiting
  BY DEF Sent, TypeOK, Actor
<1>. HIDE DEF s
<1>4. i \in Voices(s)
  BY <1>1, <1>2 DEF Voices
<1>5. s.flight.intent = None /\ s.waiting = <<>> /\ AtGate(s) = <<>> /\ Names(s.waiting) = <<>>
  BY <1>3, NamesSmall DEF GateBusy, AtGate
<1>6. Voiced(s, <<>>)
  BY <1>2, <1>5 DEF Ordered
<1>7. Row(InOrder(s), Names(s.said), s.steers, s.queue, <<>>, <<>>)
  BY <1>5, <1>6 DEF Voiced, LinedUp
<1>8. Row(InOrder(s), Names(s.said), s.steers, s.queue, <<i>>, <<>>)
  BY <1>2, <1>7, EmptyRow DEF Row, Behind
<1>9. Voiced(s, <<i>>)
  BY <1>5, <1>6, <1>8 DEF Voiced, LinedUp
<1>10. Quiet(s)
  BY <1>2, <1>3, BarredQuiet
<1>11. Voiced(DeliverReady(s, i), <<>>)
  BY <1>2, <1>4, <1>9, <1>10, SubmitProseVoiced
<1>12. Idle(DeliverReady(s, i))
  BY <1>2, <1>5, ApplyGateIdle DEF Idle
<1>. QED
  BY <1>11, <1>12 DEF Ordered, AtGate, Idle, s

LEMMA DeliverVoiced ==
  ASSUME TypeOK, Housed(actor), Ordered(actor), MaxRetries = 0,
         NEW i \in Intents, NEW kind \in Lines, Deliver(i, kind)
  PROVE  Ordered(actor')
<1>. DEFINE s == Sent(i, kind)
<1>1. actor.line[i] = "unsent" /\ i \notin SeqRange(actor.arrived) /\ kind \in DeliverKinds
      /\ ~actor.closed
  BY Fresh DEF Deliver, Housed
<1>2. /\ s \in Actor /\ Ordered(s) /\ s.line[i] = kind
      /\ Behind(InOrder(s), Names(s.said), s.steers, s.queue, AtGate(s), Names(s.waiting), i)
  BY <1>1, LinesKinds, SentHoused, SentVoiced
<1>3. ~GateBusy(actor) => Ordered(DeliverReady(s, i))
  BY <1>1, DeliverReadyVoiced
<1>. HIDE DEF s
<1>4. i \in ProseOf(s)
  BY <1>1, <1>2 DEF ProseOf, IsCommand, DeliverKinds
<1>5. Ordered(GateInput(s, i, "deliver"))
  BY <1>2, <1>4, GateInputVoiced DEF GateKinds
<1>. QED
  BY <1>3, <1>5 DEF Deliver, s

LEMMA GatedVoiced ==
  ASSUME NEW s \in Actor, Housed(s), Ordered(s), ~s.closed, s.flight.intent # None,
         NEW verdict \in Verdicts(s, s.flight.intent, s.flight.kind)
  PROVE  /\ Ordered(Given(s, verdict)) /\ Ordered(AfterGate(s, verdict))
         /\ Ordered(DrainQueue(AfterGate(s, verdict)))
<1>. DEFINE i == s.flight.intent
            kind == s.flight.kind
            taken == [s EXCEPT !.flight = NoFlight]
            given == ApplyGate(taken, i, kind, verdict)
            applied == StartGate(given)
<1>0. <<>> \in Seq(Intents) /\ Quiet(s) /\ verdict \in Verdicts(s, i, kind) /\ i # None
  BY BarredQuiet DEF Housed
<1>1. i \in Intents /\ taken \in Actor /\ Placed(taken, <<i>>)
  BY <1>0, GatedHand DEF Housed
<1>2. Goes(s, taken)
  BY <1>0 DEF Goes, Actor
<1>3. Given(s, verdict) = given /\ AfterGate(s, verdict) = applied
  BY DEF Given, AfterGate
<1>4. /\ taken.line = s.line /\ taken.arrived = s.arrived /\ taken.model = s.model
      /\ taken.said = s.said /\ taken.steers = s.steers /\ taken.queue = s.queue
      /\ taken.waiting = s.waiting /\ taken.flight.intent = None
  BY <1>0 DEF Actor, NoFlight
<1>5. AtGate(s) = <<i>>
  BY <1>0 DEF AtGate
<1>6. kind = "deliver" => i \in ProseOf(s)
  BY <1>0 DEF Ordered, Voiced, Spoken
<1>. HIDE DEF taken, i, kind
<1>7. Voiced(taken, <<i>>)
  BY <1>4, <1>5, SameVoiced DEF Ordered
<1>8. kind = "deliver" => i \in ProseOf(taken)
  BY <1>4, <1>6, Heard
<1>9. verdict \in Verdicts(taken, i, kind)
  BY <1>0, <1>4 DEF Verdicts, IsCommand
<1>10. Quiet(taken)
  BY <1>0, <1>2, GoesQuiet
<1>11. /\ given \in Actor /\ Placed(given, <<>>) /\ Goes(taken, given)
       /\ Voiced(given, <<>>) /\ Idle(given)
  BY <1>1, <1>4, <1>7, <1>8, <1>9, <1>10, ApplyGateType, ApplyGatePlaced, ApplyGateGoes,
     ApplyGateVoiced, ApplyGateIdle DEF Idle
<1>. HIDE DEF given
<1>12. Ordered(given) /\ Quiet(given)
  BY <1>10, <1>11, GoesQuiet DEF Ordered, AtGate, Idle
<1>13. /\ applied \in Actor /\ Placed(applied, <<>>) /\ Ordered(applied) /\ Quiet(applied)
  BY <1>0, <1>11, <1>12, StartGateType, StartGatePlaced, StartGateGoes, StartGateVoiced, GoesQuiet
<1>. HIDE DEF applied
<1>14. Ordered(DrainQueue(applied))
  BY <1>13, DrainQueueVoiced
<1>. QED
  BY <1>3, <1>12, <1>13, <1>14

LEMMA FinishedVoiced ==
  ASSUME NEW s \in Actor, Ordered(s), NEW i \in s.inflight
  PROVE  Ordered(Finished(s, i)) /\ Finished(s, i).closed = s.closed
<1>. DEFINE t == Finished(s, i)
<1>1. /\ t.line = s.line /\ t.arrived = s.arrived /\ t.model = s.model /\ t.said = s.said
      /\ t.steers = s.steers /\ t.queue = s.queue /\ t.waiting = s.waiting /\ t.flight = s.flight
      /\ t.closed = s.closed
  BY DEF Finished, CommandOver, CancelCommandAsks, Actor
<1>. HIDE DEF t
<1>2. Voiced(t, AtGate(s)) /\ AtGate(t) = AtGate(s)
  BY <1>1, SameVoiced DEF Ordered, AtGate
<1>. QED
  BY <1>1, <1>2 DEF t, Ordered

\* No order is asked of what a command turned into.
LEMMA PromptedVoiced ==
  ASSUME NEW s \in Actor, NEW i \in Intents, Ordered(s)
  PROVE  Ordered(Prompted(s, i)) /\ i \in Loud(Prompted(s, i)) /\ Prompted(s, i).closed = s.closed
<1>. DEFINE p == Prompted(s, i)
            D == AtGate(s)
<1>1. s.line \in [Intents -> LineKinds \cup {"unsent"}]
  BY DEF Actor
<1>2. /\ p.line = [s.line EXCEPT ![i] = "prompt"]
      /\ p.waiting = s.waiting /\ p.flight = s.flight /\ p.queue = s.queue
      /\ p.steers = s.steers /\ p.said = s.said /\ p.model = s.model
      /\ p.arrived = s.arrived /\ p.closed = s.closed
  BY DEF Prompted, Actor
<1>. HIDE DEF p
<1>3. \A j \in Intents : p.line[j] = IF j = i THEN "prompt" ELSE s.line[j]
  BY <1>1, <1>2
<1>4. /\ i \in Loud(p) /\ Plain(p) \subseteq Plain(s) /\ Loud(s) \subseteq Loud(p)
      /\ Voices(s) \subseteq Voices(p) /\ ProseOf(s) \subseteq ProseOf(p)
  BY <1>3 DEF Loud, Plain, Voices, ProseOf, IsCommand
<1>5. InOrder(s) \subseteq InOrder(p)
  BY <1>2, <1>4 DEF InOrder
<1>6. Post(s) \subseteq Post(p)
  BY <1>4 DEF Post
<1>7. \A q, S, T : All(q, S) /\ S \subseteq T => All(q, T)
  BY DEF All
<1>8. Voiced(s, D) /\ AtGate(p) = D
  BY <1>2 DEF Ordered, AtGate
<1>. HIDE DEF D
<1>9. LinedUp(p, D)
  BY <1>2, <1>5, <1>8, RowMono DEF Voiced, LinedUp
<1>10. Spoken(p)
  BY <1>2, <1>4, <1>6, <1>7, <1>8 DEF Voiced, Spoken
<1>. QED
  BY <1>2, <1>4, <1>8, <1>9, <1>10 DEF p, Ordered, Voiced

LEMMA ReportedVoiced ==
  ASSUME NEW s \in Actor, Housed(s), Ordered(s), ~s.closed, NEW i \in s.inflight,
         NEW o \in {"applied", "rejected", "prompt"}
  PROVE  Ordered(Reported(s, i, o)) /\ Ordered(DrainQueue(Reported(s, i, o)))
<1>. DEFINE asked == Finished(s, i)
            p == Prompted(asked, i)
            u == IF o = "prompt" THEN GateInput(p, i, "prose") ELSE Ack(asked, i, o)
<1>1. i \in Intents
  BY DEF Actor
<1>2. Reported(s, i, o) = u
  BY DEF Reported, Finished, Prompted
<1>3. /\ asked \in Actor /\ Placed(asked, <<i>>) /\ Arrivals(asked) /\ Barred(asked)
      /\ Ordered(asked) /\ ~asked.closed
  BY <1>1, FinishedHoused, FinishedVoiced
<1>. HIDE DEF asked
<1>4. /\ p \in Actor /\ Placed(p, <<i>>) /\ Arrivals(p) /\ Barred(p)
      /\ Ordered(p) /\ i \in Loud(p) /\ ~p.closed
  BY <1>1, <1>3, PromptedHoused, PromptedVoiced
<1>. HIDE DEF p
<1>5. Quiet(asked) /\ Quiet(p)
  BY <1>3, <1>4, BarredQuiet
<1>6. /\ GateInput(p, i, "prose") \in Actor /\ Placed(GateInput(p, i, "prose"), <<>>)
      /\ Ordered(GateInput(p, i, "prose")) /\ Quiet(GateInput(p, i, "prose"))
  BY <1>1, <1>4, <1>5, GateInputType, GateInputPlaced, GateInputVoiced, GateInputGoes, GoesQuiet
     DEF GateKinds
<1>7. ASSUME o # "prompt"
      PROVE  /\ Ack(asked, i, o) \in Actor /\ Placed(Ack(asked, i, o), <<>>)
             /\ Ordered(Ack(asked, i, o)) /\ Quiet(Ack(asked, i, o))
  <2>1. o \in Fate /\ o \in Final
    BY <1>7 DEF Fate, Final
  <2>2. Voiced(Ack(asked, i, o), AtGate(asked))
    BY <1>1, <1>3, <2>1, AckVoiced DEF Ordered
  <2>3. AtGate(Ack(asked, i, o)) = AtGate(asked)
    BY <1>3 DEF AtGate, Ack, Actor
  <2>. QED
    BY <1>1, <1>3, <1>5, <2>1, <2>2, <2>3, AckType, AckPlaced, AckGoes, GoesQuiet DEF Ordered
<1>8. u \in Actor /\ Placed(u, <<>>) /\ Ordered(u) /\ Quiet(u)
  BY <1>6, <1>7
<1>. HIDE DEF u
<1>. QED
  BY <1>2, <1>8, DrainQueueVoiced

\* A row without a part of its queue.
LEMMA RowWithout ==
  ASSUME NEW R, NEW A, NEW B, NEW p \in Seq(Intents), NEW x \in Seq(Intents),
         NEW r \in Seq(Intents), NEW D, NEW E, Row(R, A, B, p \o (x \o r), D, E)
  PROVE  Row(R, A, B, p \o r, D, E)
<1>1. x \o r \in Seq(Intents)
  BY ConcatProperties
<1>2. Asc(R, p \o r)
  <2>1. Asc(R, p) /\ Asc(R, x \o r) /\ Prec(R, p, x \o r)
    BY <1>1, AscConcat DEF Row
  <2>2. Asc(R, r) /\ Prec(R, p, r)
    BY <2>1, AscConcat, PrecConcat
  <2>. QED
    BY <2>1, <2>2, AscConcat
<1>3. ASSUME NEW q
      PROVE  /\ Prec(R, q, p \o (x \o r)) => Prec(R, q, p \o r)
             /\ Prec(R, p \o (x \o r), q) => Prec(R, p \o r, q)
  <2>1. /\ Prec(R, p \o (x \o r), q) <=> Prec(R, p, q) /\ Prec(R, x \o r, q)
        /\ Prec(R, q, p \o (x \o r)) <=> Prec(R, q, p) /\ Prec(R, q, x \o r)
    BY <1>1, PrecConcat
  <2>2. /\ Prec(R, x \o r, q) <=> Prec(R, x, q) /\ Prec(R, r, q)
        /\ Prec(R, q, x \o r) <=> Prec(R, q, x) /\ Prec(R, q, r)
    BY PrecConcat
  <2>3. /\ Prec(R, p \o r, q) <=> Prec(R, p, q) /\ Prec(R, r, q)
        /\ Prec(R, q, p \o r) <=> Prec(R, q, p) /\ Prec(R, q, r)
    BY PrecConcat
  <2>. QED
    BY <2>1, <2>2, <2>3
<1>. QED
  BY <1>2, <1>3 DEF Row

LEMMA WithoutVoiced ==
  ASSUME NEW s \in Actor, Ordered(s), NEW k \in DOMAIN s.queue
  PROVE  Ordered([s EXCEPT !.queue = Without(@, k)])
<1>. DEFINE R == InOrder(s)
            A == Names(s.said)
            E == Names(s.waiting)
            D == AtGate(s)
<1>0. /\ s.queue \in Seq(Intents) /\ A \in Seq(Intents) /\ E \in Seq(Intents)
      /\ D \in Seq(Intents) /\ s.steers \in Seq(Intents)
  BY RowTypes
<1>. DEFINE p == SubSeq(s.queue, 1, k - 1)
            r == SubSeq(s.queue, k + 1, Len(s.queue))
            x == <<s.queue[k]>>
            c == p \o r
            a == [s EXCEPT !.queue = c]
<1>2. p \in Seq(Intents) /\ r \in Seq(Intents) /\ s.queue = p \o (x \o r) /\ x \in Seq(Intents)
  <2>1. s.queue[k] \in Intents
    BY <1>0, LenProperties, ElementOfSeq
  <2>2. p \in Seq(Intents) /\ r \in Seq(Intents) /\ s.queue = p \o (x \o r)
    BY <1>0, Without1, Zenon
  <2>3. x \in Seq(Intents)
    BY <2>1
  <2>. QED
    BY <2>2, <2>3, Zenon
<1>3. [s EXCEPT !.queue = Without(@, k)] = a
  BY DEF Without
<1>4. Row(R, A, s.steers, p \o (x \o r), D, E) /\ (~s.model => All(p \o (x \o r), Loud(s)))
  BY <1>2 DEF Ordered, Voiced, LinedUp, Spoken
<1>5. Voiced(s, D)
  BY DEF Ordered
<1>. HIDE DEF p, r, x, R, A, E, D
<1>6. x \o r \in Seq(Intents) /\ c \in Seq(Intents)
  BY <1>2, ConcatProperties
<1>7. Row(R, A, s.steers, c, D, E)
  BY <1>2, <1>4, RowWithout
<1>8. ~s.model => All(c, Loud(s))
  BY <1>2, <1>4, <1>6, AllConcat
<1>. HIDE DEF c
<1>9. /\ a \in Actor /\ a.line = s.line /\ a.arrived = s.arrived /\ a.model = s.model
      /\ a.said = s.said /\ a.steers = s.steers /\ a.queue = c /\ a.waiting = s.waiting
      /\ a.flight = s.flight
  BY <1>0, <1>6 DEF Actor
<1>. HIDE DEF a
<1>10. Voiced(a, D)
  BY <1>5, <1>7, <1>8, <1>9, MakeVoiced DEF Voiced, Spoken, R, A, E
<1>11. AtGate(a) = D
  BY <1>9 DEF AtGate, D
<1>. QED
  BY <1>3, <1>10, <1>11 DEF Ordered

LEMMA WithdrawVoiced ==
  ASSUME TypeOK, Ordered(actor), NEW i \in Intents, Withdraw(i)
  PROVE  Ordered(actor')
<1>1. PICK k \in DOMAIN actor.queue :
        actor' = Ack([actor EXCEPT !.queue = Without(@, k)], i, "withdrawn")
  BY DEF Withdraw
<1>. DEFINE a == [actor EXCEPT !.queue = Without(@, k)]
<1>2. a \in Actor /\ Ordered(a) /\ actor' = Ack(a, i, "withdrawn")
  BY <1>1, WithoutType, WithoutVoiced DEF TypeOK
<1>. HIDE DEF a
<1>3. Voiced(Ack(a, i, "withdrawn"), AtGate(a))
  BY <1>2, AckVoiced DEF Fate, Ordered
<1>4. AtGate(Ack(a, i, "withdrawn")) = AtGate(a)
  BY <1>2 DEF AtGate, Ack, Actor
<1>. QED
  BY <1>2, <1>3, <1>4 DEF Ordered

\* The queue after its first lines were taken.
LEMMA LeftVoiced ==
  ASSUME NEW s \in Actor, Ordered(s), NEW keep
  PROVE  /\ [s EXCEPT !.queue = Left(@, keep)] \in Actor
         /\ Ordered([s EXCEPT !.queue = Left(@, keep)])
<1>. DEFINE T == Taken(s.queue, keep)
            L == Left(s.queue, keep)
            a == [s EXCEPT !.queue = L]
            D == AtGate(s)
<1>0. s.queue \in Seq(Intents)
  BY DEF Actor
<1>1. T \in Seq(Intents) /\ L \in Seq(Intents) /\ s.queue = T \o L
  BY <1>0, TakenLeftType, TakenThenLeft
<1>2. /\ Row(InOrder(s), Names(s.said), s.steers, s.queue, D, Names(s.waiting))
      /\ ~s.model => All(s.queue, Loud(s))
      /\ Voiced(s, D)
  BY DEF Ordered, Voiced, LinedUp, Spoken
<1>. HIDE DEF T, L, D
<1>3. /\ Row(InOrder(s), Names(s.said), s.steers, L, D, Names(s.waiting))
      /\ ~s.model => All(L, Loud(s))
  <2>1. <<>> \in Seq(Intents) /\ <<>> \o L = L /\ <<>> \o (T \o L) = T \o L
    <3>1. T \o L \in Seq(Intents)
      BY <1>0, <1>1
    <3>. QED
      BY <1>1, <3>1, ConcatEmptySeq
  <2>2. Row(InOrder(s), Names(s.said), s.steers, <<>> \o (T \o L), D, Names(s.waiting))
    BY <1>1, <1>2, <2>1
  <2>3. Row(InOrder(s), Names(s.said), s.steers, <<>> \o L, D, Names(s.waiting))
    BY <1>1, <2>1, <2>2, RowWithout
  <2>4. ~s.model => All(L, Loud(s))
    BY <1>1, <1>2, AllConcat
  <2>. QED
    BY <2>1, <2>3, <2>4
<1>4. /\ a \in Actor /\ a.line = s.line /\ a.arrived = s.arrived /\ a.model = s.model
      /\ a.said = s.said /\ a.steers = s.steers /\ a.queue = L /\ a.waiting = s.waiting
      /\ a.flight = s.flight
  BY <1>1 DEF Actor
<1>5. [s EXCEPT !.queue = Left(@, keep)] = a
  BY DEF L
<1>. HIDE DEF a
<1>6. Voiced(a, D)
  BY <1>2, <1>3, <1>4, MakeVoiced DEF Voiced, Spoken
<1>7. AtGate(a) = D
  BY <1>4 DEF AtGate, D
<1>. QED
  BY <1>4, <1>5, <1>6, <1>7 DEF Ordered

\* What the barrier takes of the queue stands where it stood.
LEMMA AbsorbVoiced ==
  ASSUME TypeOK, Housed(actor), Ordered(actor), Absorb
  PROVE  Ordered(actor')
<1>. DEFINE s == actor
            t == actor'
            T == Taken(s.queue, SteersOf(s))
            L == Left(s.queue, SteersOf(s))
            R == InOrder(s)
            A == Names(s.said)
            E == Names(s.waiting)
            D == AtGate(s)
<1>0. s \in Actor /\ s.queue \in Seq(Intents) /\ Placed(s, <<>>) /\ Barred(s) /\ Voiced(s, D)
      /\ A \in Seq(Intents) /\ <<>> \in Seq(Intents)
  BY RowTypes DEF TypeOK, Housed, Ordered
<1>1. t = [s EXCEPT !.barrier = "answered", !.queue = L, !.steers = T]
  BY DEF Absorb
<1>2. s.steers = <<>>
  BY <1>0 DEF Absorb, Barred
<1>3. T \in Seq(Intents) /\ L \in Seq(Intents) /\ s.queue = T \o L /\ All(T, SteersOf(s))
  BY <1>0, TakenLeftType, TakenThenLeft, TakesAll
<1>4. Row(R, A, <<>>, s.queue, D, E) /\ (~s.model => All(s.queue, Loud(s)))
  BY <1>0, <1>2 DEF Voiced, LinedUp, Spoken
<1>5. All(s.queue, Known(s))
  BY <1>0, PlacedKnown
<1>. HIDE DEF s, t, T, L, R, A, E, D
<1>6. Row(R, A, <<>>, T \o L, D, E) /\ (~s.model => All(T \o L, Loud(s))) /\ All(T \o L, Known(s))
  BY <1>3, <1>4, <1>5
<1>7. Row(R, A, T, L, D, E)
  BY <1>0, <1>3, <1>6, RowSay
<1>8. All(T, Known(s)) /\ (~s.model => All(T, Loud(s)) /\ All(L, Loud(s)))
  BY <1>3, <1>6, AllConcat
<1>9. All(T, Voices(s))
  BY <1>3, <1>8 DEF All, SteersOf, Steerable, IsCommand, Known, Voices
<1>10. /\ t.line = s.line /\ t.arrived = s.arrived /\ t.model = s.model
       /\ t.said = s.said /\ t.steers = T /\ t.queue = L /\ t.waiting = s.waiting
       /\ t.flight = s.flight
  BY <1>0, <1>1, <1>3 DEF Actor
<1>11. Voiced(t, D)
  BY <1>0, <1>7, <1>8, <1>9, <1>10, MakeVoiced DEF Voiced, Spoken, R, A, E
<1>12. AtGate(t) = D
  BY <1>10 DEF AtGate, D
<1>. QED
  BY <1>11, <1>12 DEF Ordered, t

\* The reply is said after what was said before it, or is not said.
LEMMA SteerVoiced ==
  ASSUME NEW s \in Actor, Ordered(s)
  PROVE  Ordered(Steered(s)) /\ Ordered(Unread(s))
<1>. DEFINE items == s.said \o UserItems(s.steers, s.running)
            a == [s EXCEPT !.barrier = "none", !.steers = <<>>, !.said = items]
            b == [s EXCEPT !.ended = TRUE, !.pending = {}, !.barrier = "none", !.steers = <<>>]
            R == InOrder(s)
            A == Names(s.said)
            E == Names(s.waiting)
            D == AtGate(s)
<1>0. /\ s.steers \in Seq(Intents) /\ A \in Seq(Intents) /\ s.said \in Seq(Said)
      /\ s.queue \in Seq(Intents) /\ Voiced(s, D) /\ s.running \in Nat
      /\ \A w \in Said : w.intent \in Intents
  BY RowTypes DEF Ordered, Actor
<1>1. items \in Seq(Said) /\ Names(items) = A \o s.steers
  <2>. DEFINE u == UserItems(s.steers, s.running)
  <2>1. u \in Seq(Said) /\ Names(u) = s.steers
    BY <1>0, NamesItems
  <2>. HIDE DEF u
  <2>2. s.said \o u \in Seq(Said) /\ Names(s.said \o u) = Names(s.said) \o Names(u)
    BY <1>0, <2>1, NamesConcat, ConcatProperties
  <2>. QED
    BY <2>1, <2>2 DEF u
<1>2. /\ Steered(s) = AckAll(a, SeqRange(s.steers), "steered")
      /\ Unread(s) = AckAll(b, SeqRange(s.steers), "lost")
  BY DEF Steered, Unread
<1>3. Row(R, A, s.steers, s.queue, D, E) /\ All(A, Voices(s)) /\ All(s.steers, Voices(s))
  BY <1>0 DEF Voiced, LinedUp, Spoken
<1>. HIDE DEF items, R, A, E, D
<1>4. Row(R, A \o s.steers, <<>>, s.queue, D, E) /\ All(A \o s.steers, Voices(s))
  BY <1>0, <1>3, RowSay, AllConcat
<1>5. Row(R, A, <<>>, s.queue, D, E)
  BY <1>3, RowDrop
<1>6. /\ a \in Actor /\ a.line = s.line /\ a.arrived = s.arrived /\ a.model = s.model
      /\ a.said = items /\ a.steers = <<>> /\ a.queue = s.queue /\ a.waiting = s.waiting
      /\ a.flight = s.flight
  BY <1>0, <1>1, EmptySeq DEF Actor
<1>7. /\ b \in Actor /\ b.line = s.line /\ b.arrived = s.arrived /\ b.model = s.model
      /\ b.said = s.said /\ b.steers = <<>> /\ b.queue = s.queue /\ b.waiting = s.waiting
      /\ b.flight = s.flight
  BY <1>0, EmptySeq DEF Actor
<1>. HIDE DEF a, b
<1>8. Row(R, Names(a.said), a.steers, a.queue, D, E) /\ All(Names(a.said), Voices(s))
  BY <1>1, <1>4, <1>6
<1>8a. \A S : All(<<>>, S)
  BY AllSmall
<1>8b. /\ All(s.waiting, Post(s)) /\ (~s.model => All(s.queue, Loud(s)))
       /\ s.flight.intent # None /\ s.flight.kind = "deliver" => s.flight.intent \in ProseOf(s)
  BY <1>0 DEF Voiced, Spoken
<1>9. Voiced(a, D)
  <2>1. Row(InOrder(s), Names(a.said), a.steers, a.queue, D, Names(a.waiting))
    BY <1>6, <1>8 DEF R, E
  <2>2. /\ All(a.steers, Voices(s)) /\ All(a.waiting, Post(s))
        /\ ~a.model => All(a.queue, Loud(s)) /\ All(a.steers, Loud(s))
        /\ a.flight.intent # None /\ a.flight.kind = "deliver" => a.flight.intent \in ProseOf(s)
    BY <1>6, <1>8a, <1>8b
  <2>. QED
    BY <1>6, <1>8, <2>1, <2>2, MakeVoiced
<1>10. Voiced(b, D)
  <2>1. Row(InOrder(s), Names(b.said), b.steers, b.queue, D, Names(b.waiting))
    BY <1>5, <1>7 DEF R, A, E
  <2>2. All(Names(b.said), Voices(s))
    BY <1>3, <1>7 DEF A
  <2>3. /\ All(b.steers, Voices(s)) /\ All(b.waiting, Post(s))
        /\ ~b.model => All(b.queue, Loud(s)) /\ All(b.steers, Loud(s))
        /\ b.flight.intent # None /\ b.flight.kind = "deliver" => b.flight.intent \in ProseOf(s)
    BY <1>7, <1>8a, <1>8b
  <2>. QED
    BY <1>7, <2>1, <2>2, <2>3, MakeVoiced
<1>11. /\ Voiced(AckAll(a, SeqRange(s.steers), "steered"), D)
       /\ Voiced(AckAll(b, SeqRange(s.steers), "lost"), D)
  BY <1>6, <1>7, <1>9, <1>10, AckAllVoiced DEF Fate
<1>12. /\ AtGate(AckAll(a, SeqRange(s.steers), "steered")) = D
       /\ AtGate(AckAll(b, SeqRange(s.steers), "lost")) = D
  BY <1>6, <1>7 DEF AtGate, AckAll, Actor, D
<1>. QED
  BY <1>2, <1>11, <1>12 DEF Ordered

\* A row without its queue, or without the lines at the gate.
LEMMA EmptiedVoiced ==
  ASSUME NEW s \in Actor, NEW t \in Actor, Ordered(s),
         t.line = s.line, t.arrived = s.arrived, t.model = s.model, t.said = s.said,
         t.steers = s.steers, t.queue \in {s.queue, <<>>},
         \/ t.waiting = s.waiting /\ t.flight = s.flight
         \/ t.waiting = <<>> /\ t.flight.intent = None
  PROVE  Ordered(t)
<1>. DEFINE R == InOrder(s)
            A == Names(s.said)
            E == Names(s.waiting)
            D == AtGate(s)
<1>1. Row(R, A, s.steers, s.queue, D, E) /\ Voiced(s, D)
  BY DEF Ordered, Voiced, LinedUp
<1>2. AtGate(t) \in {D, <<>>} /\ Names(t.waiting) \in {E, <<>>}
      /\ (t.waiting = s.waiting => AtGate(t) = D \/ AtGate(t) = <<>>)
  BY NamesSmall DEF AtGate
<1>. HIDE DEF R, A, E, D
<1>3. /\ Row(R, A, s.steers, <<>>, D, E) /\ Row(R, A, s.steers, s.queue, <<>>, <<>>)
      /\ Row(R, A, s.steers, <<>>, <<>>, <<>>) /\ Row(R, A, s.steers, <<>>, <<>>, E)
      /\ Row(R, A, s.steers, <<>>, D, <<>>) /\ Row(R, A, s.steers, s.queue, D, <<>>)
      /\ Row(R, A, s.steers, s.queue, <<>>, E)
  BY <1>1, EmptyRow DEF Row
<1>4. Row(R, Names(t.said), t.steers, t.queue, AtGate(t), Names(t.waiting))
  BY <1>1, <1>2, <1>3 DEF A
<1>5. ~t.model => All(t.queue, Loud(s)) /\ All(t.steers, Loud(s))
  BY <1>1, AllSmall DEF Voiced, Spoken
<1>6. All(t.waiting, Post(s))
  BY <1>1, AllSmall DEF Voiced, Spoken
<1>7. All(Names(t.said), Voices(s)) /\ All(t.steers, Voices(s))
  BY <1>1 DEF Voiced, Spoken
<1>8. t.flight.intent # None /\ t.flight.kind = "deliver" => t.flight.intent \in ProseOf(s)
  BY <1>1 DEF Voiced, Spoken
<1>. QED
  BY <1>4, <1>5, <1>6, <1>7, <1>8, MakeVoiced DEF Ordered, R

LEMMA FinishCloseVoiced ==
  ASSUME NEW s \in Actor, Ordered(s)
  PROVE  Ordered(FinishClose(s))
<1>. DEFINE t == FinishClose(s)
<1>1. t \in Actor
  BY FinishCloseType
<1>2. /\ t.line = s.line /\ t.arrived = s.arrived /\ t.model = s.model /\ t.said = s.said
      /\ t.steers = s.steers /\ t.queue = <<>> /\ t.waiting = s.waiting /\ t.flight = s.flight
  BY DEF FinishClose, AckAll, Actor
<1>. HIDE DEF t
<1>3. Ordered(t)
  BY <1>1, <1>2, EmptiedVoiced
<1>. QED
  BY <1>3 DEF t

LEMMA CloseVoiced ==
  ASSUME TypeOK, Ordered(actor), Close \/ ReserveDelete
  PROVE  Ordered(actor')
<1>. DEFINE s == actor
            a == CancelTokens(s)
            b == CloseGate(a)
            c == [b EXCEPT !.pending = {}]
            e == [c EXCEPT !.closing = TRUE]
<1>0. s \in Actor /\ Ordered(s)
  BY DEF TypeOK
<1>1. actor' = e \/ actor' = FinishClose(c)
  BY DEF Close, ReserveDelete, Closed
<1>. HIDE DEF s
<1>2. /\ a \in Actor /\ a.line = s.line /\ a.arrived = s.arrived /\ a.model = s.model
      /\ a.said = s.said /\ a.steers = s.steers /\ a.queue = s.queue
  <2>1. s.inflight \in SUBSET Intents /\ (s.running # 0) \in BOOLEAN
    BY <1>0 DEF Actor
  <2>. QED
    BY <1>0, <2>1 DEF CancelTokens, Actor
<1>. HIDE DEF a
<1>3. [a EXCEPT !.waiting = <<>>, !.flight = NoFlight] \in Actor
  BY <1>2, NoFlightType, EmptySeq DEF Actor
<1>4. b \in Actor
  BY <1>3, AckAllType DEF CloseGate, Fate
<1>5. /\ b.line = a.line /\ b.arrived = a.arrived /\ b.model = a.model
      /\ b.said = a.said /\ b.steers = a.steers /\ b.queue = a.queue
      /\ b.waiting = <<>> /\ b.flight = NoFlight
  BY <1>2 DEF CloseGate, AckAll, Actor
<1>. HIDE DEF b
<1>6. /\ c \in Actor /\ c.line = b.line /\ c.arrived = b.arrived /\ c.model = b.model
      /\ c.said = b.said /\ c.steers = b.steers /\ c.queue = b.queue
      /\ c.waiting = b.waiting /\ c.flight = b.flight
  BY <1>4 DEF Actor
<1>. HIDE DEF c
<1>7. Ordered(c)
  BY <1>0, <1>2, <1>5, <1>6, EmptiedVoiced DEF NoFlight
<1>8. /\ e \in Actor /\ e.line = c.line /\ e.arrived = c.arrived /\ e.model = c.model
      /\ e.said = c.said /\ e.steers = c.steers /\ e.queue = c.queue
      /\ e.waiting = c.waiting /\ e.flight = c.flight
  BY <1>6 DEF Actor
<1>. HIDE DEF e
<1>9. Ordered(e)
  BY <1>6, <1>7, <1>8, EmptiedVoiced
<1>. QED
  BY <1>1, <1>6, <1>7, <1>9, FinishCloseVoiced

LEMMA CloseGateVoiced ==
  ASSUME NEW s \in Actor, Ordered(s)
  PROVE  Ordered(CloseGate(s)) /\ CloseGate(s).line = s.line /\ CloseGate(s).arrived = s.arrived
<1>. DEFINE b == CloseGate(s)
<1>1. [s EXCEPT !.waiting = <<>>, !.flight = NoFlight] \in Actor
  BY NoFlightType, EmptySeq DEF Actor
<1>2. b \in Actor
  BY <1>1, AckAllType DEF CloseGate, Fate
<1>3. /\ b.line = s.line /\ b.arrived = s.arrived /\ b.model = s.model
      /\ b.said = s.said /\ b.steers = s.steers /\ b.queue = s.queue
      /\ b.waiting = <<>> /\ b.flight = NoFlight
  BY DEF CloseGate, AckAll, Actor
<1>. HIDE DEF b
<1>4. Ordered(b)
  BY <1>2, <1>3, EmptiedVoiced DEF NoFlight
<1>. QED
  BY <1>3, <1>4 DEF b

LEMMA TurnOverVoiced ==
  ASSUME NEW s \in Actor, Housed(s), Ordered(s), ~s.closed, s.ended
  PROVE  Ordered(FinishClose(TurnOver(s))) /\ Ordered(DrainQueue(TurnOver(s)))
<1>. DEFINE o == TurnOver(s)
<1>0. Placed(s, <<>>) /\ Barred(s)
  BY DEF Housed
<1>2. /\ o \in Actor /\ Still(s, o) /\ o.arrived = s.arrived /\ o.flight = s.flight
      /\ o.model = s.model /\ o.said = s.said
  BY DEF TurnOver, Actor, Still
<1>. HIDE DEF o
<1>3. s.steers = <<>>
  BY <1>0 DEF Barred
<1>4. Placed(o, <<>>) /\ Quiet(o) /\ Ordered(o)
  BY <1>0, <1>2, <1>3, StillPlaced, EmptiedVoiced DEF Quiet, Still
<1>5. Ordered(FinishClose(o)) /\ Ordered(DrainQueue(o))
  BY <1>2, <1>4, FinishCloseVoiced, DrainQueueVoiced
<1>. QED
  BY <1>5 DEF o

LEMMA OthersVoiced ==
  ASSUME TypeOK, TypeOK', Ordered(actor),
         \/ Interrupt \/ Ask \/ ReachBarrier \/ Compact
         \/ \E p \in actor.pending : Answer(p)
         \/ UNCHANGED vars
  PROVE  Ordered(actor')
<1>. DEFINE s == actor
            t == actor'
<1>0. s \in Actor /\ t \in Actor /\ s.flight \in Flight
  BY DEF TypeOK, Actor
<1>1. s.said \o UserItems(<<>>, s.turns + 1) = s.said
  <2>1. UserItems(<<>>, s.turns + 1) = <<>>
    BY DEF UserItems
  <2>. QED
    BY <1>0, <2>1, ConcatEmptySeq DEF Actor
<1>2. /\ t.line = s.line /\ t.arrived = s.arrived /\ t.model = s.model /\ t.said = s.said
      /\ t.steers = s.steers /\ t.queue = s.queue /\ t.waiting = s.waiting
      /\ t.flight.intent = s.flight.intent /\ t.flight.kind = s.flight.kind
  <2>1. CASE Interrupt
    BY <1>0, <2>1 DEF Interrupt, CancelCommandAsks, Actor, Flight
  <2>2. CASE Ask \/ ReachBarrier \/ (\E p \in actor.pending : Answer(p)) \/ UNCHANGED vars
    <3>1. CASE Ask
      BY <1>0, <3>1 DEF Ask, Actor
    <3>2. CASE ReachBarrier
      BY <1>0, <3>2 DEF ReachBarrier, Actor
    <3>3. CASE \E p \in actor.pending : Answer(p)
      BY <1>0, <3>3 DEF Answer, Actor
    <3>4. CASE UNCHANGED vars
      BY <3>4 DEF vars
    <3>. QED
      BY <2>2, <3>1, <3>2, <3>3, <3>4
  <2>3. CASE Compact
    <3>. DEFINE a == [s EXCEPT !.compacts = @ + 1]
    <3>1. t = StartTurn(a, <<>>)
      BY <2>3 DEF Compact
    <3>. HIDE DEF s, t
    <3>2. s.compacts + 1 \in Nat
      <4>1. s.compacts \in Nat
        BY <1>0 DEF Actor
      <4>. QED
        BY <4>1
    <3>3. /\ a \in Actor /\ a.line = s.line /\ a.arrived = s.arrived /\ a.model = s.model
          /\ a.said = s.said /\ a.steers = s.steers /\ a.queue = s.queue
          /\ a.waiting = s.waiting /\ a.flight = s.flight /\ a.turns = s.turns
      BY <1>0, <3>2 DEF Actor
    <3>. HIDE DEF a
    <3>4. /\ t.line = a.line /\ t.arrived = a.arrived /\ t.model = a.model
          /\ t.said = a.said \o UserItems(<<>>, a.turns + 1) /\ t.steers = a.steers
          /\ t.queue = a.queue /\ t.waiting = a.waiting /\ t.flight = a.flight
      BY <3>1, <3>3 DEF StartTurn, AckAll, Actor
    <3>. QED
      BY <1>1, <3>3, <3>4
  <2>. QED
    BY <2>1, <2>2, <2>3
<1>. HIDE DEF s, t
<1>3. Voiced(t, AtGate(s)) /\ AtGate(t) = AtGate(s)
  BY <1>2, SameVoiced DEF Ordered, AtGate, s
<1>. QED
  BY <1>3 DEF Ordered, t

LEMMA InitVoiced == Init => Ordered(actor)
<1>. SUFFICES ASSUME Init PROVE Ordered(actor)
  OBVIOUS
<1>1. /\ actor.waiting = <<>> /\ actor.flight = NoFlight /\ actor.queue = <<>>
      /\ actor.steers = <<>> /\ actor.said = <<>>
  BY DEF Init
<1>2. AtGate(actor) = <<>> /\ Names(<<>>) = <<>>
  BY <1>1, NamesSmall DEF AtGate, NoFlight
<1>3. LinedUp(actor, <<>>)
  BY <1>1, <1>2, EmptyRow DEF LinedUp, Row
<1>4. Spoken(actor)
  BY <1>1, <1>2, AllSmall DEF Spoken, NoFlight
<1>. QED
  BY <1>2, <1>3, <1>4 DEF Ordered, Voiced

LEMMA OrderedStep ==
  ASSUME MaxRetries = 0, TypeOK, Housed(actor), Ordered(actor), [Next]_vars, ~StorageFailed
  PROVE  Ordered(actor')
<1>0. actor \in Actor
  BY DEF TypeOK
<1>1. TypeOK'
  BY TypeStep
<1>2. CASE Stopped \/ UNCHANGED vars
  BY <1>1, <1>2, OthersVoiced DEF Stopped, vars
<1>3. ASSUME NEW v, Gated(v)
      PROVE  Ordered(actor')
  BY <1>0, <1>3, GatedVoiced DEF Gated, Given, AfterGate
<1>4. ASSUME NEW i \in Intents, NEW o \in {"applied", "rejected", "prompt"}, CommandFinished(i, o)
      PROVE  Ordered(actor')
  BY <1>0, <1>4, ReportedVoiced DEF CommandFinished
<1>5. CASE Steer \/ TurnFinished
  <2>1. actor' = Steered(actor) \/ actor' = Unread(actor)
    BY <1>5 DEF Steer, TurnFinished, Steered, Unread
  <2>. QED
    BY <1>0, <2>1, SteerVoiced
<1>6. CASE CompletionReady
  <2>1. /\ ~actor.closed /\ actor.ended
        /\ \/ actor' = FinishClose(TurnOver(actor))
           \/ actor' = DrainQueue(TurnOver(actor))
    BY <1>6 DEF CompletionReady
  <2>. QED
    BY <1>0, <2>1, TurnOverVoiced
<1>. QED
  BY <1>1, <1>2, <1>3, <1>4, <1>5, <1>6, SubmitVoiced, DeliverVoiced, OthersVoiced,
     WithdrawVoiced, AbsorbVoiced, CloseVoiced
     DEF Next

-----------------------------------------------------------------------------
(* A store that fails.  What is left is no more than what the method in    *)
(* which the append failed would have made: no line has a second outcome,  *)
(* and the journal is a beginning of the one it was about to be.           *)

Behaved(t) ==
  /\ t \in Actor /\ Arrivals(t)
  /\ \E h \in Seq(Intents) : Placed(t, h)
  /\ \E d : Voiced(t, d)

AtMost(s) == \A j \in Intents : Homes(s, j) <= Once(s.line[j] # "unsent")

Broken(s) ==
  /\ s.closed /\ s.failed
  /\ AtMost(s) /\ Arrivals(s)
  /\ Asc(InOrder(s), Names(s.said)) /\ All(Names(s.said), Voices(s))

LEMMA HousedBehaved ==
  ASSUME NEW s \in Actor, Housed(s), Ordered(s)
  PROVE  Behaved(s)
<1>1. <<>> \in Seq(Intents)
  OBVIOUS
<1>. QED
  BY <1>1 DEF Housed, Ordered, Behaved

LEMMA HaltFrame ==
  ASSUME NEW x \in Actor
  PROVE  LET h == Halt(x)
         IN  /\ h \in Actor /\ h.closed /\ h.failed
             /\ h.waiting = <<>> /\ h.flight = NoFlight /\ h.queue = <<>> /\ h.inflight = {}
             /\ h.steers = <<>> /\ h.line = x.line /\ h.arrived = x.arrived /\ h.said = x.said
             /\ \A j \in Intents : h.fate[j] =
                  IF j \in SeqRange(x.queue) THEN Append(x.fate[j], "rejected") ELSE x.fate[j]
<1>1. Halt(x) \in Actor
  BY HaltType
<1>2. LET h == Halt(x)
      IN  /\ h.closed /\ h.failed
          /\ h.waiting = <<>> /\ h.flight = NoFlight /\ h.queue = <<>> /\ h.inflight = {}
          /\ h.steers = <<>> /\ h.line = x.line /\ h.arrived = x.arrived /\ h.said = x.said
  BY DEF Halt, AckAll, Actor
<1>3. \A j \in Intents : Halt(x).fate[j] =
        IF j \in SeqRange(x.queue) THEN Append(x.fate[j], "rejected") ELSE x.fate[j]
  BY DEF Halt, AckAll, Actor
<1>. QED
  BY <1>1, <1>2, <1>3

\* The outcomes after the halt: those given, and one for each queued line.
LEMMA HaltAtMost ==
  ASSUME NEW x, NEW t, Within(x, t), NEW g \in Seq(Intents), Placed(t, g)
  PROVE  AtMost(Halt(x))
<1>. DEFINE h == Halt(x)
<1>0. x \in Actor /\ t \in Actor /\ x.line = t.line /\ x.queue = t.queue
  BY DEF Within
<1>1. /\ h \in Actor
      /\ h.waiting = <<>> /\ h.flight = NoFlight /\ h.queue = <<>> /\ h.inflight = {}
      /\ h.steers = <<>> /\ h.line = x.line
      /\ \A j \in Intents : h.fate[j] =
           IF j \in SeqRange(x.queue) THEN Append(x.fate[j], "rejected") ELSE x.fate[j]
  BY <1>0, HaltFrame
<1>. HIDE DEF h
<1>. SUFFICES ASSUME NEW j \in Intents
              PROVE  Homes(h, j) <= Once(t.line[j] # "unsent")
  BY <1>0, <1>1 DEF AtMost, h
<1>2. Homes(h, j) = Tally(h.fate[j], Final) /\ Tally(h.fate[j], Final) \in Nat
  <2>1. /\ Homes(h, j) = Tally(<<>>, Of(j)) + Once(h.flight.intent = j)
                         + Tally(<<>>, {j}) + Once(j \in {})
                         + Tally(<<>>, {j}) + Tally(h.fate[j], Final)
        /\ Tally(h.fate[j], Final) \in Nat
    <3>1. /\ Homes(h, j) = Tally(h.waiting, Of(j)) + Once(h.flight.intent = j)
                           + Tally(h.queue, {j}) + Once(j \in h.inflight)
                           + Tally(h.steers, {j}) + Tally(h.fate[j], Final)
          /\ Tally(h.fate[j], Final) \in Nat
      BY <1>1, HomesIs
    <3>. QED
      BY <1>1, <3>1
  <2>2. Tally(<<>>, Of(j)) = 0 /\ Tally(<<>>, {j}) = 0
    BY TallySmall
  <2>3. Once(h.flight.intent = j) = 0 /\ Once(j \in {}) = 0
    BY <1>1, ConstantsAssumption DEF Once, NoFlight
  <2>. QED
    BY <2>1, <2>2, <2>3
<1>3. x.fate[j] \in Seq(Fate) /\ t.fate[j] \in Seq(Fate) /\ "rejected" \in Fate /\ "rejected" \in Final
  BY <1>0 DEF Actor, Fate, Final
<1>. DEFINE a == Tally(x.fate[j], Final)
            b == Tally(t.fate[j], Final)
            c == Once(j \in SeqRange(t.queue))
            e == Tally(t.queue, {j})
<1>4. a \in Nat /\ b \in Nat
  BY <1>3, TallyFinite
<1>5. Tally(h.fate[j], Final) = a + c
  <2>1. Tally(Append(x.fate[j], "rejected"), Final) = a + Once("rejected" \in Final)
    <3>1. ASSUME NEW o \in Fate
          PROVE  Tally(Append(x.fate[j], o), Final) = Tally(x.fate[j], Final) + Once(o \in Final)
      BY <1>3, TallyAppend
    <3>. QED
      BY <1>3, <3>1
  <2>2. Once("rejected" \in Final) = 1
    BY <1>3 DEF Once
  <2>3. CASE j \in SeqRange(t.queue)
    BY <1>0, <1>1, <2>1, <2>2, <2>3 DEF Once
  <2>4. CASE j \notin SeqRange(t.queue)
    <3>1. h.fate[j] = x.fate[j] /\ c = 0
      BY <1>0, <1>1, <2>4 DEF Once
    <3>. QED
      BY <1>4, <3>1
  <2>. QED
    BY <2>3, <2>4
<1>6. a <= b
  <2>1. CASE t.fate[j] = x.fate[j]
    BY <1>4, <2>1
  <2>2. CASE t.fate[j] # x.fate[j]
    <3>1. PICK o \in Fate : t.fate[j] = Append(x.fate[j], o)
      BY <2>2 DEF Within
    <3>2. Tally(Append(x.fate[j], o), Final) = a + Once(o \in Final)
      BY <1>3, TallyAppend
    <3>3. Once(o \in Final) \in Nat
      BY DEF Once
    <3>. HIDE DEF a
    <3>. QED
      BY <1>4, <3>1, <3>2, <3>3
  <2>. QED
    BY <2>1, <2>2
<1>7. c <= e /\ c \in Nat /\ e \in Nat
  <2>1. t.queue \in Seq(Intents)
    BY <1>0 DEF Actor
  <2>2. e \in Nat /\ (e = 0 <=> \A k \in DOMAIN t.queue : t.queue[k] \notin {j})
    BY <2>1, TallyFinite
  <2>3. j \in SeqRange(t.queue) => e # 0
    BY <2>2 DEF SeqRange
  <2>4. c \in {0, 1} /\ (c = 1 => j \in SeqRange(t.queue))
    BY DEF Once
  <2>. HIDE DEF c, e
  <2>. QED
    BY <2>2, <2>3, <2>4
<1>8. e + b <= Once(t.line[j] # "unsent")
  <2>1. Numbers(t, g, j)
    BY <1>0, SumNat
  <2>2. Sum(t, g, j) = Once(t.line[j] # "unsent")
    BY <1>0, PlacedIs
  <2>. DEFINE a1 == Tally(t.waiting, Of(j))
              a2 == Once(t.flight.intent = j)
              a4 == Once(j \in t.inflight)
              a5 == Tally(t.steers, {j})
              a7 == Tally(g, {j})
  <2>3. /\ a1 \in Nat /\ a2 \in Nat /\ e \in Nat /\ a4 \in Nat /\ a5 \in Nat /\ b \in Nat
        /\ a7 \in Nat /\ a1 + a2 + e + a4 + a5 + b + a7 = Once(t.line[j] # "unsent")
    BY <2>1, <2>2 DEF Sum, Numbers
  <2>. HIDE DEF a1, a2, a4, a5, a7, b, e
  <2>. QED
    BY <2>3
<1>9. Once(t.line[j] # "unsent") \in Nat
  BY DEF Once
<1>. DEFINE n == Once(t.line[j] # "unsent")
<1>10. Homes(h, j) = a + c
  BY <1>2, <1>5
<1>. HIDE DEF a, b, c, e, n
<1>11. a + c <= n
  <2>1. n \in Nat /\ e + b <= n
    BY <1>8, <1>9 DEF n
  <2>. QED
    BY <1>4, <1>6, <1>7, <2>1
<1>. QED
  BY <1>10, <1>11 DEF n

LEMMA HaltBroken ==
  ASSUME NEW x, NEW t, Within(x, t), Behaved(t)
  PROVE  Broken(Halt(x))
<1>. DEFINE h == Halt(x)
            A == Names(h.said)
            B == Names(t.said)
<1>0. /\ x \in Actor /\ t \in Actor /\ x.line = t.line /\ x.arrived = t.arrived
      /\ Starts(x.said, t.said)
  BY DEF Within
<1>1. /\ h \in Actor /\ h.closed /\ h.failed
      /\ h.line = x.line /\ h.arrived = x.arrived /\ h.said = x.said
  BY <1>0, HaltFrame
<1>2. AtMost(h)
  BY HaltAtMost DEF Behaved
<1>. HIDE DEF h
<1>3. Arrivals(h)
  BY <1>0, <1>1 DEF Behaved, Arrivals
<1>4. InOrder(h) = InOrder(t) /\ Voices(h) = Voices(t)
  BY <1>0, <1>1, Heard
<1>5. Asc(InOrder(t), B) /\ All(B, Voices(t))
  BY DEF Behaved, Voiced, LinedUp, Row, Spoken
<1>6. h.said \in Seq(Said) /\ t.said \in Seq(Said) /\ \A w \in Said : w.intent \in Intents
  BY <1>0, <1>1, RowTypes
<1>7. /\ DOMAIN A = DOMAIN h.said /\ \A k \in DOMAIN h.said : A[k] = h.said[k].intent
  BY <1>6, NamesIs
<1>8. /\ DOMAIN B = DOMAIN t.said /\ \A k \in DOMAIN t.said : B[k] = t.said[k].intent
  BY <1>6, NamesIs
<1>. HIDE DEF A, B
<1>9. \A k \in DOMAIN A : k \in DOMAIN B /\ A[k] = B[k]
  BY <1>0, <1>1, <1>7, <1>8 DEF Starts
<1>10. Asc(InOrder(h), A) /\ All(A, Voices(h))
  BY <1>4, <1>5, <1>9 DEF Asc, All
<1>. QED
  BY <1>1, <1>2, <1>3, <1>10 DEF Broken, h, A

\* Each place an append can fail is on the way to what a method makes of an
\* actor that keeps each line in one place and the journal in order.
LEMMA SentFails ==
  ASSUME MaxRetries = 0, TypeOK, Housed(actor), Ordered(actor), ~actor.closed,
         NEW i \in Intents, NEW kind \in Lines, SubmitFails(i, kind) \/ DeliverFails(i, kind)
  PROVE  Broken(actor')
<1>. DEFINE s == Sent(i, kind)
<1>1. actor.line[i] = "unsent" /\ i \notin SeqRange(actor.arrived)
  BY Fresh DEF SubmitFails, DeliverFails, Housed
<1>2. s \in Actor /\ Placed(s, <<i>>) /\ Arrivals(s) /\ Barred(s) /\ Ordered(s)
  BY <1>1, LinesKinds, SentHoused, SentVoiced
<1>3. CASE SubmitFails(i, kind)
  <2>1. actor' = Halt(s)
    BY <1>3 DEF SubmitFails, Halts
  <2>2. <<i>> \in Seq(Intents)
    OBVIOUS
  <2>. HIDE DEF s
  <2>3. Behaved(s)
    BY <1>2, <2>2 DEF Behaved, Ordered
  <2>. QED
    BY <1>2, <2>1, <2>3, WithinSelf, HaltBroken
<1>4. CASE DeliverFails(i, kind)
  <2>1. PICK x \in Delivering(s, i) : actor' = Halt(x)
    BY <1>4 DEF DeliverFails, Halts
  <2>2. Ordered(DeliverReady(s, i))
    BY <1>1, <1>4, DeliverReadyVoiced DEF DeliverFails
  <2>. HIDE DEF s
  <2>3. DeliverReady(s, i) \in Actor /\ Housed(DeliverReady(s, i))
    BY <1>2, DeliverReadyType, DeliverReadyPlaced, DeliverReadyGoes, EndHoused
  <2>4. Within(x, DeliverReady(s, i))
    BY <1>2, <2>1, ProsingWithin
  <2>. QED
    BY <2>1, <2>2, <2>3, <2>4, HousedBehaved, HaltBroken
<1>. QED
  BY <1>3, <1>4

LEMMA ReportFails ==
  ASSUME TypeOK, Housed(actor), Ordered(actor), ~actor.closed,
         \/ \E v \in {"rejected", "redirected", "prose", "delivered", "instant", "holds"} :
              GatedFails(v)
         \/ \E i \in Intents, o \in {"applied", "rejected", "prompt"} : CommandFails(i, o)
  PROVE  Broken(actor')
<1>0. actor \in Actor
  BY DEF TypeOK
<1>1. ASSUME NEW v \in {"rejected", "redirected", "prose", "delivered", "instant", "holds"},
             GatedFails(v)
      PROVE  Broken(actor')
  <2>. DEFINE i == actor.flight.intent
              kind == actor.flight.kind
              taken == [actor EXCEPT !.flight = NoFlight]
              given == Given(actor, v)
              applied == AfterGate(actor, v)
  <2>1. \/ \E x \in Applying(taken, i, kind, v) : actor' = Halt(x)
        \/ \E x \in Draining(applied) : actor' = Halt(x)
    BY <1>1 DEF GatedFails, Halts, Given, AfterGate
  <2>2. actor.flight.intent # None /\ v \in Verdicts(actor, i, kind)
    BY <1>1 DEF GatedFails
  <2>3. /\ given \in Actor /\ Housed(given) /\ applied \in Actor /\ Housed(DrainQueue(applied))
        /\ Ordered(given) /\ Ordered(DrainQueue(applied))
    BY <1>0, <2>2, GatedHoused, GatedVoiced
  <2>4. i \in Intents /\ taken \in Actor /\ given = ApplyGate(taken, i, kind, v)
    BY <2>2, TakenAtGate DEF Given
  <2>. HIDE DEF taken, i, kind, given, applied
  <2>5. \A x \in Applying(taken, i, kind, v) : Within(x, given)
    BY <2>4, ApplyingWithin
  <2>6. \A x \in Draining(applied) : Within(x, DrainQueue(applied))
    BY <2>3, DrainingWithin
  <2>7. Behaved(given) /\ Behaved(DrainQueue(applied))
    BY <2>3, DrainQueueType, HousedBehaved
  <2>. QED
    BY <2>1, <2>5, <2>6, <2>7, HaltBroken
<1>2. ASSUME NEW i \in Intents, NEW o \in {"applied", "rejected", "prompt"}, CommandFails(i, o)
      PROVE  Broken(actor')
  <2>. DEFINE r == Reported(actor, i, o)
  <2>1. actor' = Halt(r) \/ \E x \in Draining(r) : actor' = Halt(x)
    BY <1>2 DEF CommandFails, Halts
  <2>2. /\ r \in Actor /\ Housed(r) /\ Housed(DrainQueue(r))
        /\ Ordered(r) /\ Ordered(DrainQueue(r))
    BY <1>0, <1>2, ReportedHoused, ReportedVoiced DEF CommandFails
  <2>. HIDE DEF r
  <2>3. Behaved(r) /\ Behaved(DrainQueue(r)) /\ Within(r, r)
    BY <2>2, DrainQueueType, HousedBehaved, WithinSelf
  <2>4. \A x \in Draining(r) : Within(x, DrainQueue(r))
    BY <2>2, DrainingWithin
  <2>. QED
    BY <2>1, <2>3, <2>4, HaltBroken
<1>. QED
  BY <1>1, <1>2

LEMMA TakeFails ==
  ASSUME TypeOK, Housed(actor), Ordered(actor), TakingFails
  PROVE  Broken(actor')
<1>0. actor \in Actor /\ Placed(actor, <<>>) /\ Arrivals(actor) /\ actor.queue \in Seq(Intents)
      /\ <<>> \in Seq(Intents)
  BY DEF TypeOK, Housed, Actor
<1>1. ASSUME NEW k \in DOMAIN actor.queue, Halts({[actor EXCEPT !.queue = Without(@, k)]})
      PROVE  Broken(actor')
  <2>. DEFINE x == [actor EXCEPT !.queue = Without(@, k)]
              i == actor.queue[k]
  <2>1. actor' = Halt(x)
    BY <1>1 DEF Halts
  <2>2. i \in Intents
    BY <1>0, LenProperties, ElementOfSeq
  <2>3. x \in Actor /\ Placed(x, <<i>>) /\ Goes(actor, x) /\ Ordered(x)
    BY <1>0, <2>2, WithoutType, WithoutPlaced, WithoutVoiced
  <2>. HIDE DEF x, i
  <2>4. <<i>> \in Seq(Intents) /\ Arrivals(x)
    BY <1>0, <2>2, <2>3, GoesKeeps
  <2>5. Behaved(x)
    BY <2>3, <2>4 DEF Behaved, Ordered
  <2>. QED
    BY <2>1, <2>3, <2>5, WithinSelf, HaltBroken
<1>2. ASSUME Halts({[actor EXCEPT !.queue = Left(@, SteersOf(actor))]})
      PROVE  Broken(actor')
  <2>. DEFINE x == [actor EXCEPT !.queue = Left(@, SteersOf(actor))]
              h == Taken(actor.queue, SteersOf(actor)) \o <<>>
  <2>1. actor' = Halt(x)
    BY <1>2 DEF Halts
  <2>2. x \in Actor /\ Placed(x, h) /\ Ordered(x)
    BY <1>0, TakePlaced, LeftVoiced
  <2>3. h \in Seq(Intents)
    BY <1>0, TakenLeftType, ConcatProperties
  <2>4. x.line = actor.line /\ x.arrived = actor.arrived
    BY <1>0 DEF Actor
  <2>. HIDE DEF x, h
  <2>5. Arrivals(x)
    BY <1>0, <2>4 DEF Arrivals
  <2>6. Behaved(x)
    BY <2>2, <2>3, <2>5 DEF Behaved, Ordered
  <2>. QED
    BY <2>1, <2>2, <2>6, WithinSelf, HaltBroken
<1>. QED
  BY <1>1, <1>2 DEF TakingFails

LEMMA SteeringFails ==
  ASSUME TypeOK, Housed(actor), Ordered(actor), SteerFails
  PROVE  Broken(actor')
<1>. DEFINE q == actor.steers
            n == actor.running
            u == [actor EXCEPT !.barrier = "none", !.steers = <<>>, !.said = @ \o UserItems(q, n)]
<1>0. actor \in Actor /\ q \in Seq(Intents) /\ actor.said \in Seq(Said) /\ n \in Nat
  BY DEF TypeOK, Actor
<1>1. PICK k \in DOMAIN q :
        actor' = Halt(AckAll([actor EXCEPT !.said = @ \o UserItems(SubSeq(q, 1, k - 1), n)],
                             SeqRange(SubSeq(q, 1, k - 1)), "steered"))
  BY DEF SteerFails, Halts
<1>. DEFINE p == SubSeq(q, 1, k - 1)
            v == [actor EXCEPT !.said = @ \o UserItems(p, n)]
<1>2. k - 1 \in 0..Len(q)
  <2>1. Len(q) \in Nat /\ k \in 1..Len(q)
    BY <1>0, LenProperties
  <2>. QED
    BY <2>1
<1>3. /\ SeqRange(p) \subseteq SeqRange(q) /\ actor.said \o UserItems(p, n) \in Seq(Said)
      /\ Starts(actor.said \o UserItems(p, n), actor.said \o UserItems(q, n))
  BY <1>0, <1>2, FirstItems
<1>4. actor.said \o UserItems(q, n) \in Seq(Said)
  BY <1>0, UserItemsType, ConcatProperties
<1>5. /\ v \in Actor /\ u \in Actor
      /\ v.line = u.line /\ v.arrived = u.arrived /\ v.queue = u.queue /\ v.fate = u.fate
      /\ v.said = actor.said \o UserItems(p, n) /\ u.said = actor.said \o UserItems(q, n)
  BY <1>0, <1>3, <1>4, EmptySeq DEF Actor
<1>6. actor' = Halt(AckAll(v, SeqRange(p), "steered")) /\ Steered(actor) = AckAll(u, SeqRange(q), "steered")
  BY <1>1 DEF Steered
<1>. HIDE DEF u, v, p
<1>7. "steered" \in Fate /\ Starts(v.said, u.said)
  BY <1>3, <1>5 DEF Fate
<1>8. Within(AckAll(v, SeqRange(p), "steered"), AckAll(u, SeqRange(q), "steered"))
  BY <1>3, <1>5, <1>7, WithinAcks
<1>9. Steered(actor) \in Actor /\ Housed(Steered(actor)) /\ Ordered(Steered(actor))
  BY <1>0, <1>5, <1>6, <1>7, AckAllType, SteerHoused, SteerVoiced
<1>. QED
  BY <1>6, <1>8, <1>9, HousedBehaved, HaltBroken

LEMMA EndFails ==
  ASSUME TypeOK, Housed(actor), Ordered(actor), ~actor.closed, CompletionFails \/ CloseFails
  PROVE  Broken(actor')
<1>0. actor \in Actor
  BY DEF TypeOK
<1>1. CASE CompletionFails
  <2>. DEFINE o == TurnOver(actor)
  <2>1. /\ actor.ended
        /\ \/ \E x \in Ending(o) : actor' = Halt(x)
           \/ \E x \in Draining(o) : actor' = Halt(x)
    BY <1>1 DEF CompletionFails, Halts
  <2>2. /\ o \in Actor /\ Housed(FinishClose(o)) /\ Housed(DrainQueue(o))
        /\ Ordered(FinishClose(o)) /\ Ordered(DrainQueue(o))
    BY <1>0, <2>1, TurnOverHoused, TurnOverVoiced
  <2>. HIDE DEF o
  <2>3. Behaved(FinishClose(o)) /\ Behaved(DrainQueue(o))
    BY <2>2, FinishCloseType, DrainQueueType, HousedBehaved
  <2>4. /\ \A x \in Ending(o) : Within(x, FinishClose(o))
        /\ \A x \in Draining(o) : Within(x, DrainQueue(o))
    BY <2>2, EndingWithin, DrainingWithin
  <2>. QED
    BY <2>1, <2>3, <2>4, HaltBroken
<1>2. CASE CloseFails
  <2>. DEFINE c == CloseGate(actor)
  <2>1. \/ \E x \in Rejecting(actor, GateLines(actor)) : actor' = Halt(x)
        \/ \E x \in Ending(c) : actor' = Halt(x)
    BY <1>2 DEF CloseFails, Halts
  <2>2. /\ c \in Actor /\ Placed(c, <<>>) /\ Ordered(c)
        /\ c.line = actor.line /\ c.arrived = actor.arrived
    BY <1>0, CloseGatePlaced, CloseGateVoiced DEF Housed
  <2>3. \A x \in Rejecting(actor, GateLines(actor)) : Within(x, c)
    BY <1>0, CloseGateWithin
  <2>. HIDE DEF c
  <2>4. Arrivals(c)
    BY <2>2 DEF Housed, Arrivals
  <2>5. Behaved(c)
    <3>1. <<>> \in Seq(Intents)
      OBVIOUS
    <3>. QED
      BY <2>2, <2>4, <3>1 DEF Behaved, Ordered
  <2>6. Behaved(FinishClose(c))
    <3>1. <<>> \in Seq(Intents)
      OBVIOUS
    <3>2. FinishClose(c) \in Actor /\ Placed(FinishClose(c), <<>>) /\ Ordered(FinishClose(c))
      BY <2>2, FinishCloseType, FinishClosePlaced, FinishCloseVoiced
    <3>3. Arrivals(FinishClose(c))
      BY <2>2, <2>4, FinishCloseGoes, GoesKeeps
    <3>. QED
      BY <3>1, <3>2, <3>3 DEF Behaved, Ordered
  <2>7. \A x \in Ending(c) : Within(x, FinishClose(c))
    BY <2>2, EndingWithin
  <2>. QED
    BY <2>1, <2>3, <2>5, <2>6, <2>7, HaltBroken
<1>. QED
  BY <1>1, <1>2

LEMMA FailedBroken ==
  ASSUME MaxRetries = 0, TypeOK, Housed(actor), Ordered(actor), StorageFailed
  PROVE  Broken(actor')
<1>1. ~actor.closed /\ actor \in Actor
  BY DEF StorageFailed, TypeOK
<1>2. CASE Halts({actor})
  <2>1. actor' = Halt(actor)
    BY <1>2 DEF Halts
  <2>. QED
    BY <1>1, <2>1, HousedBehaved, WithinSelf, HaltBroken
<1>. QED
  BY <1>1, <1>2, SentFails, ReportFails, TakeFails, SteeringFails, EndFails DEF StorageFailed

-----------------------------------------------------------------------------
(* The invariant behind OneHome and SaidInOrder: until an append fails     *)
(* each line is in one place and the row is in order; after it, Broken.    *)

InPlace == TypeOK /\ ((Housed(actor) /\ Ordered(actor)) \/ Broken(actor))

LEMMA InPlaceStep ==
  ASSUME MaxRetries = 0, InPlace, [Next]_vars
  PROVE  InPlace'
<1>. SUFFICES TypeOK' /\ ((Housed(actor') /\ Ordered(actor')) \/ Broken(actor'))
  BY DEF InPlace, TypeOK, Housed, Ordered, Broken, Placed, Homes, Occurs, Arrivals, Barred, Voiced,
         LinedUp, Spoken, InOrder, Plain, Loud, Voices, Post, ProseOf, IsCommand, AtGate, AtMost
<1>1. TypeOK'
  BY TypeStep DEF InPlace
<1>2. CASE Broken(actor)
  <2>1. actor' = actor
    BY <1>2 DEF Broken, Next, vars, Submit, Deliver, Gated, CommandFinished, Interrupt, Withdraw,
                Compact, Ask, Answer, ReachBarrier, Absorb, Steer, TurnFinished, CompletionReady,
                Close, ReserveDelete, StorageFailed, Stopped
  <2>. QED
    BY <1>1, <1>2, <2>1
<1>3. CASE Housed(actor) /\ Ordered(actor) /\ StorageFailed
  BY <1>1, <1>3, FailedBroken DEF InPlace
<1>4. CASE Housed(actor) /\ Ordered(actor) /\ ~StorageFailed
  BY <1>1, <1>4, HousedStep, OrderedStep DEF InPlace
<1>. QED
  BY <1>2, <1>3, <1>4 DEF InPlace

LEMMA InPlaceHomes ==
  ASSUME InPlace
  PROVE  OneHome
<1>. SUFFICES ASSUME NEW i \in Intents
              PROVE  /\ Homes(actor, i) <= Once(actor.line[i] # "unsent")
                     /\ ~actor.failed => Homes(actor, i) = Once(actor.line[i] # "unsent")
  BY DEF OneHome
<1>1. CASE Housed(actor)
  <2>1. Homes(actor, i) + Tally(<<>>, {i}) = Once(actor.line[i] # "unsent")
    BY <1>1 DEF Housed, Placed
  <2>2. Tally(<<>>, {i}) = 0 /\ Homes(actor, i) \in Nat
    BY TallySmall, HomesNat DEF InPlace, TypeOK
  <2>. QED
    BY <2>1, <2>2
<1>2. CASE Broken(actor)
  BY <1>2 DEF Broken, AtMost
<1>. QED
  BY <1>1, <1>2 DEF InPlace

\* Where a line arrived is one place, so an order of arrivals is one of
\* these places.
LEMMA InPlaceSaid ==
  ASSUME InPlace
  PROVE  SaidInOrder
<1>. DEFINE s == actor
            A == Names(s.said)
<1>0. /\ s \in Actor /\ s.said \in Seq(Said) /\ Arrivals(s) /\ A \in Seq(Intents)
      /\ \A w \in Said : w.intent \in Intents
  BY RowTypes DEF InPlace, TypeOK, Housed, Broken
<1>1. Asc(InOrder(s), A) /\ All(A, Voices(s))
  BY DEF InPlace, Broken, Ordered, Voiced, LinedUp, Row, Spoken
<1>2. DOMAIN A = DOMAIN s.said /\ \A k \in DOMAIN s.said : A[k] = s.said[k].intent
  BY <1>0, NamesIs
<1>. HIDE DEF s, A
<1>. SUFFICES ASSUME NEW a \in DOMAIN s.said, NEW b \in DOMAIN s.said, a < b,
                     s.line[s.said[a].intent] # "prompt", s.line[s.said[b].intent] # "prompt"
              PROVE  ArrivalOf(s.said[a].intent) < ArrivalOf(s.said[b].intent)
  BY DEF SaidInOrder, s
<1>. DEFINE i == s.said[a].intent
            j == s.said[b].intent
<1>3. <<i, j>> \in InOrder(s) /\ i \in Voices(s) /\ j \in Voices(s)
  BY <1>1, <1>2 DEF Asc, All
<1>4. i \in Plain(s) /\ j \in Plain(s)
  BY <1>3 DEF Voices, Plain
<1>. HIDE DEF i, j
<1>5. PICK m, n \in DOMAIN s.arrived : m < n /\ s.arrived[m] = i /\ s.arrived[n] = j
  BY <1>3, <1>4 DEF InOrder
<1>6. \A k \in DOMAIN s.arrived : (s.arrived[k] = i => k = m) /\ (s.arrived[k] = j => k = n)
  BY <1>0, <1>5 DEF Arrivals
<1>7. ArrivalOf(i) = m /\ ArrivalOf(j) = n
  BY <1>5, <1>6 DEF ArrivalOf, s
<1>. QED
  BY <1>5, <1>7 DEF i, j

LEMMA InPlaceAlways == MaxRetries = 0 => (Spec => []InPlace)
<1>. SUFFICES ASSUME MaxRetries = 0 PROVE Spec => []InPlace
  OBVIOUS
<1>1. Init => InPlace
  BY InitType, InitHoused, InitVoiced DEF InPlace
<1>2. InPlace /\ [Next]_vars => InPlace'
  BY InPlaceStep
<1>. QED
  BY <1>1, <1>2, PTL DEF Spec

\* The handlers of session.rs and session/ (submit, deliver, the gate's and
\* a command's reports, withdraw, the barrier, the end of a turn, close)
\* hand a line from one place to the next within one message: while no
\* intent is sent twice and no append fails, each line that was sent is in
\* exactly one of the gate, the queue, a command, a barrier's reply and its
\* one final outcome.  At whichever append of whichever handler the store
\* fails, no line has a second outcome, though some have none.
THEOREM OnePlaceEach == MaxRetries = 0 => (Spec => []OneHome)
<1>1. InPlace => OneHome
  BY InPlaceHomes
<1>. QED
  BY <1>1, InPlaceAlways, PTL

\* start_turn, the barrier and the log of a session without a model write
\* user items to the journal from the gate, from the queue and from a
\* barrier's reply; while no intent is sent twice, they write prose in the
\* order it arrived in, commands and what they turned into apart, and a
\* journal cut short by a failing append is in that order too.
THEOREM JournalInOrder == MaxRetries = 0 => (Spec => []SaidInOrder)
<1>1. InPlace => SaidInOrder
  BY InPlaceSaid
<1>. QED
  BY <1>1, InPlaceAlways, PTL
=============================================================================
