--------------------------- MODULE TurnLoopProofs ---------------------------
(***************************************************************************)
(* The safety of a session's turns for every budget of rounds, retries,    *)
(* recoveries and compactions.  TurnInv is inductive: Counts says place by *)
(* place what has been spent, Transcript what a running turn's items are,  *)
(* and Ended what a turn leaves.                                           *)
(***************************************************************************)
EXTENDS TurnLoop, Stepwise

\* A request is out, or its response is being dealt with.
Sent == {"establishing", "streaming", "stopHooks", "acting", "barrier"}

\* The requests a turn is forgiven.
Spare == (IF overflowCompacted THEN 1 ELSE 0) + (IF emptyRetryUsed THEN 1 ELSE 0)

\* Each request belongs to a round, a retry or a spare; one that is out is ahead
\* of its round.
Paces ==
  /\ kind = "respond" => /\ at # "compacted"
                         /\ requests <= round + retries + Spare + (IF at \in Sent THEN 1 ELSE 0)
                         /\ at \in Sent \cup {"assembling"} => round < MaxRounds
  /\ kind = "agent" => /\ at \in {"starting", "establishing", "streaming"}
                       /\ requests = IF at = "starting" THEN 0 ELSE 1
  /\ kind = "compact" => /\ at \in {"starting", "assembling", "compactHooks", "compacting", "compacted"}
                         /\ requests = 0

\* A compaction has the reason of its turn; the threshold's is asked only
\* before the breaker trips.
Compacts ==
  /\ kind = "respond" => why \in {"threshold", "overflow"}
  /\ kind = "compact" => why = "manual"
  /\ why = "threshold" => round < MaxRounds /\ failures < Trip

Counts ==
  /\ round <= MaxRounds /\ retries <= MaxRetries
  /\ RequestsBounded
  /\ paid <= failures /\ PaidInVain
  /\ at # "idle" => Paces
  /\ at \in {"compactHooks", "compacting"} => Compacts

\* What the transcript has of all turns: nothing of a stream that was tried again.
Told == \A i \in DOMAIN items : items[i].turn <= turns /\ items[i].part # "retried"

\* What a running turn has recorded: no marker, and nothing open but of the
\* response that streams or the calls that are at work.
Recorded ==
  \A i \in DOMAIN items : Current(i) =>
    /\ items[i].kind # "marker"
    /\ Open(i) => \/ at = "streaming" /\ Ours(i)
                  \/ at = "acting" /\ Ours(i) /\ items[i].kind = "call"

Transcript == at # "idle" => status = "running" /\ Recorded

Ended == at = "idle" => status # "running" /\ EndedClosed

TurnInv == TypeOK /\ Counts /\ Told /\ Transcript /\ Ended /\ OneEnding

\* What withdrawing a response leaves: items that were there, and none of its own.
LEMMA WithoutLeaves ==
  ASSUME NEW S, NEW s \in Seq(S)
  PROVE  /\ Without(s) \in Seq(S)
         /\ \A i \in DOMAIN Without(s) :
              \E j \in DOMAIN s : Without(s)[i] = s[j] /\ s[j].part # "streamed"
<1>. DEFINE n == Len(s)
            step == [k \in Nat |-> [t \in Seq(S) |->
                       IF k \in 1..n /\ s[k].part # "streamed" THEN Append(t, s[k]) ELSE t]]
            Is(f) == f = [k \in 0..n |-> IF k = 0 THEN <<>>
                                         ELSE IF s[k].part = "streamed" THEN f[k - 1]
                                         ELSE Append(f[k - 1], s[k])]
            g == CHOOSE f : Is(f)
            From(t) == \A i \in DOMAIN t : \E j \in DOMAIN s : t[i] = s[j] /\ s[j].part # "streamed"
            P == {k \in 0..n : g[k] \in Seq(S) /\ From(g[k])}
<1>0. n \in Nat
  BY LenProperties
<1>1. DOMAIN s = 1..n /\ \A k \in 1..n : s[k] \in S
  BY LenProperties, ElementOfSeq
<1>2. Without(s) = g[n]
  BY DEF Without
<1>3. Is(g)
  <2>1. step \in [Nat -> [Seq(S) -> Seq(S)]]
    <3>1. \A k \in 1..n, t \in Seq(S) : Append(t, s[k]) \in Seq(S)
      BY <1>1, AppendProperties
    <3>. QED
      BY <3>1
  <2>2. <<>> \in Seq(S)
    BY EmptySeq
  <2>3. PICK f \in [0..n -> Seq(S)] : f[0] = <<>> /\ \A k \in 1..n : f[k] = step[k][f[k - 1]]
    <3>. HIDE DEF n, step
    <3>1. \E f : Iterated(f, Seq(S), <<>>, step, n)
      BY <1>0, <2>1, <2>2, Iterates
    <3>. QED
      BY <3>1 DEF Iterated
  <2>4. ASSUME NEW k \in 1..n
        PROVE  f[k] = IF s[k].part = "streamed" THEN f[k - 1] ELSE Append(f[k - 1], s[k])
    <3>. HIDE DEF n
    <3>1. k \in Nat /\ k - 1 \in 0..n
      BY <1>0
    <3>2. f[k - 1] \in Seq(S) /\ f[k] = step[k][f[k - 1]]
      BY <2>3, <3>1
    <3>3. \A t \in Seq(S) : step[k][t] = IF s[k].part = "streamed" THEN t ELSE Append(t, s[k])
      BY <3>1
    <3>. HIDE DEF step
    <3>. QED
      BY <3>2, <3>3
  <2>5. Is(f)
    <3>. HIDE DEF n, step
    <3>. DEFINE h == [k \in 0..n |-> IF k = 0 THEN <<>>
                                     ELSE IF s[k].part = "streamed" THEN f[k - 1]
                                     ELSE Append(f[k - 1], s[k])]
    <3>1. ASSUME NEW k \in 0..n PROVE f[k] = h[k]
      <4>1. k = 0 \/ k \in 1..n
        BY <1>0
      <4>. QED
        BY <4>1, <2>3, <2>4
    <3>2. f = [k \in 0..n |-> f[k]]
      BY <2>3
    <3>. QED
      BY <3>1, <3>2
  <2>. HIDE DEF Is
  <2>. QED
    BY <2>5
<1>. HIDE DEF g
<1>4. /\ g[0] = <<>>
      /\ \A k \in 1..n : g[k] = IF s[k].part = "streamed" THEN g[k - 1] ELSE Append(g[k - 1], s[k])
  <2>. HIDE DEF n
  <2>1. 0 \in 0..n /\ \A k \in 1..n : k \in 0..n /\ k # 0
    BY <1>0
  <2>. QED
    BY <1>3, <2>1
<1>5. 0 \in P
  <2>1. 0 \in 0..n /\ <<>> \in Seq(S) /\ DOMAIN <<>> = {}
    BY <1>0, EmptySeq
  <2>. QED
    BY <1>4, <2>1
<1>6. ASSUME NEW k \in 1..n, k - 1 \in P PROVE k \in P
  <2>1. k \in 0..n /\ g[k - 1] \in Seq(S) /\ From(g[k - 1]) /\ s[k] \in S
    BY <1>0, <1>1, <1>6
  <2>2. CASE s[k].part = "streamed"
    BY <1>4, <2>1, <2>2
  <2>3. CASE s[k].part # "streamed"
    <3>. DEFINE t == g[k - 1]
                u == Append(t, s[k])
    <3>1. /\ u \in Seq(S) /\ DOMAIN u = 1..(Len(t) + 1) /\ DOMAIN t = 1..Len(t) /\ Len(t) \in Nat
          /\ \A i \in 1..Len(t) : u[i] = t[i]
          /\ u[Len(t) + 1] = s[k]
      BY <2>1, AppendProperties, LenProperties
    <3>2. From(u)
      <4>. SUFFICES ASSUME NEW i \in DOMAIN u
                    PROVE  \E j \in DOMAIN s : u[i] = s[j] /\ s[j].part # "streamed"
        OBVIOUS
      <4>. HIDE DEF t, u
      <4>1. CASE i = Len(t) + 1
        BY <1>1, <2>3, <3>1, <4>1
      <4>2. CASE i \in 1..Len(t)
        BY <2>1, <3>1, <4>2 DEF t
      <4>. QED
        BY <3>1, <4>1, <4>2
    <3>3. g[k] = u
      BY <1>4, <2>3
    <3>. QED
      BY <2>1, <3>1, <3>2, <3>3
  <2>. QED
    BY <2>2, <2>3
<1>7. 0..n \subseteq P
  <2>. HIDE DEF P, n
  <2>. QED
    BY <1>0, <1>5, <1>6, UpTo
<1>8. n \in P
  <2>1. n \in 0..n
    BY <1>0
  <2>. QED
    BY <1>7, <2>1
<1>. QED
  BY <1>2, <1>8

\* What closing an item leaves of it, and taking it for another part.
LEMMA ChangedItem ==
  ASSUME NEW x \in ItemSet, NEW p \in Parts
  PROVE  /\ x.turn \in Nat /\ x.kind \in ItemKinds /\ x.part \in Parts /\ x.open \in BOOLEAN
         /\ [x EXCEPT !.open = FALSE] \in ItemSet
         /\ [x EXCEPT !.open = FALSE].turn = x.turn /\ [x EXCEPT !.open = FALSE].kind = x.kind
         /\ [x EXCEPT !.open = FALSE].part = x.part /\ [x EXCEPT !.open = FALSE].open = FALSE
         /\ [x EXCEPT !.part = p] \in ItemSet
         /\ [x EXCEPT !.part = p].turn = x.turn /\ [x EXCEPT !.part = p].kind = x.kind
         /\ [x EXCEPT !.part = p].part = p /\ [x EXCEPT !.part = p].open = x.open
BY DEF ItemSet

\* s has the items of the transcript, in their places.
SameItems(s) ==
  /\ s \in Seq(ItemSet) /\ DOMAIN s = DOMAIN items
  /\ \A i \in DOMAIN items : s[i].kind = items[i].kind /\ s[i].turn = items[i].turn
                             /\ s[i].part = items[i].part

\* Finishing a response closes its text; ending a turn closes everything it has.
\* Both leave every item in its place.
LEMMA ClosingItems ==
  ASSUME items \in Seq(ItemSet)
  PROVE  /\ SameItems(Finished)
         /\ \A i \in DOMAIN items :
              Finished[i].open = (items[i].open /\ ~(Ours(i) /\ items[i].kind = "text"))
         /\ SameItems(AllClosed)
         /\ \A i \in DOMAIN items : AllClosed[i].open = (items[i].open /\ ~Current(i))
         /\ \A i \in DOMAIN items :
              LET closed == [items EXCEPT ![i].open = FALSE]
              IN  /\ SameItems(closed)
                  /\ \A j \in DOMAIN items : closed[j].open = (items[j].open /\ j # i)
<1>1. \A i \in DOMAIN items : items[i] \in ItemSet
  BY LenProperties, ElementOfSeq
<1>2. \A i \in DOMAIN items :
        /\ items[i].open \in BOOLEAN
        /\ [items[i] EXCEPT !.open = FALSE] \in ItemSet
        /\ [items[i] EXCEPT !.open = FALSE].kind = items[i].kind
        /\ [items[i] EXCEPT !.open = FALSE].turn = items[i].turn
        /\ [items[i] EXCEPT !.open = FALSE].part = items[i].part
        /\ [items[i] EXCEPT !.open = FALSE].open = FALSE
  <2>1. "kept" \in Parts
    BY DEF Parts
  <2>. QED
    BY <1>1, <2>1, ChangedItem
<1>3. /\ \A i \in DOMAIN items :
           Finished[i] = IF Ours(i) /\ items[i].kind = "text" THEN [items[i] EXCEPT !.open = FALSE]
                         ELSE items[i]
      /\ Finished = [i \in DOMAIN items |-> Finished[i]]
  BY DEF Finished
<1>4. Finished \in Seq(ItemSet) /\ DOMAIN Finished = DOMAIN items
  <2>1. \A i \in DOMAIN items : Finished[i] \in ItemSet
    BY <1>1, <1>2, <1>3
  <2>. QED
    BY <1>3, <2>1, MappedSeq
<1>5. \A i \in DOMAIN items :
        /\ Finished[i].kind = items[i].kind /\ Finished[i].turn = items[i].turn
        /\ Finished[i].part = items[i].part
        /\ Finished[i].open = (items[i].open /\ ~(Ours(i) /\ items[i].kind = "text"))
  BY <1>2, <1>3
<1>6. /\ \A i \in DOMAIN items :
           AllClosed[i] = IF Current(i) THEN [items[i] EXCEPT !.open = FALSE] ELSE items[i]
      /\ AllClosed = [i \in DOMAIN items |-> AllClosed[i]]
  BY DEF AllClosed
<1>7. AllClosed \in Seq(ItemSet) /\ DOMAIN AllClosed = DOMAIN items
  <2>1. \A i \in DOMAIN items : AllClosed[i] \in ItemSet
    BY <1>1, <1>2, <1>6
  <2>. QED
    BY <1>6, <2>1, MappedSeq
<1>8. ASSUME NEW i \in DOMAIN items
      PROVE  LET closed == [items EXCEPT ![i].open = FALSE]
             IN  /\ SameItems(closed)
                 /\ \A j \in DOMAIN items : closed[j].open = (items[j].open /\ j # i)
  <2>. DEFINE c == [items EXCEPT ![i].open = FALSE]
  <2>1. /\ \A j \in DOMAIN items :
             c[j] = IF j = i THEN [items[j] EXCEPT !.open = FALSE] ELSE items[j]
        /\ c = [j \in DOMAIN items |-> c[j]]
    OBVIOUS
  <2>. HIDE DEF c
  <2>2. c \in Seq(ItemSet) /\ DOMAIN c = DOMAIN items
    <3>1. \A j \in DOMAIN items : c[j] \in ItemSet
      BY <1>1, <1>2, <2>1
    <3>. QED
      BY <2>1, <3>1, MappedSeq
  <2>3. \A j \in DOMAIN items :
           /\ c[j].kind = items[j].kind /\ c[j].turn = items[j].turn /\ c[j].part = items[j].part
           /\ c[j].open = (items[j].open /\ j # i)
    BY <1>2, <2>1
  <2>. QED
    BY <2>2, <2>3 DEF c, SameItems
<1>9. \A i \in DOMAIN items :
        /\ AllClosed[i].kind = items[i].kind /\ AllClosed[i].turn = items[i].turn
        /\ AllClosed[i].part = items[i].part /\ AllClosed[i].open = (items[i].open /\ ~Current(i))
  BY <1>2, <1>6
<1>10. SameItems(Finished) /\ SameItems(AllClosed)
  BY <1>4, <1>5, <1>7, <1>9 DEF SameItems
<1>. QED
  BY <1>5, <1>8, <1>9, <1>10

\* Taking a response's items for another part changes nothing else.
LEMMA BecomeItems ==
  ASSUME NEW s \in Seq(ItemSet), NEW p \in Parts
  PROVE  /\ Become(p, s) \in Seq(ItemSet) /\ DOMAIN Become(p, s) = DOMAIN s
         /\ \A i \in DOMAIN s :
              /\ Become(p, s)[i].kind = s[i].kind /\ Become(p, s)[i].turn = s[i].turn
              /\ Become(p, s)[i].open = s[i].open
              /\ Become(p, s)[i].part = IF s[i].part = "streamed" THEN p ELSE s[i].part
<1>. DEFINE b == Become(p, s)
<1>1. \A i \in DOMAIN s : s[i] \in ItemSet
  BY LenProperties, ElementOfSeq
<1>2. /\ \A i \in DOMAIN s :
           b[i] = IF s[i].part = "streamed" THEN [s[i] EXCEPT !.part = p] ELSE s[i]
      /\ b = [i \in DOMAIN s |-> b[i]]
  BY DEF Become
<1>. HIDE DEF b
<1>3. \A i \in DOMAIN s :
        /\ b[i] \in ItemSet /\ b[i].kind = s[i].kind /\ b[i].turn = s[i].turn
        /\ b[i].open = s[i].open
        /\ b[i].part = IF s[i].part = "streamed" THEN p ELSE s[i].part
  <2>. SUFFICES ASSUME NEW i \in DOMAIN s
                PROVE  /\ b[i] \in ItemSet /\ b[i].kind = s[i].kind /\ b[i].turn = s[i].turn
                       /\ b[i].open = s[i].open
                       /\ b[i].part = IF s[i].part = "streamed" THEN p ELSE s[i].part
    OBVIOUS
  <2>. DEFINE x == s[i]
              y == [x EXCEPT !.part = p]
  <2>1. /\ x \in ItemSet /\ y \in ItemSet /\ y.turn = x.turn /\ y.kind = x.kind
        /\ y.part = p /\ y.open = x.open
    BY <1>1, ChangedItem
  <2>2. b[i] = IF x.part = "streamed" THEN y ELSE x
    BY <1>2
  <2>. HIDE DEF x, y
  <2>3. /\ b[i] \in ItemSet /\ b[i].kind = x.kind /\ b[i].turn = x.turn /\ b[i].open = x.open
        /\ b[i].part = IF x.part = "streamed" THEN p ELSE x.part
    BY <2>1, <2>2
  <2>. QED
    BY <2>3 DEF x
<1>4. b \in Seq(ItemSet) /\ DOMAIN b = DOMAIN s
  BY <1>2, <1>3, MappedSeq
<1>. QED
  BY <1>3, <1>4 DEF b

\* An item that is added stands behind the others.
LEMMA AddedItem ==
  ASSUME NEW s \in Seq(ItemSet), NEW new \in ItemSet
  PROVE  /\ Append(s, new) \in Seq(ItemSet)
         /\ DOMAIN s = 1..Len(s) /\ Len(s) \in Nat
         /\ DOMAIN Append(s, new) = 1..(Len(s) + 1)
         /\ \A i \in 1..Len(s) : Append(s, new)[i] = s[i]
         /\ Append(s, new)[Len(s) + 1] = new
BY AppendProperties, LenProperties

\* The marker, and a block or a call that begins, are items.
LEMMA NewItems ==
  ASSUME turns \in Nat
  PROVE  /\ Item("marker", "kept", FALSE) \in ItemSet
         /\ Item("marker", "kept", FALSE).kind = "marker" /\ Item("marker", "kept", FALSE).open = FALSE
         /\ Item("marker", "kept", FALSE).turn = turns /\ Item("marker", "kept", FALSE).part = "kept"
         /\ \A k \in {"text", "call"} :
              /\ Item(k, "streamed", TRUE) \in ItemSet
              /\ Item(k, "streamed", TRUE).kind = k /\ Item(k, "streamed", TRUE).part = "streamed"
              /\ Item(k, "streamed", TRUE).turn = turns
BY DEF Item, ItemSet, ItemKinds, Parts

\* The numbers and flags of the state, without its items.
LEMMA Scalars ==
  ASSUME TypeOK
  PROVE  /\ kind \in Kinds /\ at \in Places /\ why \in Reasons
         /\ round \in Nat /\ retries \in Nat /\ recoveries \in Nat /\ compactions \in Nat
         /\ emptyRetryUsed \in BOOLEAN /\ overflowCompacted \in BOOLEAN
         /\ requests \in Nat /\ failures \in Nat /\ paid \in Nat /\ rebuilt \in BOOLEAN
BY DEF TypeOK

\* No step spends more than its place allows.
LEMMA CountsStep ==
  ASSUME TypeOK, Counts, [Next]_vars
  PROVE  Counts'
<1>. USE TurnAssumption, Scalars DEF Counts, Paces, Compacts, Sent, Spare, RequestsBounded,
       PaidInVain, counters, breaker, setting, flags, Kinds, Places, Reasons
<1>1. CASE OpenTurn
  BY <1>1 DEF OpenTurn, Fresh, Kinds
<1>2. CASE Cancel
  BY <1>2 DEF Cancel
<1>3. CASE Stop
  BY <1>3 DEF Stop
<1>4. CASE Drop
  BY <1>4 DEF Drop, InterruptWith, EndWith
<1>5. CASE Panic
  BY <1>5 DEF Panic, EndWith
<1>6. CASE AwaitCancelled
  BY <1>6 DEF AwaitCancelled, CancelledAt, Interrupt, InterruptWith, EndWith
<1>7. CASE Started
  BY <1>7 DEF Started, Raced, Send, GoTo, EndWith
<1>8. CASE RoundTrip
  BY <1>8 DEF RoundTrip, Interrupt, InterruptWith, EndWith, GoTo
<1>9. CASE Assembled
  BY <1>9 DEF Assembled, CompactFor, Send, GoTo, MayCompact
<1>10. CASE Denied
  BY <1>10 DEF Denied, Interrupt, InterruptWith, EndWith
<1>11. CASE CompactStart
  BY <1>11 DEF CompactStart, Back, GoTo, Send
<1>12. CASE CompactShrinks
  BY <1>12 DEF CompactShrinks, Back, GoTo, Send
<1>13. CASE CompactUseless
  BY <1>13 DEF CompactUseless, Back, GoTo, Send
<1>14. CASE ManualDone
  BY <1>14 DEF ManualDone, Interrupt, InterruptWith, EndWith
<1>15. CASE Established
  BY <1>15 DEF Established, Raced, GoTo
<1>16. CASE StreamCancelled
  BY <1>16 DEF StreamCancelled, InterruptWith, EndWith
<1>17. CASE AgentEnds
  BY <1>17 DEF AgentEnds, EndWith
<1>18. CASE Overflow
  BY <1>18 DEF Overflow, Responding, Retrying, CompactFor, GoTo
<1>19. CASE Retry
  BY <1>19 DEF Retry, Responding, Retrying, GoTo
<1>20. CASE Slept
  BY <1>20 DEF Slept, GoTo
<1>21. CASE StreamFails
  BY <1>21 DEF StreamFails, Responding, EndWith
<1>22. CASE Decide
  BY <1>22 DEF Decide, Answered, EndWith, GoTo, NextRound
<1>23. CASE StopHooks
  BY <1>23 DEF StopHooks, Raced, NextRound, EndWith, GoTo
<1>24. CASE Land
  BY <1>24 DEF Land
<1>25. CASE Acted
  BY <1>25 DEF Acted, Interrupt, InterruptWith, EndWith, GoTo
<1>26. CASE Barrier
  BY <1>26 DEF Barrier, Raced, NextRound, GoTo
<1>27. CASE TextStart
  BY <1>27 DEF TextStart, Begins
<1>28. CASE CallStart
  BY <1>28 DEF CallStart, Begins
<1>29. CASE BlockEnd
  BY <1>29 DEF BlockEnd
<1>30. CASE Done
  BY <1>30 DEF Done, vars
<1>31. CASE UNCHANGED vars
  BY <1>31 DEF vars
<1>32. CASE Reconfigure
  BY <1>32 DEF Reconfigure
<1>. QED
  BY <1>1, <1>2, <1>3, <1>4, <1>5, <1>6, <1>7, <1>8, <1>9, <1>10, <1>11, <1>12, <1>13, <1>14, <1>15, <1>16, <1>17, <1>18, <1>19, <1>20, <1>21, <1>22, <1>23, <1>24, <1>25, <1>26, <1>27, <1>28, <1>29, <1>30, <1>31, <1>32 DEF Next, Loop

\* The types of what a step makes of the items.
LEMMA ItemTypes ==
  ASSUME TypeOK
  PROVE  /\ items \in Seq(ItemSet) /\ Finished \in Seq(ItemSet) /\ AllClosed \in Seq(ItemSet)
         /\ Become("kept", items) \in Seq(ItemSet)
         /\ Become("retried", Withdrawn) \in Seq(ItemSet)
         /\ \A s \in Seq(ItemSet) : Append(s, Item("marker", "kept", FALSE)) \in Seq(ItemSet)
         /\ \A k \in {"text", "call"} : Append(items, Item(k, "streamed", TRUE)) \in Seq(ItemSet)
         /\ \A i \in DOMAIN items : [items EXCEPT ![i].open = FALSE] \in Seq(ItemSet)
<1>1. items \in Seq(ItemSet) /\ turns \in Nat /\ "kept" \in Parts /\ "retried" \in Parts
  BY DEF TypeOK, Parts
<1>2. Withdrawn \in Seq(ItemSet)
  BY <1>1, WithoutLeaves DEF Withdrawn
<1>3. \A s \in Seq(ItemSet) : Append(s, Item("marker", "kept", FALSE)) \in Seq(ItemSet)
  BY <1>1, AddedItem, NewItems
<1>4. \A k \in {"text", "call"} : Append(items, Item(k, "streamed", TRUE)) \in Seq(ItemSet)
  BY <1>1, AddedItem, NewItems
<1>5. /\ Finished \in Seq(ItemSet) /\ AllClosed \in Seq(ItemSet)
      /\ \A i \in DOMAIN items : [items EXCEPT ![i].open = FALSE] \in Seq(ItemSet)
  BY <1>1, ClosingItems DEF SameItems
<1>6. Become("kept", items) \in Seq(ItemSet) /\ Become("retried", Withdrawn) \in Seq(ItemSet)
  BY <1>1, <1>2, BecomeItems
<1>. QED
  BY <1>1, <1>3, <1>4, <1>5, <1>6

\* Every step leaves a sequence of items.
LEMMA ItemsTyped ==
  ASSUME TypeOK, [Next]_vars
  PROVE  items' \in Seq(ItemSet)
<1>. USE ItemTypes DEF counters, breaker, setting, flags
<1>1. CASE OpenTurn
  BY <1>1 DEF OpenTurn, Fresh, Kinds
<1>2. CASE Cancel
  BY <1>2 DEF Cancel
<1>3. CASE Stop
  BY <1>3 DEF Stop
<1>4. CASE Drop
  BY <1>4 DEF Drop, InterruptWith, EndWith
<1>5. CASE Panic
  BY <1>5 DEF Panic, EndWith
<1>6. CASE AwaitCancelled
  BY <1>6 DEF AwaitCancelled, CancelledAt, Interrupt, InterruptWith, EndWith
<1>7. CASE Started
  BY <1>7 DEF Started, Raced, Send, GoTo, EndWith
<1>8. CASE RoundTrip
  BY <1>8 DEF RoundTrip, Interrupt, InterruptWith, EndWith, GoTo
<1>9. CASE Assembled
  BY <1>9 DEF Assembled, CompactFor, Send, GoTo, MayCompact
<1>10. CASE Denied
  BY <1>10 DEF Denied, Interrupt, InterruptWith, EndWith
<1>11. CASE CompactStart
  BY <1>11 DEF CompactStart, Back, GoTo, Send
<1>12. CASE CompactShrinks
  BY <1>12 DEF CompactShrinks, Back, GoTo, Send
<1>13. CASE CompactUseless
  BY <1>13 DEF CompactUseless, Back, GoTo, Send
<1>14. CASE ManualDone
  BY <1>14 DEF ManualDone, Interrupt, InterruptWith, EndWith
<1>15. CASE Established
  BY <1>15 DEF Established, Raced, GoTo
<1>16. CASE StreamCancelled
  BY <1>16 DEF StreamCancelled, InterruptWith, EndWith
<1>17. CASE AgentEnds
  BY <1>17 DEF AgentEnds, EndWith
<1>18. CASE Overflow
  BY <1>18 DEF Overflow, Responding, Retrying, CompactFor, GoTo
<1>19. CASE Retry
  BY <1>19 DEF Retry, Responding, Retrying, GoTo
<1>20. CASE Slept
  BY <1>20 DEF Slept, GoTo
<1>21. CASE StreamFails
  BY <1>21 DEF StreamFails, Responding, EndWith
<1>22. CASE Decide
  BY <1>22 DEF Decide, Answered, EndWith, GoTo, NextRound
<1>23. CASE StopHooks
  BY <1>23 DEF StopHooks, Raced, NextRound, EndWith, GoTo
<1>24. CASE Land
  BY <1>24 DEF Land, Closing, Calls
<1>25. CASE Acted
  BY <1>25 DEF Acted, Interrupt, InterruptWith, EndWith, GoTo
<1>26. CASE Barrier
  BY <1>26 DEF Barrier, Raced, NextRound, GoTo
<1>27. CASE TextStart
  BY <1>27 DEF TextStart, Begins
<1>28. CASE CallStart
  BY <1>28 DEF CallStart, Begins
<1>29. CASE BlockEnd
  BY <1>29 DEF BlockEnd, Closing
<1>30. CASE Done
  BY <1>30 DEF Done, vars
<1>31. CASE UNCHANGED vars
  BY <1>31 DEF vars
<1>32. CASE Reconfigure
  BY <1>32 DEF Reconfigure
<1>. QED
  BY <1>1, <1>2, <1>3, <1>4, <1>5, <1>6, <1>7, <1>8, <1>9, <1>10, <1>11, <1>12, <1>13, <1>14, <1>15, <1>16, <1>17, <1>18, <1>19, <1>20, <1>21, <1>22, <1>23, <1>24, <1>25, <1>26, <1>27, <1>28, <1>29, <1>30, <1>31, <1>32 DEF Next, Loop

\* The type invariant but for the items.
Plain ==
  /\ turns \in Nat /\ kind \in Kinds /\ holds \in BOOLEAN /\ compactor \in BOOLEAN
  /\ at \in Places /\ why \in Reasons /\ status \in Statuses
  /\ round \in Nat /\ retries \in Nat /\ recoveries \in Nat /\ compactions \in Nat
  /\ emptyRetryUsed \in BOOLEAN /\ overflowCompacted \in BOOLEAN
  /\ requests \in Nat /\ rebuilt \in BOOLEAN
  /\ failures \in Nat /\ paid \in Nat
  /\ cancelled \in BOOLEAN /\ stopped \in BOOLEAN

\* Every step keeps the other types.
LEMMA PlainStep ==
  ASSUME Plain, [Next]_vars
  PROVE  Plain'
<1>. USE TurnAssumption DEF Plain, counters, breaker, setting, flags, Kinds, Places,
       Reasons, Statuses
<1>1. CASE OpenTurn
  <2>1. PICK k \in Kinds : Fresh(k)
    BY <1>1 DEF OpenTurn
  <2>2. /\ kind' \in Kinds /\ at' \in Places /\ why' \in Reasons /\ status' \in Statuses
    BY <2>1 DEF Fresh
  <2>3. /\ round' \in Nat /\ retries' \in Nat /\ recoveries' \in Nat /\ compactions' \in Nat
        /\ requests' \in Nat /\ emptyRetryUsed' \in BOOLEAN /\ overflowCompacted' \in BOOLEAN
        /\ cancelled' \in BOOLEAN /\ stopped' \in BOOLEAN
    BY <2>1 DEF Fresh
  <2>4. /\ turns' \in Nat /\ holds' \in BOOLEAN /\ compactor' \in BOOLEAN
        /\ rebuilt' \in BOOLEAN /\ failures' \in Nat /\ paid' \in Nat
    <3>1. turns' \in Nat /\ rebuilt' \in BOOLEAN /\ failures' \in Nat /\ paid' \in Nat
      <4>1. /\ turns' = turns + 1 /\ rebuilt' = FALSE
            /\ (failures' = failures /\ paid' = paid) \/ (failures' = 0 /\ paid' = 0)
        BY <1>1, Zenon DEF OpenTurn
      <4>2. rebuilt' \in BOOLEAN
        BY <4>1, Zenon
      <4>3. turns \in Nat /\ failures \in Nat /\ paid \in Nat
        BY Zenon
      <4>4. turns' \in Nat /\ failures' \in Nat /\ paid' \in Nat
        BY <4>1, <4>3
      <4>. QED
        BY <4>2, <4>4
    <3>2. holds' \in BOOLEAN /\ compactor' \in BOOLEAN
      <4>1. compactor' \in BOOLEAN /\ (holds' = holds \/ holds' \in BOOLEAN)
        BY <1>1, Zenon DEF OpenTurn
      <4>. QED
        BY <4>1
    <3>. QED
      BY <3>1, <3>2
  <2>. QED
    BY <2>2, <2>3, <2>4
<1>2. CASE Cancel
  BY <1>2 DEF Cancel
<1>3. CASE Stop
  BY <1>3 DEF Stop
<1>4. CASE Drop
  BY <1>4 DEF Drop, InterruptWith, EndWith
<1>5. CASE Panic
  BY <1>5 DEF Panic, EndWith
<1>6. CASE AwaitCancelled
  BY <1>6 DEF AwaitCancelled, CancelledAt, Interrupt, InterruptWith, EndWith
<1>7. CASE Started
  BY <1>7 DEF Started, Raced, Send, GoTo, EndWith
<1>8. CASE RoundTrip
  BY <1>8 DEF RoundTrip, Interrupt, InterruptWith, EndWith, GoTo
<1>9. CASE Assembled
  BY <1>9 DEF Assembled, CompactFor, Send, GoTo, MayCompact
<1>10. CASE Denied
  BY <1>10 DEF Denied, Interrupt, InterruptWith, EndWith
<1>11. CASE CompactStart
  BY <1>11 DEF CompactStart, Back, GoTo, Send
<1>12. CASE CompactShrinks
  BY <1>12 DEF CompactShrinks, Back, GoTo, Send
<1>13. CASE CompactUseless
  BY <1>13 DEF CompactUseless, Back, GoTo, Send
<1>14. CASE ManualDone
  BY <1>14 DEF ManualDone, Interrupt, InterruptWith, EndWith
<1>15. CASE Established
  BY <1>15 DEF Established, Raced, GoTo
<1>16. CASE StreamCancelled
  BY <1>16 DEF StreamCancelled, InterruptWith, EndWith
<1>17. CASE AgentEnds
  BY <1>17 DEF AgentEnds, EndWith
<1>18. CASE Overflow
  BY <1>18 DEF Overflow, Responding, Retrying, CompactFor, GoTo
<1>19. CASE Retry
  BY <1>19 DEF Retry, Responding, Retrying, GoTo
<1>20. CASE Slept
  BY <1>20 DEF Slept, GoTo
<1>21. CASE StreamFails
  BY <1>21 DEF StreamFails, Responding, EndWith
<1>22. CASE Decide
  <2>1. round' \in Nat /\ recoveries' \in Nat
    BY <1>22 DEF Decide, NextRound
  <2>4. emptyRetryUsed' \in BOOLEAN
    <3>1. emptyRetryUsed' = TRUE \/ emptyRetryUsed' = emptyRetryUsed
      BY <1>22, Zenon DEF Decide
    <3>. QED
      BY <3>1
  <2>2. at' \in Places /\ why' \in Reasons /\ status' \in Statuses
    BY <1>22 DEF Decide, EndWith, GoTo, NextRound
  <2>3. /\ turns' \in Nat /\ kind' \in Kinds /\ holds' \in BOOLEAN /\ compactor' \in BOOLEAN
        /\ retries' \in Nat /\ compactions' \in Nat /\ overflowCompacted' \in BOOLEAN
        /\ requests' \in Nat /\ rebuilt' \in BOOLEAN /\ failures' \in Nat /\ paid' \in Nat
        /\ cancelled' \in BOOLEAN /\ stopped' \in BOOLEAN
    BY <1>22 DEF Decide
  <2>. QED
    BY <2>1, <2>2, <2>3, <2>4
<1>23. CASE StopHooks
  BY <1>23 DEF StopHooks, Raced, NextRound, EndWith, GoTo
<1>24. CASE Land
  BY <1>24 DEF Land
<1>25. CASE Acted
  BY <1>25 DEF Acted, Interrupt, InterruptWith, EndWith, GoTo
<1>26. CASE Barrier
  BY <1>26 DEF Barrier, Raced, NextRound, GoTo
<1>27. CASE TextStart
  BY <1>27 DEF TextStart, Begins
<1>28. CASE CallStart
  BY <1>28 DEF CallStart, Begins
<1>29. CASE BlockEnd
  BY <1>29 DEF BlockEnd
<1>30. CASE Done
  BY <1>30 DEF Done, vars
<1>31. CASE UNCHANGED vars
  BY <1>31 DEF vars
<1>32. CASE Reconfigure
  BY <1>32 DEF Reconfigure
<1>. QED
  BY <1>1, <1>2, <1>3, <1>4, <1>5, <1>6, <1>7, <1>8, <1>9, <1>10, <1>11, <1>12, <1>13, <1>14, <1>15, <1>16, <1>17, <1>18, <1>19, <1>20, <1>21, <1>22, <1>23, <1>24, <1>25, <1>26, <1>27, <1>28, <1>29, <1>30, <1>31, <1>32 DEF Next, Loop

\* Every step keeps the types.
LEMMA TypeStep ==
  ASSUME TypeOK, [Next]_vars
  PROVE  TypeOK'
<1>1. Plain
  BY DEF TypeOK, Plain
<1>2. Plain' /\ items' \in Seq(ItemSet)
  BY <1>1, PlainStep, ItemsTyped
<1>. QED
  BY <1>2 DEF TypeOK, Plain

-----------------------------------------------------------------------------
(* What the turn records. *)

Story == Told /\ Transcript /\ Ended /\ OneEnding

\* A turn that goes on is not marked as ended.
LEMMA GoesOn ==
  ASSUME at' # "idle", status' = "running", Told', Recorded'
  PROVE  Story'
BY DEF Story, Transcript, Recorded, Ended, OneEnding, Markers, Current

\* An interrupted turn has one marker and, at most, calls that are open.
LEMMA EndsInterrupted ==
  ASSUME TypeOK, turns' = turns, NEW s \in Seq(ItemSet), InterruptWith(s),
         \A i \in DOMAIN s : s[i].turn <= turns /\ s[i].part # "retried",
         \A i \in DOMAIN s : s[i].turn = turns => s[i].kind # "marker" /\ (s[i].open => s[i].kind = "call")
  PROVE  Story'
<1>. DEFINE m == Item("marker", "kept", FALSE)
<1>1. /\ m.kind = "marker" /\ m.open = FALSE /\ m.turn = turns /\ m.part = "kept" /\ turns \in Nat
      /\ DOMAIN s = 1..Len(s) /\ Len(s) \in Nat
      /\ DOMAIN Append(s, m) = 1..(Len(s) + 1)
      /\ \A i \in 1..Len(s) : Append(s, m)[i] = s[i]
      /\ Append(s, m)[Len(s) + 1] = m
  <2>1. /\ m \in ItemSet /\ m.kind = "marker" /\ m.open = FALSE /\ m.turn = turns /\ m.part = "kept"
        /\ turns \in Nat
    BY NewItems DEF TypeOK
  <2>. HIDE DEF m
  <2>. QED
    BY <2>1, AddedItem
<1>2. items' = Append(s, m) /\ status' = "interrupted" /\ at' = "idle"
  BY DEF InterruptWith, EndWith
<1>. HIDE DEF m
<1>3. \A i \in DOMAIN items' :
        /\ items'[i].turn <= turns' /\ items'[i].part # "retried"
        /\ items'[i].turn = turns' => /\ items'[i].kind = "marker" <=> i = Len(s) + 1
                                      /\ items'[i].open => items'[i].kind = "call"
  BY <1>1, <1>2
<1>4. Markers' = {Len(s) + 1}
  BY <1>1, <1>2, <1>3 DEF Markers, Current
<1>5. Len(s) + 1 \in Markers'
  BY <1>4
<1>. QED
  BY <1>2, <1>3, <1>4, <1>5 DEF Story, Told, Transcript, Ended, EndedClosed, OneEnding, Open, Current

\* Any other end leaves no marker, and a completed turn, which nobody stopped,
\* nothing open.
LEMMA EndsPlainly ==
  ASSUME turns' = turns, NEW s, NEW e \in {"completed", "failed"}, EndWith(e, s),
         e = "completed" => ~cancelled',
         \A i \in DOMAIN s : s[i].turn <= turns /\ s[i].part # "retried",
         \A i \in DOMAIN s : s[i].turn = turns => s[i].kind # "marker" /\ (s[i].open => e = "failed")
  PROVE  Story'
<1>1. items' = s /\ status' = e /\ at' = "idle"
  BY DEF EndWith
<1>2. Markers' = {}
  BY <1>1 DEF Markers, Current
<1>. QED
  BY <1>1, <1>2 DEF Story, Told, Transcript, Ended, EndedClosed, OneEnding, Open, Current

\* What a place where nothing is open hands to what follows.
LEMMA NothingOpen ==
  ASSUME Story, at \notin {"idle", "streaming", "acting"}
  PROVE  /\ status = "running"
         /\ \A i \in DOMAIN items : items[i].turn <= turns /\ items[i].part # "retried"
         /\ \A i \in DOMAIN items : items[i].turn = turns => items[i].kind # "marker" /\ ~items[i].open
BY DEF Story, Told, Transcript, Recorded, Open, Current

\* Where nothing is open, going on to another place with or without a request
\* leaves the transcript as it should be.
LEMMA Moves ==
  ASSUME TypeOK, Story, at \notin {"idle", "streaming", "acting"}, turns' = turns,
         items' = items \/ items' = Become("kept", items), status' = status, at' # "idle"
  PROVE  Story'
<1>1. items \in Seq(ItemSet) /\ "kept" \in Parts
  BY DEF TypeOK, Parts
<1>2. /\ DOMAIN items' = DOMAIN items
      /\ \A i \in DOMAIN items :
           /\ items'[i].kind = items[i].kind /\ items'[i].turn = items[i].turn
           /\ items'[i].open = items[i].open
           /\ items'[i].part = items[i].part \/ items'[i].part = "kept"
  BY <1>1, BecomeItems
<1>3. \A i \in DOMAIN items' :
        /\ items'[i].turn <= turns' /\ items'[i].part # "retried"
        /\ items'[i].turn = turns' => items'[i].kind # "marker" /\ ~items'[i].open
  BY <1>2, NothingOpen
<1>. QED
  BY <1>3, NothingOpen, GoesOn DEF Told, Recorded, Open, Current

\* The items of a response begin, and end, while it streams.
LEMMA StreamStory ==
  ASSUME TypeOK, Story, TextStart \/ CallStart \/ BlockEnd
  PROVE  Story'
<1>1. at = "streaming" /\ at' = "streaming" /\ status' = status /\ turns' = turns
  BY DEF TextStart, CallStart, Begins, BlockEnd, setting, counters, breaker, flags
<1>2. turns \in Nat /\ items \in Seq(ItemSet) /\ status = "running" /\ Told /\ Recorded
  BY <1>1 DEF TypeOK, Story, Transcript
<1>3. ASSUME NEW k \in {"text", "call"}, items' = Append(items, Item(k, "streamed", TRUE))
      PROVE  Told' /\ Recorded'
  <2>. DEFINE new == Item(k, "streamed", TRUE)
  <2>0. k # "marker" /\ new \in ItemSet /\ new.kind = k /\ new.part = "streamed" /\ new.turn = turns
    BY <1>2, NewItems
  <2>. HIDE DEF new
  <2>1. /\ DOMAIN items = 1..Len(items) /\ Len(items) \in Nat
        /\ DOMAIN Append(items, new) = 1..(Len(items) + 1)
        /\ \A i \in 1..Len(items) : Append(items, new)[i] = items[i]
        /\ Append(items, new)[Len(items) + 1] = new
    BY <1>2, <2>0, AddedItem
  <2>2. ASSUME NEW i \in DOMAIN items'
        PROVE  /\ items'[i].turn <= turns /\ items'[i].part # "retried"
               /\ items'[i].turn = turns =>
                    /\ items'[i].kind # "marker"
                    /\ items'[i].open => items'[i].part = "streamed"
    <3>1. i = Len(items) + 1 \/ i \in 1..Len(items)
      BY <1>3, <2>1, <2>2 DEF new
    <3>2. CASE i = Len(items) + 1
      <4>1. items'[i] = new
        BY <1>3, <2>1, <3>2 DEF new
      <4>. QED
        BY <1>2, <2>0, <4>1
    <3>3. CASE i \in 1..Len(items)
      <4>1. items'[i] = items[i] /\ i \in DOMAIN items
        BY <1>3, <2>1, <3>3 DEF new
      <4>. QED
        BY <1>1, <1>2, <4>1 DEF Told, Recorded, Current, Open, Ours
    <3>. QED
      BY <3>1, <3>2, <3>3
  <2>. QED
    BY <1>1, <2>2 DEF Told, Recorded, Current, Open, Ours
<1>4. ASSUME NEW j \in DOMAIN items, Closing(j)
      PROVE  Told' /\ Recorded'
  <2>1. /\ SameItems(items')
        /\ \A i \in DOMAIN items : items'[i].open = (items[i].open /\ i # j)
    BY <1>2, <1>4, ClosingItems DEF Closing
  <2>. QED
    BY <1>1, <1>2, <2>1 DEF Told, Recorded, Current, Open, Ours, SameItems
<1>5. Told' /\ Recorded'
  BY <1>3, <1>4 DEF TextStart, CallStart, Begins, BlockEnd
<1>. QED
  BY <1>1, <1>2, <1>5, GoesOn

\* A response that is tried again is withdrawn whole.
LEMMA RetryStory ==
  ASSUME TypeOK, Story, Overflow \/ Retry
  PROVE  Story'
<1>1. /\ at \in {"establishing", "streaming"} /\ turns' = turns
      /\ status' = status /\ at' \in {"compactHooks", "top", "sleeping"}
      /\ items' = Become("retried", Withdrawn)
  BY DEF Overflow, Retry, Responding, Retrying, CompactFor, GoTo, setting
<1>2. /\ items \in Seq(ItemSet) /\ status = "running" /\ Told /\ Recorded /\ "retried" \in Parts
  BY <1>1 DEF TypeOK, Story, Transcript, Parts
<1>3. /\ Withdrawn \in Seq(ItemSet)
      /\ \A i \in DOMAIN Withdrawn :
           \E j \in DOMAIN items : Withdrawn[i] = items[j] /\ items[j].part # "streamed"
  BY <1>2, WithoutLeaves DEF Withdrawn
<1>4. \A j \in DOMAIN items :
        items[j].part # "streamed" =>
          /\ items[j].turn <= turns /\ items[j].part # "retried"
          /\ items[j].turn = turns => items[j].kind # "marker" /\ ~items[j].open
  BY <1>1, <1>2 DEF Told, Recorded, Current, Open, Ours
<1>5. \A i \in DOMAIN Withdrawn :
        /\ Withdrawn[i].part # "streamed"
        /\ Withdrawn[i].turn <= turns /\ Withdrawn[i].part # "retried"
        /\ Withdrawn[i].turn = turns => Withdrawn[i].kind # "marker" /\ ~Withdrawn[i].open
  BY <1>3, <1>4
<1>6. /\ DOMAIN items' = DOMAIN Withdrawn
      /\ \A i \in DOMAIN Withdrawn :
           /\ items'[i].kind = Withdrawn[i].kind /\ items'[i].turn = Withdrawn[i].turn
           /\ items'[i].open = Withdrawn[i].open /\ items'[i].part = Withdrawn[i].part
  <2>. HIDE DEF Withdrawn
  <2>. QED
    BY <1>1, <1>2, <1>3, <1>5, BecomeItems
<1>7. Told' /\ Recorded'
  <2>1. \A i \in DOMAIN items' :
          /\ items'[i].turn <= turns' /\ items'[i].part # "retried"
          /\ items'[i].turn = turns' => items'[i].kind # "marker" /\ ~items'[i].open
    BY <1>1, <1>5, <1>6
  <2>. QED
    BY <2>1 DEF Told, Recorded, Current, Open
<1>. QED
  BY <1>1, <1>2, <1>7, GoesOn

\* What finishing a response leaves open: its calls, and if it has none, nothing.
LEMMA FinishedStory ==
  ASSUME TypeOK, Story, at = "streaming"
  PROVE  /\ Finished \in Seq(ItemSet)
         /\ \A i \in DOMAIN Finished : Finished[i].turn <= turns /\ Finished[i].part # "retried"
         /\ \A i \in DOMAIN Finished : Finished[i].turn = turns =>
              /\ Finished[i].kind # "marker"
              /\ Finished[i].open => Finished[i].part = "streamed" /\ Finished[i].kind = "call"
              /\ Calls = {} => ~Finished[i].open
         /\ Silent => \A i \in DOMAIN items : items[i].turn = turns => ~items[i].open
<1>1. items \in Seq(ItemSet) /\ Told /\ Recorded
  BY DEF TypeOK, Story, Transcript
<1>2. \A i \in DOMAIN items : items[i].kind \in {"text", "call", "marker"}
  <2>1. \A i \in DOMAIN items : items[i] \in ItemSet
    BY <1>1, LenProperties, ElementOfSeq
  <2>. QED
    BY <2>1 DEF ItemSet, ItemKinds
<1>3. /\ SameItems(Finished)
      /\ \A i \in DOMAIN items :
           Finished[i].open = (items[i].open /\ ~(Ours(i) /\ items[i].kind = "text"))
  BY <1>1, ClosingItems
<1>. HIDE DEF Finished
<1>4. \A i \in DOMAIN items : items[i].turn = turns =>
        /\ items[i].kind # "marker" /\ (items[i].open => Ours(i))
  BY <1>1 DEF Recorded, Current, Open
<1>5. \A i \in DOMAIN items : items[i].turn = turns /\ Finished[i].open =>
        Ours(i) /\ items[i].kind = "call"
  BY <1>2, <1>3, <1>4
<1>6. \A i \in DOMAIN Finished : Finished[i].turn = turns =>
        /\ Finished[i].kind # "marker"
        /\ Finished[i].open => Finished[i].part = "streamed" /\ Finished[i].kind = "call"
  BY <1>3, <1>4, <1>5 DEF Ours, SameItems
<1>7. Calls = {} => \A i \in DOMAIN Finished : Finished[i].turn = turns => ~Finished[i].open
  BY <1>3, <1>5 DEF Calls, SameItems
<1>8. Silent => \A i \in DOMAIN items : items[i].turn = turns => ~items[i].open
  BY <1>4 DEF Silent
<1>9. /\ Finished \in Seq(ItemSet)
      /\ \A i \in DOMAIN Finished : Finished[i].turn <= turns /\ Finished[i].part # "retried"
  BY <1>1, <1>3 DEF Told, SameItems
<1>. QED
  BY <1>6, <1>7, <1>8, <1>9

\* The end of a response: its calls are acted on, another round follows, or the
\* turn ends.
LEMMA DecideStory ==
  ASSUME TypeOK, Story, Decide
  PROVE  Story'
<1>1. at = "streaming" /\ turns' = turns /\ ~cancelled /\ cancelled' = cancelled
  BY DEF Decide, Answered, setting, flags
<1>2. status = "running" /\ Told /\ Recorded
  BY <1>1 DEF Story, Transcript
<1>3. /\ \A i \in DOMAIN Finished : Finished[i].turn <= turns /\ Finished[i].part # "retried"
      /\ \A i \in DOMAIN Finished : Finished[i].turn = turns =>
           /\ Finished[i].kind # "marker"
           /\ Finished[i].open => Finished[i].part = "streamed" /\ Finished[i].kind = "call"
           /\ Calls = {} => ~Finished[i].open
      /\ Silent => \A i \in DOMAIN items : items[i].turn = turns => ~items[i].open
  BY <1>1, FinishedStory
<1>. HIDE DEF Finished
<1>4. CASE Calls = {} /\ EndWith("completed", Finished)
  BY <1>1, <1>3, <1>4, EndsPlainly
<1>5. CASE Silent /\ EndWith("completed", items)
  <2>1. /\ \A i \in DOMAIN items : items[i].turn <= turns /\ items[i].part # "retried"
        /\ \A i \in DOMAIN items : items[i].turn = turns => items[i].kind # "marker" /\ ~items[i].open
    BY <1>2, <1>3, <1>5 DEF Told, Recorded, Current
  <2>. QED
    BY <1>1, <1>5, <2>1, EndsPlainly
<1>6. CASE Silent /\ GoTo("top") /\ UNCHANGED items
  <2>1. at' = "top" /\ status' = "running"
    BY <1>2, <1>6 DEF GoTo
  <2>2. Told' /\ Recorded'
    BY <1>1, <1>2, <1>3, <1>6 DEF Told, Recorded, Current, Open
  <2>. QED
    BY <2>1, <2>2, GoesOn
<1>7. CASE items' = Finished /\ GoTo("acting")
  <2>1. at' = "acting" /\ status' = "running" /\ items' = Finished
    BY <1>2, <1>7 DEF GoTo
  <2>2. Told' /\ Recorded'
    BY <1>1, <1>3, <2>1 DEF Told, Recorded, Current, Open, Ours
  <2>. QED
    BY <2>1, <2>2, GoesOn
<1>8. CASE Calls = {} /\ items' = Finished /\ \E place \in {"top", "stopHooks"} : GoTo(place)
  <2>1. at' \in {"top", "stopHooks"} /\ status' = "running" /\ items' = Finished
    BY <1>2, <1>8 DEF GoTo
  <2>2. Told' /\ Recorded'
    BY <1>1, <1>3, <1>8, <2>1 DEF Told, Recorded, Current, Open
  <2>. QED
    BY <2>1, <2>2, GoesOn
<1>. QED
  <2>1. \/ Calls = {} /\ EndWith("completed", Finished)
        \/ Silent /\ EndWith("completed", items)
        \/ Silent /\ GoTo("top") /\ UNCHANGED items
        \/ items' = Finished /\ GoTo("acting")
        \/ Calls = {} /\ items' = Finished /\ GoTo("top")
        \/ Calls = {} /\ items' = Finished /\ GoTo("stopHooks")
    BY Zenon DEF Decide, NextRound
  <2>. QED
    BY <1>4, <1>5, <1>6, <1>7, <1>8, <2>1

\* The calls of a round land, and the round is over.
LEMMA ActingStory ==
  ASSUME TypeOK, Story, Land \/ Acted
  PROVE  Story'
<1>1. at = "acting" /\ turns' = turns /\ cancelled' = cancelled
  BY DEF Land, Acted, setting, flags
<1>2. items \in Seq(ItemSet) /\ status = "running" /\ Told /\ Recorded
  BY <1>1 DEF TypeOK, Story, Transcript
<1>3. CASE Land
  <2>1. PICK j \in DOMAIN items : Closing(j)
    BY <1>3 DEF Land, Calls
  <2>2. /\ SameItems(items')
        /\ \A i \in DOMAIN items : items'[i].open = (items[i].open /\ i # j)
    BY <1>2, <2>1, ClosingItems DEF Closing
  <2>3. at' = at /\ status' = status
    BY <1>3 DEF Land
  <2>4. Told' /\ Recorded'
    BY <1>1, <1>2, <2>2, <2>3 DEF Told, Recorded, Current, Open, Ours, SameItems
  <2>. QED
    BY <1>1, <1>2, <2>3, <2>4, GoesOn
<1>4. CASE Acted
  <2>1. /\ \A i \in DOMAIN items : items[i].turn <= turns /\ items[i].part # "retried"
        /\ \A i \in DOMAIN items : items[i].turn = turns => items[i].kind # "marker" /\ ~items[i].open
    BY <1>1, <1>2, <1>4 DEF Acted, Calls, Ours, Open, Told, Recorded, Current
  <2>2. CASE Interrupt
    BY <1>1, <1>2, <2>1, <2>2, EndsInterrupted DEF Interrupt
  <2>3. CASE ~cancelled /\ EndWith("completed", items)
    BY <1>1, <2>1, <2>3, EndsPlainly
  <2>4. CASE GoTo("barrier") /\ UNCHANGED items
    <3>1. at' = "barrier" /\ status' = "running" /\ items' = items
      BY <1>2, <2>4 DEF GoTo
    <3>2. Told' /\ Recorded'
      BY <1>1, <2>1, <3>1 DEF Told, Recorded, Current, Open
    <3>. QED
      BY <3>1, <3>2, GoesOn
  <2>. QED
    BY <1>4, <2>2, <2>3, <2>4, Zenon DEF Acted
<1>. QED
  BY <1>3, <1>4

\* The grace, a panic and an esc may end the turn anywhere.
LEMMA CutStory ==
  ASSUME TypeOK, Story,
         Drop \/ Panic \/ AwaitCancelled \/ StreamCancelled \/ AgentEnds \/ StreamFails
  PROVE  Story'
<1>1. at # "idle" /\ turns' = turns
  BY DEF Drop, Panic, AwaitCancelled, CancelledAt, StreamCancelled, AgentEnds, StreamFails,
    Responding, setting
<1>2. /\ items \in Seq(ItemSet)
      /\ \A i \in DOMAIN items : items[i].turn <= turns /\ items[i].part # "retried"
      /\ \A i \in DOMAIN items : items[i].turn = turns => items[i].kind # "marker"
  BY <1>1, ItemTypes DEF Story, Told, Transcript, Recorded, Current
<1>3. /\ SameItems(AllClosed) /\ SameItems(Finished)
      /\ \A i \in DOMAIN items : AllClosed[i].turn = turns => ~AllClosed[i].open
  BY <1>2, ClosingItems DEF Current, SameItems
<1>. HIDE DEF AllClosed, Finished
<1>4. ASSUME NEW s, SameItems(s)
      PROVE  /\ s \in Seq(ItemSet)
             /\ \A i \in DOMAIN s : s[i].turn <= turns /\ s[i].part # "retried"
             /\ \A i \in DOMAIN s : s[i].turn = turns => s[i].kind # "marker"
  BY <1>2, <1>4 DEF SameItems
<1>5. DOMAIN AllClosed = DOMAIN items /\ DOMAIN Finished = DOMAIN items
  BY <1>3 DEF SameItems
<1>6. CASE Drop
  BY <1>1, <1>3, <1>4, <1>5, <1>6, EndsInterrupted DEF Drop
<1>7. CASE Panic
  BY <1>1, <1>2, <1>7, EndsPlainly DEF Panic
<1>8. CASE AwaitCancelled
  <2>1. Interrupt /\ at \notin {"idle", "streaming", "acting"}
    BY <1>8 DEF AwaitCancelled, CancelledAt
  <2>. QED
    BY <1>1, <1>2, <2>1, NothingOpen, EndsInterrupted DEF Interrupt
<1>9. CASE StreamCancelled
  <2>1. at = "streaming" /\ InterruptWith(IF kind = "agent" THEN AllClosed ELSE Finished)
    BY <1>9 DEF StreamCancelled
  <2>2. \A i \in DOMAIN Finished : Finished[i].turn = turns /\ Finished[i].open =>
          Finished[i].kind = "call"
    BY <2>1, FinishedStory
  <2>3. CASE kind = "agent"
    BY <1>1, <1>3, <1>4, <1>5, <2>1, <2>3, EndsInterrupted
  <2>4. CASE kind # "agent"
    BY <1>1, <1>3, <1>4, <2>1, <2>2, <2>4, EndsInterrupted
  <2>. QED
    BY <2>3, <2>4
<1>10. CASE AgentEnds
  <2>1. /\ ~cancelled /\ cancelled' = cancelled
        /\ \/ \E e \in {"completed", "failed"} : EndWith(e, AllClosed)
           \/ EndWith("failed", items)
    BY <1>10 DEF AgentEnds, flags
  <2>. QED
    BY <1>1, <1>2, <1>3, <1>4, <1>5, <2>1, EndsPlainly
<1>11. CASE StreamFails
  BY <1>1, <1>3, <1>4, <1>11, EndsPlainly DEF StreamFails
<1>. QED
  BY <1>6, <1>7, <1>8, <1>9, <1>10, <1>11

\* The steps from a place where nothing is open.
LEMMA RoundStory ==
  ASSUME TypeOK, Story,
         \/ Started \/ RoundTrip \/ Assembled \/ Denied \/ CompactStart \/ CompactShrinks
         \/ CompactUseless \/ ManualDone \/ Established \/ Slept \/ StopHooks \/ Barrier
  PROVE  Story'
<1>0. at \notin {"idle", "streaming", "acting"} /\ turns' = turns /\ cancelled' = cancelled
  BY DEF Started, RoundTrip, Assembled, Denied, CompactStart, CompactShrinks, CompactUseless,
    ManualDone, Established, Slept, StopHooks, Barrier, Raced, setting, flags
<1>1. /\ items \in Seq(ItemSet)
      /\ \A i \in DOMAIN items : items[i].turn <= turns /\ items[i].part # "retried"
      /\ \A i \in DOMAIN items : items[i].turn = turns => items[i].kind # "marker" /\ ~items[i].open
  BY <1>0, NothingOpen DEF TypeOK
<1>3. CASE Interrupt
  BY <1>0, <1>1, <1>3, EndsInterrupted DEF Interrupt
<1>4. CASE \E e \in {"completed", "failed"} : EndWith(e, items) /\ (e = "completed" => ~cancelled)
  BY <1>0, <1>1, <1>4, EndsPlainly
<1>5. CASE \/ items' = items /\ status' = status /\ at' # "idle"
           \/ items' = items /\ \E place \in Places \ {"idle"} : GoTo(place)
           \/ Send
  <2>1. /\ items' = items \/ items' = Become("kept", items)
        /\ status' = status /\ at' # "idle"
    BY <1>5 DEF Send, GoTo
  <2>. QED
    BY <1>0, <2>1, Moves
<1>6. CASE Started
  BY <1>3, <1>4, <1>5, <1>6 DEF Started, Raced, Places
<1>7. CASE RoundTrip
  BY <1>3, <1>4, <1>5, <1>7 DEF RoundTrip, Places
<1>8. CASE Assembled
  BY <1>5, <1>8 DEF Assembled, CompactFor
<1>9. CASE Denied
  BY <1>3, <1>9 DEF Denied
<1>10. CASE CompactStart
  BY <1>5, <1>10 DEF CompactStart, Back, Places
<1>11. CASE CompactShrinks
  BY <1>5, <1>11 DEF CompactShrinks, Back, Places
<1>12. CASE CompactUseless
  BY <1>5, <1>12 DEF CompactUseless, Back, Places
<1>13. CASE ManualDone
  BY <1>3, <1>4, <1>13 DEF ManualDone
<1>14. CASE Established
  BY <1>5, <1>14 DEF Established, Raced, Places
<1>15. CASE Slept
  BY <1>5, <1>15 DEF Slept, Places
<1>16. CASE StopHooks
  BY <1>4, <1>5, <1>16 DEF StopHooks, NextRound, Places, Raced
<1>17. CASE Barrier
  BY <1>5, <1>17 DEF Barrier, NextRound, Places
<1>. QED
  BY <1>6, <1>7, <1>8, <1>9, <1>10, <1>11, <1>12, <1>13, <1>14, <1>15, <1>16, <1>17

\* Between turns, and what changes only a flag.
LEMMA OtherStory ==
  ASSUME TypeOK, Story, OpenTurn \/ Reconfigure \/ Cancel \/ Stop \/ UNCHANGED vars
  PROVE  Story'
<1>1. CASE OpenTurn
  <2>1. /\ at' = "starting" /\ status' = "running" /\ items' = Become("kept", items)
        /\ turns' = turns + 1
    BY <1>1 DEF OpenTurn, Fresh
  <2>2. items \in Seq(ItemSet) /\ turns \in Nat /\ "kept" \in Parts
    BY DEF TypeOK, Parts
  <2>3. \A i \in DOMAIN items : items[i].turn \in Nat
    <3>1. \A i \in DOMAIN items : items[i] \in ItemSet
      BY <2>2, LenProperties, ElementOfSeq
    <3>. QED
      BY <3>1 DEF ItemSet
  <2>4. /\ DOMAIN items' = DOMAIN items
        /\ \A i \in DOMAIN items :
             /\ items'[i].turn = items[i].turn
             /\ items'[i].part = items[i].part \/ items'[i].part = "kept"
    BY <2>1, <2>2, BecomeItems
  <2>5. \A i \in DOMAIN items' :
          items'[i].turn <= turns' /\ items'[i].part # "retried" /\ items'[i].turn # turns'
    BY <2>1, <2>2, <2>3, <2>4 DEF Story, Told
  <2>6. Told' /\ Recorded'
    BY <2>5 DEF Told, Recorded, Current
  <2>. QED
    BY <2>1, <2>6, GoesOn
<1>2. CASE Cancel \/ Reconfigure \/ Stop \/ UNCHANGED vars
  <2>1. UNCHANGED <<at, items, turns, status>> /\ (cancelled' => cancelled \/ at # "idle")
    BY <1>2 DEF Cancel, Reconfigure, Stop, vars, setting, flags
  <2>2. at # "idle" => status # "completed"
    BY DEF Story, Transcript
  <2>. QED
    BY <2>1, <2>2 DEF Story, Told, Transcript, Recorded, Ended, EndedClosed, OneEnding, Markers, Open,
      Current, Ours
<1>. QED
  BY <1>1, <1>2

\* Every turn starts sound and every step keeps it so.
LEMMA TurnInduction == Spec => []TurnInv
<1>1. Init => TurnInv
  <2>. SUFFICES ASSUME Init PROVE TurnInv
    OBVIOUS
  <2>1. <<>> \in Seq(ItemSet)
    BY EmptySeq
  <2>2. TypeOK
    BY <2>1 DEF Init, TypeOK, Kinds, Places, Reasons, Statuses
  <2>3. Counts
    BY TurnAssumption DEF Init, Counts, RequestsBounded, PaidInVain
  <2>4. Told /\ Transcript /\ Ended /\ OneEnding
    BY DEF Init, Told, Transcript, Ended, EndedClosed, OneEnding, Markers
  <2>. QED
    BY <2>2, <2>3, <2>4 DEF TurnInv
<1>2. TurnInv /\ [Next]_vars => TurnInv'
  <2>. SUFFICES ASSUME TurnInv, [Next]_vars PROVE TurnInv'
    OBVIOUS
  <2>1. TypeOK /\ Counts /\ Story
    BY DEF TurnInv, Story
  <2>2. TypeOK' /\ Counts'
    BY <2>1, TypeStep, CountsStep
  <2>3. Story'
    BY <2>1, StreamStory, RetryStory, DecideStory, ActingStory, CutStory, RoundStory, OtherStory
      DEF Next, Loop, Done
  <2>. QED
    BY <2>2, <2>3 DEF TurnInv, Story
<1>. QED
  BY <1>1, <1>2, PTL DEF Spec

\* The loop keeps its type, for every budget.
THEOREM TurnTypes == Spec => []TypeOK
<1>1. TurnInv => TypeOK
  BY DEF TurnInv
<1>. QED
  BY <1>1, TurnInduction, PTL

\* However its streams fail, come back empty or are cut, a turn sends no more
\* requests than its rounds, its retries and the two it is forgiven.
THEOREM BoundedRequests == Spec => []RequestsBounded
<1>1. TurnInv => RequestsBounded
  BY DEF TurnInv, Counts
<1>. QED
  BY <1>1, TurnInduction, PTL

\* Over all the turns that run on one configuration the threshold pays for at most
\* Trip summaries in a row that shrink nothing.
THEOREM BreakerTrips == Spec => []PaidInVain
<1>1. TurnInv => PaidInVain
  BY DEF TurnInv, Counts
<1>. QED
  BY <1>1, TurnInduction, PTL

\* What the model or the summary is sent has nothing of a stream that was tried
\* again, in this turn or an earlier one, and nothing of this turn that is open.
THEOREM RequestsClean == Spec => []CleanRequest
<1>1. TurnInv => CleanRequest
  BY DEF TurnInv, CleanRequest, Told, Transcript, Recorded, Open
<1>. QED
  BY <1>1, TurnInduction, PTL

\* A turn that completed leaves nothing open, an interrupted one no text.
THEOREM ClosedAtTheEnd == Spec => []EndedClosed
<1>1. TurnInv => EndedClosed
  BY DEF TurnInv, Ended, EndedClosed
<1>. QED
  BY <1>1, TurnInduction, PTL

\* An interrupted turn says so once, any other never, and a cancelled one has not
\* completed.
THEOREM EndsOnce == Spec => []OneEnding
<1>1. TurnInv => OneEnding
  BY DEF TurnInv
<1>. QED
  BY <1>1, TurnInduction, PTL
=============================================================================
