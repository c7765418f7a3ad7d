------------------------- MODULE SessionTreeProofs -------------------------
(***************************************************************************)
(* Proofs about the session tree: its type, that a client gets nothing     *)
(* twice, that only the root's end ends the attachment, and that the       *)
(* attachment implements the feed.                                         *)
(*                                                                         *)
(* The invariant says of every stream that has not ended what it still     *)
(* owes its client: the numbers it holds are in order and beyond what was  *)
(* forwarded, and it holds every journalled number up to the last it       *)
(* holds, or, if it has no lag to tell of, up to the head of its session.  *)
(* Its parts are operators of the variables they relate, so that what a    *)
(* step keeps can be said of old and new values.                           *)
(***************************************************************************)
EXTENDS SessionTree, Stepwise, FiniteSetTheorems

Keeps(l) == {q \in DOMAIN l : Durable(l[q])}

Rising(q) == \A i, j \in DOMAIN q : i < j => q[i] < q[j]

Holds(st, k) == (\E i \in DOMAIN st.past : st.past[i] = k) \/ (\E i \in DOMAIN st.buf : st.buf[i] = k)

\* Where a stream is in its life, and what it may have there.
Formed(st) ==
    /\ st.at \in {"catch", "try", "look", "recv", "over"} => st.past = <<>>
    /\ st.at = "past" => st.past # <<>>
    /\ st.at = "over" => st.buf = <<>> /\ ~st.tx

\* The numbers that a stream holds are after these.
Lowest(st, last) == IF st.at = "catch" THEN st.cut - 1 ELSE last

\* The journalled numbers after these are the stream's to give.
Owed(st, last, b) == IF st.at = "catch" THEN st.cut - 1 ELSE Later(last, b)

InOrder(st, l, last) ==
    /\ Rising(st.past) /\ Rising(st.buf)
    /\ \A i \in DOMAIN st.past, j \in DOMAIN st.buf : st.past[i] < st.buf[j]
    /\ \A k \in Nat : Holds(st, k) => k > Lowest(st, last) /\ k <= Len(l)

Whole(st, l, last, b) ==
    \A k \in Keeps(l) :
      /\ k > Owed(st, last, b)
      /\ (st.tx /\ st.lag = <<>>) \/ \E e \in Nat : Holds(st, e) /\ k <= e
      => Holds(st, k)

Sound(st, l, last, b) ==
    /\ st.at = "catch" => st.since = last /\ st.cut > last /\ st.cut <= Len(l) + 1
    /\ InOrder(st, l, last)
    /\ Whole(st, l, last, b)

\* Every stream has an epoch of its own, and one that has not ended has the
\* session's.
Marked(S, F, n) ==
    /\ \A st \in S : st.epoch <= n
    /\ \A st, st2 \in S : st.epoch = st2.epoch => st = st2
    /\ \A st \in S : st.at # "over" => /\ st.epoch = F[st.session].epoch
                                       /\ F[st.session].source \in {"live", "replaying"}

Served(S, F, I, L, B) ==
    \A st \in S : /\ Formed(st)
                  /\ st.tx => I[st.session] = "live"
                  /\ st.at # "over" => Sound(st, L[st.session], F[st.session].last, B[st.session])

\* The client's fold is where the last frame forwarded, or its snapshot, put it.
Reached(F, L, B, N) ==
    \A s \in Sessions :
      /\ F[s].last <= Len(L[s])
      /\ Later(N[s], B[s]) = Later(F[s].last, B[s])
      /\ F[s].source = "unknown" => F[s].last = 0 /\ B[s] = 0 /\ N[s] = 0

\* What a task begun before its await rests on still holds after it.
Begun(t, S, F, late) ==
    /\ t[1] = "join" => F[t[2]].source \notin {"live", "replaying"}
    /\ t[1] = "tail" => F[t[2]].source = "unknown" /\ late
    /\ t[1] = "heal" => \A st \in S : st.session = t[2] => st.at = "over"
    /\ t[1] = "look" => \A st \in S : st.epoch = t[2] => st.at = "look"

Tasked(T, S, F, late) ==
    /\ \A i \in 2 .. Len(T) : T[i][1] \in {"live", "stored", "adopt", "replay"}
    /\ T # <<>> => Begun(T[1], S, F, late)

\* The root's stream has a sender while the root runs, but for a heal under way.
Rooted(S, F, I, T) ==
    /\ F[Root].source = "live"
    /\ \A st \in S : st.session = Root /\ st.epoch = F[Root].epoch /\ ~st.tx
                       => I[Root] # "live" \/ (T # <<>> /\ T[1] = <<"heal", Root>>)

Owned(O, L) == O \subseteq Sessions \X Nat /\ \A o \in O : o[2] \in DOMAIN L[o[1]]

TreeInv ==
    /\ TypeOK /\ NoRepeats /\ EndsWithRoot
    /\ Marked(streams, followed, epochs)
    /\ Served(streams, followed, life, log, base)
    /\ Reached(followed, log, base, seen)
    /\ Tasked(todo, streams, followed, liveOnly)
    /\ Rooted(streams, followed, life, todo)
    /\ Owned(owners, log)

-----------------------------------------------------------------------------
(* Sequences of numbers. *)

\* What Ascending computes, step by step.
LEMMA AscendingIs ==
  ASSUME NEW S, NEW n \in Nat
  PROVE  /\ Ascending(S, n) \in Seq(Nat) /\ Rising(Ascending(S, n))
         /\ \A k \in Nat : (\E i \in DOMAIN Ascending(S, n) : Ascending(S, n)[i] = k) <=> k \in S /\ k \in 1..n
<1>. DEFINE T == Seq(Nat)
            step == [k \in Nat |-> [t \in T |-> IF k \in S THEN Append(t, k) ELSE t]]
            Is(f) == f = [k \in 0..n |-> IF k = 0 THEN <<>>
                                         ELSE IF k \in S THEN Append(f[k - 1], k) ELSE f[k - 1]]
            g == CHOOSE f : Is(f)
<1>1. Ascending(S, n) = g[n]
  BY DEF Ascending
<1>2. step \in [Nat -> [T -> T]]
  BY AppendProperties
<1>3. <<>> \in T
  BY EmptySeq
<1>4. PICK f \in [0..n -> T] : f[0] = <<>> /\ \A k \in 1..n : f[k] = step[k][f[k - 1]]
  <2>. HIDE DEF step, T
  <2>1. \E f : Iterated(f, T, <<>>, step, n)
    BY <1>2, <1>3, Iterates
  <2>. QED
    BY <2>1 DEF Iterated
<1>5. ASSUME NEW k \in 1..n
      PROVE  f[k] = IF k \in S THEN Append(f[k - 1], k) ELSE f[k - 1]
  <2>. HIDE DEF T
  <2>1. k \in Nat /\ k - 1 \in 0..n
    OBVIOUS
  <2>2. f[k - 1] \in T
    BY <2>1
  <2>. QED
    BY <1>4, <2>1, <2>2
<1>6. Is(f)
  <2>. HIDE DEF step, T
  <2>. DEFINE h == [k \in 0..n |-> IF k = 0 THEN <<>>
                                   ELSE IF k \in S THEN Append(f[k - 1], k) ELSE f[k - 1]]
  <2>1. ASSUME NEW k \in 0..n PROVE f[k] = h[k]
    <3>1. k = 0 \/ k \in 1..n
      OBVIOUS
    <3>. QED
      BY <3>1, <1>4, <1>5
  <2>2. f = [k \in 0..n |-> f[k]]
    BY <1>4
  <2>. QED
    BY <2>1, <2>2
<1>7. Is(g)
  <2>. HIDE DEF Is
  <2>. QED
    BY <1>6
<1>. HIDE DEF T, step, g
<1>8. g[0] = <<>> /\ \A k \in 1..n : g[k] = IF k \in S THEN Append(g[k - 1], k) ELSE g[k - 1]
  <2>1. 0 \in 0..n /\ \A k \in 1..n : k \in 0..n /\ k # 0
    OBVIOUS
  <2>. QED
    BY <1>7, <2>1
<1>. HIDE DEF Is
<1>. DEFINE Fine(t, m) == /\ t \in Seq(Nat) /\ Rising(t)
                          /\ \A k \in Nat : (\E i \in DOMAIN t : t[i] = k) <=> k \in S /\ k \in 1..m
            P == {k \in 0..n : Fine(g[k], k)}
<1>a. 0 \in P
  <2>1. Fine(<<>>, 0)
    BY EmptySeq DEF Rising
  <2>. HIDE DEF Fine
  <2>. QED
    BY <1>8, <2>1
<1>9. ASSUME NEW k \in 1..n, k - 1 \in P PROVE k \in P
  <2>. DEFINE t == g[k - 1]
              u == g[k]
  <2>1. Fine(t, k - 1) /\ k \in 0..n /\ k \in Nat
    <3>. HIDE DEF Fine
    <3>. QED
      BY <1>9
  <2>2. u = IF k \in S THEN Append(t, k) ELSE t
    BY <1>8
  <2>. HIDE DEF t, u
  <2>3. CASE k \in S
    <3>1. /\ u \in Seq(Nat) /\ Len(u) = Len(t) + 1 /\ u[Len(t) + 1] = k
          /\ \A i \in 1..Len(t) : u[i] = t[i]
      BY <2>1, <2>2, <2>3, AppendProperties
    <3>2. Len(t) \in Nat /\ DOMAIN t = 1..Len(t) /\ DOMAIN u = 1..Len(u)
      BY <2>1, <3>1, LenProperties
    <3>3. \A i \in DOMAIN t : t[i] \in Nat /\ t[i] < k
      BY <2>1, <3>2, ElementOfSeq
    <3>4. ASSUME NEW i \in DOMAIN u, NEW j \in DOMAIN u, i < j PROVE u[i] < u[j]
      <4>1. i \in DOMAIN t /\ u[i] = t[i]
        BY <3>1, <3>2, <3>4
      <4>2. CASE j = Len(t) + 1
        BY <3>1, <3>3, <4>1, <4>2
      <4>3. CASE j # Len(t) + 1
        <5>1. j \in DOMAIN t /\ u[j] = t[j]
          BY <3>1, <3>2, <4>3
        <5>. QED
          BY <2>1, <3>4, <4>1, <5>1 DEF Rising
      <4>. QED
        BY <4>2, <4>3
    <3>5. ASSUME NEW m \in Nat PROVE (\E i \in DOMAIN u : u[i] = m) <=> m \in S /\ m \in 1..k
      <4>1. (\E i \in DOMAIN u : u[i] = m) <=> (\E i \in DOMAIN t : t[i] = m) \/ m = k
        <5>1. ASSUME NEW i \in DOMAIN t, t[i] = m PROVE \E j \in DOMAIN u : u[j] = m
          BY <3>1, <3>2, <5>1
        <5>2. ASSUME m = k PROVE \E j \in DOMAIN u : u[j] = m
          BY <3>1, <3>2, <5>2
        <5>3. ASSUME NEW i \in DOMAIN u, u[i] = m, m # k PROVE \E j \in DOMAIN t : t[j] = m
          <6>1. i \in DOMAIN t /\ u[i] = t[i]
            BY <3>1, <3>2, <5>3
          <6>. QED
            BY <5>3, <6>1
        <5>. QED
          BY <5>1, <5>2, <5>3
      <4>. QED
        BY <2>1, <2>3, <4>1
    <3>6. Fine(u, k)
      BY <3>1, <3>4, <3>5 DEF Rising
    <3>. HIDE DEF Fine
    <3>. QED
      BY <2>1, <3>6 DEF u
  <2>4. CASE k \notin S
    <3>1. u = t
      BY <2>2, <2>4
    <3>2. Fine(u, k)
      BY <2>1, <2>4, <3>1
    <3>. HIDE DEF Fine
    <3>. QED
      BY <2>1, <3>2 DEF u
  <2>. QED
    BY <2>3, <2>4
<1>10. n \in P
  <2>1. 0..n \subseteq P
    <3>. HIDE DEF P
    <3>. QED
      BY <1>a, <1>9, UpTo
  <2>. HIDE DEF Fine
  <2>. QED
    BY <2>1
<1>11. Fine(g[n], n)
  <2>. HIDE DEF Fine
  <2>. QED
    BY <1>10
<1>. QED
  BY <1>1, <1>11

\* What is left of numbers in order when the first is taken.
LEMMA Taken ==
  ASSUME NEW q \in Seq(Nat), Rising(q), q # <<>>
  PROVE  /\ Tail(q) \in Seq(Nat) /\ Rising(Tail(q)) /\ Head(q) \in Nat
         /\ 1 \in DOMAIN q /\ Head(q) = q[1]
         /\ \A i \in DOMAIN Tail(q) : Head(q) < Tail(q)[i]
         /\ \A k \in Nat : (\E i \in DOMAIN q : q[i] = k) <=>
                             k = Head(q) \/ (\E i \in DOMAIN Tail(q) : Tail(q)[i] = k)
<1>1. Len(q) \in Nat /\ DOMAIN q = 1..Len(q) /\ Len(q) >= 1
  BY LenProperties, EmptySeq
<1>2. /\ Tail(q) \in Seq(Nat) /\ Len(Tail(q)) = Len(q) - 1 /\ Head(q) = q[1] /\ Head(q) \in Nat
      /\ \A i \in 1..Len(Tail(q)) : Tail(q)[i] = q[i + 1]
  BY HeadTailProperties, <1>1
<1>3. DOMAIN Tail(q) = 1..(Len(q) - 1)
  BY <1>2, LenProperties
<1>4. Rising(Tail(q)) /\ \A i \in DOMAIN Tail(q) : Head(q) < Tail(q)[i]
  <2>1. \A i \in DOMAIN Tail(q) : i + 1 \in DOMAIN q /\ Tail(q)[i] = q[i + 1] /\ 1 < i + 1
    BY <1>1, <1>2, <1>3
  <2>2. \A i, j \in DOMAIN Tail(q) : i < j => i + 1 < j + 1
    BY <1>1, <1>3
  <2>3. \A i, j \in DOMAIN q : i < j => q[i] < q[j]
    BY DEF Rising
  <2>4. ASSUME NEW i \in DOMAIN Tail(q), NEW j \in DOMAIN Tail(q), i < j PROVE Tail(q)[i] < Tail(q)[j]
    BY <2>1, <2>2, <2>3, <2>4
  <2>5. ASSUME NEW i \in DOMAIN Tail(q) PROVE Head(q) < Tail(q)[i]
    <3>1. 1 \in DOMAIN q
      BY <1>1
    <3>. QED
      BY <1>2, <2>1, <2>3, <3>1
  <2>. QED
    BY <2>4, <2>5 DEF Rising
<1>5. ASSUME NEW k \in Nat
      PROVE  (\E i \in DOMAIN q : q[i] = k) <=>
                k = Head(q) \/ (\E i \in DOMAIN Tail(q) : Tail(q)[i] = k)
  <2>1. ASSUME NEW i \in DOMAIN q, q[i] = k, k # Head(q)
        PROVE  \E j \in DOMAIN Tail(q) : Tail(q)[j] = k
    <3>1. i - 1 \in DOMAIN Tail(q) /\ Tail(q)[i - 1] = k
      BY <1>1, <1>2, <1>3, <2>1
    <3>. QED
      BY <3>1
  <2>2. ASSUME NEW j \in DOMAIN Tail(q), Tail(q)[j] = k PROVE \E i \in DOMAIN q : q[i] = k
    <3>1. j + 1 \in DOMAIN q /\ q[j + 1] = k
      BY <1>1, <1>2, <1>3, <2>2
    <3>. QED
      BY <3>1
  <2>. QED
    BY <1>1, <1>2, <2>1, <2>2
<1>. QED
  BY <1>1, <1>2, <1>4, <1>5

-----------------------------------------------------------------------------
(* Streams. *)

LEMMA StreamFields ==
  ASSUME NEW st \in Stream
  PROVE  /\ st.session \in Sessions /\ st.epoch \in Nat /\ st.since \in Nat /\ st.cut \in Nat
         /\ st.at \in {"catch", "past", "try", "look", "recv", "over"}
         /\ st.past \in Seq(Nat) /\ st.buf \in Seq(Nat) /\ st.tx \in BOOLEAN
         /\ Len(st.past) \in Nat /\ DOMAIN st.past = 1..Len(st.past)
         /\ Len(st.buf) \in Nat /\ DOMAIN st.buf = 1..Len(st.buf)
         /\ \A i \in DOMAIN st.past : st.past[i] \in Nat
         /\ \A i \in DOMAIN st.buf : st.buf[i] \in Nat
<1>1. /\ st.session \in Sessions /\ st.epoch \in Nat /\ st.since \in Nat /\ st.cut \in Nat
      /\ st.at \in {"catch", "past", "try", "look", "recv", "over"}
      /\ st.past \in Seq(Nat) /\ st.buf \in Seq(Nat) /\ st.tx \in BOOLEAN
  BY DEF Stream
<1>. QED
  BY <1>1, LenProperties, ElementOfSeq

\* A session's log with one frame more.
LEMMA Longer ==
  ASSUME NEW l \in Seq(Kinds), NEW k \in Kinds
  PROVE  /\ Append(l, k) \in Seq(Kinds) /\ Len(Append(l, k)) = Len(l) + 1 /\ Len(l) \in Nat
         /\ \A q \in Keeps(Append(l, k)) : q \in Keeps(l) \/ (q = Len(l) + 1 /\ Durable(k))
         /\ \A q \in Keeps(l) : q \in Keeps(Append(l, k))
         /\ \A q \in Keeps(l) : q \in Nat /\ q <= Len(l) /\ q > 0
         /\ \A q \in DOMAIN l : q \in DOMAIN Append(l, k) /\ Append(l, k)[q] = l[q]
<1>1. /\ Append(l, k) \in Seq(Kinds) /\ Len(Append(l, k)) = Len(l) + 1
      /\ Append(l, k)[Len(l) + 1] = k /\ \A i \in 1..Len(l) : Append(l, k)[i] = l[i]
  BY AppendProperties
<1>2. Len(l) \in Nat /\ DOMAIN l = 1..Len(l)
  BY LenProperties
<1>3. DOMAIN Append(l, k) = 1..(Len(l) + 1)
  BY <1>1, LenProperties
<1>4. \A q \in 1..(Len(l) + 1) : q = Len(l) + 1 \/ q \in 1..Len(l)
  BY <1>2
<1>. QED
  BY <1>1, <1>2, <1>3, <1>4 DEF Keeps

\* A stream that is where st is, though what comes after may differ.
Kin(u, st) ==
    /\ u.session = st.session /\ u.epoch = st.epoch /\ u.at = st.at
    /\ u.since = st.since /\ u.cut = st.cut /\ u.past = st.past

\* A stream that has become deaf, or has a lag to tell of, owes no more than before.
LEMMA Quieter ==
  ASSUME NEW st \in Stream, NEW u \in Stream, NEW l, NEW last, NEW b, Sound(st, l, last, b),
         Kin(u, st), u.buf = st.buf, u.tx /\ u.lag = <<>> => st.tx /\ st.lag = <<>>
  PROVE  Sound(u, l, last, b)
<1>1. \A k : Holds(u, k) <=> Holds(st, k)
  BY DEF Holds, Kin
<1>2. Lowest(u, last) = Lowest(st, last) /\ Owed(u, last, b) = Owed(st, last, b)
  BY DEF Lowest, Owed, Kin
<1>3. InOrder(u, l, last)
  BY <1>1, <1>2 DEF Sound, InOrder, Kin
<1>4. Whole(u, l, last, b)
  BY <1>1, <1>2 DEF Sound, Whole
<1>. QED
  BY <1>3, <1>4 DEF Sound, Kin

\* A frame the journal does not keep, or that the stream will have to be healed
\* for, leaves a stream sound that does not get it.
LEMMA PassedOver ==
  ASSUME NEW st \in Stream, NEW l \in Seq(Kinds), NEW k \in Kinds, NEW last \in Nat, NEW b \in Nat,
         Sound(st, l, last, b), st.tx /\ st.lag = <<>> => ~Durable(k)
  PROVE  Sound(st, Append(l, k), last, b)
<1>. DEFINE m == Append(l, k)
<1>1. /\ Len(m) = Len(l) + 1 /\ Len(l) \in Nat
      /\ \A q \in Keeps(m) : q \in Keeps(l) \/ (q = Len(l) + 1 /\ Durable(k))
  BY Longer
<1>. HIDE DEF m
<1>2. InOrder(st, m, last)
  BY <1>1 DEF Sound, InOrder
<1>3. Whole(st, m, last, b)
  <2>. SUFFICES ASSUME NEW q \in Keeps(m), q > Owed(st, last, b),
                       (st.tx /\ st.lag = <<>>) \/ \E e \in Nat : Holds(st, e) /\ q <= e
                PROVE  Holds(st, q)
    BY DEF Whole
  <2>1. CASE q \in Keeps(l)
    BY <2>1 DEF Sound, Whole
  <2>2. CASE q = Len(l) + 1 /\ Durable(k)
    <3>1. PICK e \in Nat : Holds(st, e) /\ q <= e
      BY <2>2
    <3>2. e <= Len(l)
      BY <3>1 DEF Sound, InOrder
    <3>. QED
      BY <1>1, <2>2, <3>1, <3>2
  <2>. QED
    BY <1>1, <2>1, <2>2
<1>4. st.at = "catch" => st.since = last /\ st.cut > last /\ st.cut <= Len(m) + 1
  BY <1>1, StreamFields DEF Sound
<1>. QED
  BY <1>2, <1>3, <1>4 DEF Sound, m

\* A stream that gets the new frame holds it after all others.
LEMMA Fed ==
  ASSUME NEW st \in Stream, NEW u \in Stream, NEW l \in Seq(Kinds), NEW k \in Kinds,
         NEW last \in Nat, NEW b \in Nat, last <= Len(l),
         Sound(st, l, last, b), Kin(u, st), u.buf = Append(st.buf, Len(l) + 1),
         st.tx, st.lag = <<>>
  PROVE  Sound(u, Append(l, k), last, b)
<1>. DEFINE m == Append(l, k)
            n == Len(l) + 1
<1>1. /\ Len(m) = n /\ Len(l) \in Nat /\ n \in Nat
      /\ \A q \in Keeps(m) : q \in Keeps(l) \/ q = n
      /\ \A q \in Keeps(m) : q <= n
      /\ \A q \in Keeps(l) : q \in Nat
  BY Longer
<1>. HIDE DEF m
<1>2. /\ Len(u.buf) = Len(st.buf) + 1 /\ u.buf[Len(st.buf) + 1] = n
      /\ \A i \in 1..Len(st.buf) : u.buf[i] = st.buf[i]
  BY <1>1, StreamFields, AppendProperties
<1>. HIDE DEF n
<1>3. /\ DOMAIN u.buf = 1..(Len(st.buf) + 1) /\ DOMAIN st.buf = 1..Len(st.buf) /\ Len(st.buf) \in Nat
  BY <1>2, StreamFields
<1>4. ASSUME NEW q \in Nat PROVE Holds(u, q) <=> Holds(st, q) \/ q = n
  <2>1. (\E i \in DOMAIN u.buf : u.buf[i] = q) <=> (\E i \in DOMAIN st.buf : st.buf[i] = q) \/ q = n
    <3>1. ASSUME NEW i \in DOMAIN u.buf, u.buf[i] = q, q # n PROVE \E j \in DOMAIN st.buf : st.buf[j] = q
      <4>1. i \in DOMAIN st.buf /\ u.buf[i] = st.buf[i]
        BY <1>2, <1>3, <3>1
      <4>. QED
        BY <3>1, <4>1
    <3>2. ASSUME NEW i \in DOMAIN st.buf, st.buf[i] = q PROVE \E j \in DOMAIN u.buf : u.buf[j] = q
      BY <1>2, <1>3, <3>2
    <3>3. Len(st.buf) + 1 \in DOMAIN u.buf
      BY <1>3
    <3>. QED
      BY <1>2, <3>1, <3>2, <3>3
  <2>. QED
    BY <2>1 DEF Holds, Kin
<1>5. Lowest(u, last) = Lowest(st, last) /\ Owed(u, last, b) = Owed(st, last, b)
  BY DEF Lowest, Owed, Kin
<1>6. \A q \in Nat : Holds(st, q) => q > Lowest(st, last) /\ q < n
  BY <1>1 DEF Sound, InOrder, n
<1>7. Lowest(st, last) < n
  BY <1>1, StreamFields DEF Sound, Lowest, n
<1>8. InOrder(u, m, last)
  <2>1. \A i \in DOMAIN st.buf : st.buf[i] < n
    BY <1>6, StreamFields DEF Holds
  <2>2. \A i \in DOMAIN st.past : st.past[i] < n
    BY <1>6, StreamFields DEF Holds
  <2>3. Rising(u.buf)
    <3>. SUFFICES ASSUME NEW i \in DOMAIN u.buf, NEW j \in DOMAIN u.buf, i < j PROVE u.buf[i] < u.buf[j]
      BY DEF Rising
    <3>1. i \in DOMAIN st.buf /\ u.buf[i] = st.buf[i]
      BY <1>2, <1>3
    <3>2. CASE j \in DOMAIN st.buf
      BY <1>2, <1>3, <3>1, <3>2 DEF Sound, InOrder, Rising
    <3>3. CASE j \notin DOMAIN st.buf
      <4>1. u.buf[j] = n
        BY <1>2, <1>3, <3>3
      <4>. QED
        BY <2>1, <3>1, <4>1
    <3>. QED
      BY <3>2, <3>3
  <2>4. \A i \in DOMAIN u.past, j \in DOMAIN u.buf : u.past[i] < u.buf[j]
    <3>. SUFFICES ASSUME NEW i \in DOMAIN st.past, NEW j \in DOMAIN u.buf PROVE st.past[i] < u.buf[j]
      BY DEF Kin
    <3>1. CASE j \in DOMAIN st.buf
      BY <1>2, <1>3, <3>1 DEF Sound, InOrder
    <3>2. CASE j \notin DOMAIN st.buf
      <4>1. u.buf[j] = n
        BY <1>2, <1>3, <3>2
      <4>. QED
        BY <2>2, <4>1
    <3>. QED
      BY <3>1, <3>2
  <2>5. Rising(u.past)
    BY DEF Sound, InOrder, Kin
  <2>6. Lowest(u, last) \in Int
    BY StreamFields DEF Lowest
  <2>7. \A q \in Nat : Holds(u, q) => q > Lowest(u, last) /\ q <= Len(m)
    BY <1>1, <1>4, <1>5, <1>6, <1>7, <2>6
  <2>. QED
    BY <2>3, <2>4, <2>5, <2>7 DEF InOrder
<1>9. Whole(u, m, last, b)
  <2>. SUFFICES ASSUME NEW q \in Keeps(m), q > Owed(u, last, b) PROVE Holds(u, q)
    BY DEF Whole
  <2>1. CASE q = n
    BY <1>1, <1>4, <2>1
  <2>2. CASE q # n
    <3>1. q \in Keeps(l) /\ q \in Nat
      BY <1>1, <2>2
    <3>2. Holds(st, q)
      BY <1>5, <3>1 DEF Sound, Whole
    <3>. QED
      BY <1>4, <3>1, <3>2
  <2>. QED
    BY <2>1, <2>2
<1>10. u.at = "catch" => u.since = last /\ u.cut > last /\ u.cut <= Len(m) + 1
  BY <1>1, StreamFields DEF Sound, Kin, n
<1>. QED
  BY <1>8, <1>9, <1>10 DEF Sound, m

\* fanout gives a subscriber the frame, widens its lag, or begins one.
LEMMA OfferedIs ==
  ASSUME NEW st \in Stream, NEW q \in Nat
  PROVE  /\ Offered(st, q) \in Stream /\ Kin(Offered(st, q), st) /\ Offered(st, q).tx = st.tx
         /\ \/ /\ Offered(st, q).buf = st.buf
               /\ ~Offered(st, q).tx \/ Offered(st, q).lag # <<>>
            \/ st.tx /\ st.lag = <<>> /\ Offered(st, q).buf = Append(st.buf, q)
<1>1. CASE ~st.tx
  BY <1>1 DEF Offered, Kin
<1>2. CASE st.tx /\ st.lag # <<>>
  <2>. DEFINE u == [st EXCEPT !.lag = <<@[1], q>>]
  <2>1. st.lag \in Nat \X Nat
    BY <1>2 DEF Stream
  <2>2. <<st.lag[1], q>> \in Nat \X Nat /\ <<st.lag[1], q>> # <<>>
    BY <2>1
  <2>3. u \in Stream /\ Kin(u, st) /\ u.tx = st.tx /\ u.buf = st.buf /\ u.lag # <<>>
    BY <2>2 DEF Stream, Kin
  <2>4. Offered(st, q) = u
    BY <1>2 DEF Offered
  <2>. HIDE DEF u
  <2>. QED
    BY <2>3, <2>4
<1>3. CASE st.tx /\ st.lag = <<>> /\ Len(st.buf) < Capacity
  <2>. DEFINE u == [st EXCEPT !.buf = Append(@, q)]
  <2>1. Append(st.buf, q) \in Seq(Nat)
    BY StreamFields, AppendProperties
  <2>2. u \in Stream /\ Kin(u, st) /\ u.tx = st.tx /\ u.buf = Append(st.buf, q)
    BY <2>1 DEF Stream, Kin
  <2>3. Offered(st, q) = u
    BY <1>3 DEF Offered
  <2>. HIDE DEF u
  <2>. QED
    BY <1>3, <2>2, <2>3
<1>4. CASE st.tx /\ st.lag = <<>> /\ ~(Len(st.buf) < Capacity)
  <2>. DEFINE u == [st EXCEPT !.lag = <<q, q>>]
  <2>1. <<q, q>> \in Nat \X Nat /\ <<q, q>> # <<>>
    OBVIOUS
  <2>2. u \in Stream /\ Kin(u, st) /\ u.tx = st.tx /\ u.buf = st.buf /\ u.lag # <<>>
    BY <2>1 DEF Stream, Kin
  <2>3. Offered(st, q) = u
    BY <1>4 DEF Offered
  <2>. HIDE DEF u
  <2>. QED
    BY <2>2, <2>3
<1>. QED
  BY <1>1, <1>2, <1>3, <1>4, StreamFields

\* However full its buffer is, a subscriber is sound after a fan-out.
LEMMA OfferedSound ==
  ASSUME NEW st \in Stream, NEW l \in Seq(Kinds), NEW k \in Kinds,
         NEW last \in Nat, NEW b \in Nat, last <= Len(l), Sound(st, l, last, b)
  PROVE  Sound(Offered(st, Len(l) + 1), Append(l, k), last, b)
<1>. DEFINE q == Len(l) + 1
            u == Offered(st, q)
<1>1. q \in Nat
  BY LenProperties
<1>2. /\ u \in Stream /\ Kin(u, st) /\ u.tx = st.tx
      /\ \/ u.buf = st.buf /\ (~u.tx \/ u.lag # <<>>)
         \/ st.tx /\ st.lag = <<>> /\ u.buf = Append(st.buf, q)
  BY <1>1, OfferedIs
<1>. HIDE DEF u
<1>3. CASE u.buf = st.buf /\ (~u.tx \/ u.lag # <<>>)
  <2>1. Sound(u, l, last, b)
    BY <1>2, <1>3, Quieter
  <2>. QED
    BY <1>2, <1>3, <2>1, PassedOver DEF u
<1>4. CASE st.tx /\ st.lag = <<>> /\ u.buf = Append(st.buf, q)
  BY <1>2, <1>4, Fed DEF u
<1>. QED
  BY <1>2, <1>3, <1>4

\* A new stream that reads no store, or one that has read it.
LEMMA PastIs ==
  ASSUME NEW s \in Sessions, NEW e \in Nat, NEW past \in Seq(Nat), NEW tx \in BOOLEAN
  PROVE  /\ Past(s, e, past, tx) \in Stream /\ Formed(Past(s, e, past, tx))
         /\ Past(s, e, past, tx).session = s /\ Past(s, e, past, tx).epoch = e
         /\ Past(s, e, past, tx).past = past /\ Past(s, e, past, tx).buf = <<>>
         /\ Past(s, e, past, tx).tx = tx /\ Past(s, e, past, tx).lag = <<>>
         /\ Past(s, e, past, tx).at \in {"try", "past"}
<1>1. <<>> \in Seq(Nat) /\ Giving(past) \in {"try", "past"}
  BY EmptySeq DEF Giving
<1>. DEFINE u == Past(s, e, past, tx)
<1>2. /\ u \in Stream /\ u.session = s /\ u.epoch = e /\ u.past = past /\ u.buf = <<>>
      /\ u.tx = tx /\ u.lag = <<>> /\ u.at = Giving(past)
  BY <1>1 DEF Past, Stream
<1>. HIDE DEF u
<1>3. Formed(u)
  BY <1>2 DEF Formed, Giving
<1>. QED
  BY <1>1, <1>2, <1>3 DEF u

\* A stream that ended holds nothing.
LEMMA FinishedIs ==
  ASSUME NEW st \in Stream
  PROVE  /\ Finished(st) \in Stream /\ Formed(Finished(st)) /\ Finished(st).at = "over"
         /\ Finished(st).session = st.session /\ Finished(st).epoch = st.epoch /\ ~Finished(st).tx
<1>. DEFINE none == <<>>
            u(tx) == Past(st.session, st.epoch, none, tx)
            v(tx) == [u(tx) EXCEPT !.at = "over"]
<1>1. none \in Seq(Nat)
  BY EmptySeq
<1>. HIDE DEF none
<1>2. ASSUME NEW tx \in BOOLEAN, ~tx
      PROVE  /\ v(tx) \in Stream /\ Formed(v(tx)) /\ v(tx).at = "over"
             /\ v(tx).session = st.session /\ v(tx).epoch = st.epoch /\ ~v(tx).tx
  <2>1. /\ u(tx) \in Stream /\ u(tx).session = st.session /\ u(tx).epoch = st.epoch
        /\ u(tx).past = none /\ u(tx).buf = <<>> /\ u(tx).tx = tx
    <3>1. st.session \in Sessions /\ st.epoch \in Nat
      BY StreamFields
    <3>. QED
      BY <1>1, <3>1, PastIs
  <2>. HIDE DEF u
  <2>2. /\ v(tx) \in Stream /\ v(tx).at = "over" /\ v(tx).session = st.session
        /\ v(tx).epoch = st.epoch /\ v(tx).tx = tx /\ v(tx).past = none /\ v(tx).buf = <<>>
    BY <2>1 DEF Stream
  <2>. HIDE DEF v
  <2>3. Formed(v(tx))
    BY <1>2, <2>2 DEF Formed, none
  <2>. QED
    BY <1>2, <2>2, <2>3
<1>3. Finished(st) = v(FALSE)
  BY DEF Finished, none
<1>. HIDE DEF v
<1>. QED
  BY <1>2, <1>3

\* A stream that holds what the journal has after the last frame forwarded is sound.
LEMMA Refilled ==
  ASSUME NEW u \in Stream, NEW l \in Seq(Kinds), NEW last \in Nat, NEW b \in Nat,
         u.at # "catch", u.buf = <<>>, Rising(u.past),
         \A k \in Nat : (\E i \in DOMAIN u.past : u.past[i] = k) <=> k \in Keeps(l) /\ k > last
  PROVE  Sound(u, l, last, b)
<1>1. \A k \in Nat : Holds(u, k) <=> k \in Keeps(l) /\ k > last
  BY EmptySeq DEF Holds
<1>2. \A k \in Keeps(l) : k \in Nat /\ k <= Len(l)
  BY LenProperties DEF Keeps
<1>3. InOrder(u, l, last)
  <2>1. Rising(u.buf) /\ \A i \in DOMAIN u.past, j \in DOMAIN u.buf : u.past[i] < u.buf[j]
    BY DEF Rising
  <2>2. \A k \in Nat : Holds(u, k) => k > Lowest(u, last) /\ k <= Len(l)
    BY <1>1, <1>2 DEF Lowest
  <2>. QED
    BY <2>1, <2>2 DEF InOrder
<1>4. Whole(u, l, last, b)
  <2>1. \A k \in Keeps(l) : k > Owed(u, last, b) => k > last
    BY <1>2 DEF Owed, Later
  <2>. QED
    BY <1>1, <1>2, <2>1 DEF Whole
<1>. QED
  BY <1>3, <1>4 DEF Sound

\* subscribe: from the window, or at a cut behind which the store is to be read.
LEMMA SubscribeIs ==
  ASSUME NEW s \in Sessions, NEW e \in Nat, NEW since \in Nat, NEW b \in Nat,
         log[s] \in Seq(Kinds), ckpt[s] \in Nat, since <= Len(log[s])
  PROVE  /\ Subscribe(s, e, since) \in Stream /\ Formed(Subscribe(s, e, since))
         /\ Subscribe(s, e, since).session = s /\ Subscribe(s, e, since).epoch = e
         /\ Subscribe(s, e, since).tx /\ Subscribe(s, e, since).at # "over"
         /\ Sound(Subscribe(s, e, since), log[s], since, b)
<1>0. Len(log[s]) \in Nat
  BY LenProperties
<1>1. CASE since < ckpt[s]
  <2>. DEFINE none == <<>>
              v(tx) == Past(s, e, none, tx)
              u(tx) == [v(tx) EXCEPT !.at = "catch", !.since = since, !.cut = Len(log[s]) + 1]
  <2>1. ASSUME NEW tx \in BOOLEAN
        PROVE  /\ u(tx) \in Stream /\ u(tx).session = s /\ u(tx).epoch = e /\ u(tx).at = "catch"
               /\ u(tx).past = none /\ u(tx).buf = <<>> /\ u(tx).tx = tx /\ u(tx).since = since
               /\ u(tx).cut = Len(log[s]) + 1
    <3>1. /\ v(tx) \in Stream /\ v(tx).session = s /\ v(tx).epoch = e
          /\ v(tx).past = none /\ v(tx).buf = <<>> /\ v(tx).tx = tx
      <4>1. none \in Seq(Nat)
        BY EmptySeq
      <4>. HIDE DEF none
      <4>. QED
        BY <4>1, PastIs
    <3>. DEFINE r == v(tx)
                c == Len(log[s]) + 1
                x == [r EXCEPT !.at = "catch", !.since = since, !.cut = c]
    <3>2. u(tx) = x
      OBVIOUS
    <3>3. c \in Nat /\ r \in Stream
      BY <1>0, <3>1
    <3>. HIDE DEF r, c
    <3>4. /\ x \in Stream /\ x.session = r.session /\ x.epoch = r.epoch /\ x.at = "catch"
          /\ x.past = r.past /\ x.buf = r.buf /\ x.tx = r.tx /\ x.since = since /\ x.cut = c
      BY <3>3 DEF Stream
    <3>. HIDE DEF u, v, x, none
    <3>. QED
      BY <3>1, <3>2, <3>4 DEF r, c
  <2>. DEFINE w == u(TRUE)
  <2>2. Subscribe(s, e, since) = w
    BY <1>1 DEF Subscribe
  <2>. HIDE DEF u
  <2>3. /\ w \in Stream /\ w.session = s /\ w.epoch = e /\ w.at = "catch" /\ w.past = <<>>
        /\ w.buf = <<>> /\ w.tx /\ w.since = since /\ w.cut = Len(log[s]) + 1
    BY <2>1
  <2>. HIDE DEF w
  <2>4. Formed(w)
    BY <2>3 DEF Formed
  <2>5. \A k : ~Holds(w, k)
    BY <2>3 DEF Holds
  <2>6. InOrder(w, log[s], since)
    BY <2>3, <2>5 DEF InOrder, Rising
  <2>7. Whole(w, log[s], since, b)
    <3>1. \A k \in Keeps(log[s]) : k \in Nat /\ k <= Len(log[s])
      BY LenProperties DEF Keeps
    <3>2. Owed(w, since, b) = Len(log[s])
      BY <1>0, <2>3 DEF Owed
    <3>. QED
      BY <1>0, <3>1, <3>2 DEF Whole
  <2>8. Sound(w, log[s], since, b)
    BY <1>0, <2>3, <2>6, <2>7 DEF Sound
  <2>. QED
    BY <2>2, <2>3, <2>4, <2>8
<1>2. CASE ~(since < ckpt[s])
  <2>. DEFINE S == {q \in Kept(s) : q > ckpt[s] /\ q > since}
              past == Ascending(S, Len(log[s]))
              v(tx) == Past(s, e, past, tx)
              w == v(TRUE)
  <2>1. /\ past \in Seq(Nat) /\ Rising(past)
        /\ \A k \in Nat : (\E i \in DOMAIN past : past[i] = k) <=> k \in S /\ k \in 1..Len(log[s])
    BY <1>0, AscendingIs
  <2>2. \A k \in Nat : k \in S /\ k \in 1..Len(log[s]) <=> k \in Keeps(log[s]) /\ k > since
    BY <1>2, LenProperties DEF Kept, Keeps
  <2>3. Subscribe(s, e, since) = w
    BY <1>2 DEF Subscribe
  <2>. HIDE DEF past, S
  <2>4. /\ w \in Stream /\ Formed(w) /\ w.session = s /\ w.epoch = e /\ w.past = past
        /\ w.buf = <<>> /\ w.tx /\ w.at \in {"try", "past"}
    <3>1. \A tx \in BOOLEAN :
             /\ v(tx) \in Stream /\ Formed(v(tx)) /\ v(tx).session = s /\ v(tx).epoch = e
             /\ v(tx).past = past /\ v(tx).buf = <<>> /\ v(tx).tx = tx /\ v(tx).at \in {"try", "past"}
      <4>1. past \in Seq(Nat)
        BY <2>1
      <4>. QED
        BY <4>1, PastIs
    <3>. HIDE DEF v
    <3>. QED
      BY <3>1
  <2>. HIDE DEF w
  <2>5. Sound(w, log[s], since, b)
    BY <2>1, <2>2, <2>4, Refilled
  <2>. QED
    BY <2>3, <2>4, <2>5
<1>. QED
  BY <1>1, <1>2

\* catch_up: what the store has up to the cut comes before what has queued.
LEMMA CaughtUp ==
  ASSUME NEW st \in Stream, NEW u \in Stream, NEW l \in Seq(Kinds), NEW last \in Nat, NEW b \in Nat,
         Sound(st, l, last, b), st.at = "catch", u.at # "catch", Formed(st),
         u.buf = st.buf, u.tx = st.tx, u.lag = st.lag, Rising(u.past),
         \A k \in Nat : (\E i \in DOMAIN u.past : u.past[i] = k) <=>
                          k \in Keeps(l) /\ k > st.since /\ k < st.cut
  PROVE  Sound(u, l, last, b)
<1>0. /\ st.since = last /\ st.cut > last /\ st.cut <= Len(l) + 1 /\ st.cut \in Nat /\ Len(l) \in Nat
      /\ st.past = <<>>
  BY StreamFields, LenProperties DEF Sound, Formed
<1>1. \A k \in Keeps(l) : k \in Nat /\ k <= Len(l)
  BY LenProperties DEF Keeps
<1>2. \A k \in Nat : Holds(st, k) <=> \E i \in DOMAIN st.buf : st.buf[i] = k
  BY <1>0 DEF Holds
<1>3. \A k \in Nat : Holds(u, k) <=> (k \in Keeps(l) /\ k > last /\ k < st.cut) \/ Holds(st, k)
  BY <1>0, <1>2 DEF Holds
<1>4. \A k \in Nat : Holds(st, k) => k >= st.cut /\ k <= Len(l)
  BY <1>0 DEF Sound, InOrder, Lowest
<1>5. InOrder(u, l, last)
  <2>1. \A i \in DOMAIN u.past, j \in DOMAIN u.buf : u.past[i] < u.buf[j]
    <3>. SUFFICES ASSUME NEW i \in DOMAIN u.past, NEW j \in DOMAIN u.buf PROVE u.past[i] < u.buf[j]
      OBVIOUS
    <3>1. u.past[i] \in Nat /\ u.buf[j] \in Nat
      BY StreamFields
    <3>2. u.past[i] < st.cut
      BY <3>1
    <3>3. u.buf[j] >= st.cut
      BY <1>2, <1>4, <3>1
    <3>. QED
      BY <1>0, <3>1, <3>2, <3>3
  <2>2. \A k \in Nat : Holds(u, k) => k > Lowest(u, last) /\ k <= Len(l)
    BY <1>0, <1>1, <1>3, <1>4 DEF Lowest
  <2>3. Rising(u.buf)
    BY DEF Sound, InOrder
  <2>. QED
    BY <2>1, <2>2, <2>3 DEF InOrder
<1>6. Whole(u, l, last, b)
  <2>. SUFFICES ASSUME NEW k \in Keeps(l), k > Owed(u, last, b),
                       (u.tx /\ u.lag = <<>>) \/ \E e \in Nat : Holds(u, e) /\ k <= e
                PROVE  Holds(u, k)
    BY DEF Whole
  <2>1. k \in Nat /\ k > last
    BY <1>1 DEF Owed, Later
  <2>2. CASE k < st.cut
    BY <1>3, <2>1, <2>2
  <2>3. CASE ~(k < st.cut)
    <3>1. k > Owed(st, last, b)
      BY <1>0, <2>1, <2>3 DEF Owed
    <3>2. (st.tx /\ st.lag = <<>>) \/ \E e \in Nat : Holds(st, e) /\ k <= e
      <4>1. ASSUME NEW e \in Nat, Holds(u, e), k <= e PROVE Holds(st, e)
        BY <1>0, <1>3, <2>1, <2>3, <4>1
      <4>. QED
        BY <4>1
    <3>3. Holds(st, k)
      BY <3>1, <3>2 DEF Sound, Whole
    <3>. QED
      BY <1>3, <2>1, <3>3
  <2>. QED
    BY <2>2, <2>3
<1>. QED
  BY <1>5, <1>6 DEF Sound

\* A stream that gives the least number it holds passes over nothing the journal
\* keeps, and is sound after it.
LEMMA Given ==
  ASSUME NEW st \in Stream, NEW u \in Stream, NEW l \in Seq(Kinds), NEW last \in Nat, NEW b \in Nat,
         NEW q \in Nat, Sound(st, l, last, b), st.at # "catch", u.at # "catch",
         u.tx = st.tx, u.lag = st.lag, Rising(u.past), Rising(u.buf),
         \A i \in DOMAIN u.past, j \in DOMAIN u.buf : u.past[i] < u.buf[j],
         \A k \in Nat : Holds(st, k) <=> k = q \/ Holds(u, k),
         \A k \in Nat : Holds(u, k) => k > q
  PROVE  /\ Sound(u, l, q, b) /\ q > last /\ q <= Len(l)
         /\ \A k \in Keeps(l) : k <= Later(last, b) \/ k >= q
<1>0. Len(l) \in Nat /\ \A k \in Keeps(l) : k \in Nat
  BY LenProperties DEF Keeps
<1>1. \A k \in Nat : Holds(st, k) => k > last /\ k <= Len(l)
  BY DEF Sound, InOrder, Lowest
<1>2. q > last /\ q <= Len(l) /\ Holds(st, q)
  BY <1>1
<1>3. \A k \in Keeps(l) : k <= Later(last, b) \/ k >= q
  <2>. SUFFICES ASSUME NEW k \in Keeps(l), k > Later(last, b), k < q PROVE FALSE
    BY <1>0 DEF Later
  <2>1. Holds(st, k)
    <3>1. k > Owed(st, last, b)
      BY DEF Owed
    <3>2. k <= q
      BY <1>0
    <3>. QED
      BY <1>2, <3>1, <3>2 DEF Sound, Whole
  <2>. QED
    BY <1>0, <2>1
<1>4. InOrder(u, l, q)
  BY <1>1 DEF InOrder, Lowest
<1>5. Whole(u, l, q, b)
  <2>. SUFFICES ASSUME NEW k \in Keeps(l), k > Owed(u, q, b),
                       (u.tx /\ u.lag = <<>>) \/ \E e \in Nat : Holds(u, e) /\ k <= e
                PROVE  Holds(u, k)
    BY DEF Whole
  <2>1. k > q /\ k > Owed(st, last, b)
    BY <1>0, <1>2 DEF Owed, Later
  <2>2. (st.tx /\ st.lag = <<>>) \/ \E e \in Nat : Holds(st, e) /\ k <= e
    OBVIOUS
  <2>3. Holds(st, k)
    BY <2>1, <2>2 DEF Sound, Whole
  <2>. QED
    BY <1>0, <2>1, <2>3
<1>. QED
  BY <1>2, <1>3, <1>4, <1>5 DEF Sound

-----------------------------------------------------------------------------
(* The streams of the forwarder, while sessions publish. *)

\* R has streams in the places of those of S.
Alike(R, S) ==
    /\ \A u \in R : \E st \in S : u.session = st.session /\ u.epoch = st.epoch /\ u.at = st.at
    /\ \A u, v \in R : u.epoch = v.epoch => u = v

LEMMA AlikeKeeps ==
  ASSUME NEW R, NEW S, Alike(R, S), NEW F, NEW n
  PROVE  /\ Marked(S, F, n) => Marked(R, F, n)
         /\ \A T, late : Tasked(T, S, F, late) => Tasked(T, R, F, late)
<1>1. Marked(S, F, n) => Marked(R, F, n)
  BY DEF Marked, Alike
<1>2. ASSUME NEW t, NEW late, Begun(t, S, F, late) PROVE Begun(t, R, F, late)
  <2>1. t[1] = "heal" => \A u \in R : u.session = t[2] => u.at = "over"
    BY <1>2 DEF Begun, Alike
  <2>2. t[1] = "look" => \A u \in R : u.epoch = t[2] => u.at = "look"
    BY <1>2 DEF Begun, Alike
  <2>. QED
    BY <1>2, <2>1, <2>2 DEF Begun
<1>. QED
  BY <1>1, <1>2 DEF Tasked

\* A log with a frame more, of one session.
Grown(L, s, k) == [L EXCEPT ![s] = Append(@, k)]

LEMMA GrownIs ==
  ASSUME NEW L \in [Sessions -> Seq(Kinds)], NEW s \in Sessions, NEW k \in Kinds
  PROVE  /\ Grown(L, s, k) \in [Sessions -> Seq(Kinds)] /\ Grown(L, s, k)[s] = Append(L[s], k)
         /\ \A x \in Sessions : x # s => Grown(L, s, k)[x] = L[x]
         /\ Len(L[s]) \in Nat /\ Len(Grown(L, s, k)[s]) = Len(L[s]) + 1
         /\ \A x \in Sessions : \A q \in DOMAIN L[x] :
              q \in DOMAIN Grown(L, s, k)[x] /\ Grown(L, s, k)[x][q] = L[x][q]
         /\ \A x \in Sessions : Len(L[x]) \in Nat /\ Len(Grown(L, s, k)[x]) \in Nat
                                  /\ Len(L[x]) <= Len(Grown(L, s, k)[x])
<1>. DEFINE G == Grown(L, s, k)
<1>1. L[s] \in Seq(Kinds) /\ \A x \in Sessions : L[x] \in Seq(Kinds)
  OBVIOUS
<1>2. Append(L[s], k) \in Seq(Kinds) /\ Len(Append(L[s], k)) = Len(L[s]) + 1 /\ Len(L[s]) \in Nat
  BY <1>1, Longer
<1>3. G \in [Sessions -> Seq(Kinds)] /\ G[s] = Append(L[s], k) /\ \A x \in Sessions : x # s => G[x] = L[x]
  BY <1>2 DEF Grown
<1>. HIDE DEF G
<1>4. \A x \in Sessions : Len(L[x]) \in Nat /\ Len(G[x]) \in Nat /\ Len(L[x]) <= Len(G[x])
  <2>. SUFFICES ASSUME NEW x \in Sessions
                PROVE  Len(L[x]) \in Nat /\ Len(G[x]) \in Nat /\ Len(L[x]) <= Len(G[x])
    OBVIOUS
  <2>1. Len(L[x]) \in Nat
    BY <1>1, LenProperties
  <2>2. CASE x = s
    BY <1>2, <1>3, <2>2
  <2>3. CASE x # s
    BY <1>3, <2>1, <2>3
  <2>. QED
    BY <2>2, <2>3
<1>5. ASSUME NEW x \in Sessions, NEW q \in DOMAIN L[x] PROVE q \in DOMAIN G[x] /\ G[x][q] = L[x][q]
  <2>1. CASE x = s
    BY <1>1, <1>3, <2>1, Longer
  <2>2. CASE x # s
    BY <1>3, <2>2
  <2>. QED
    BY <2>1, <2>2
<1>. QED
  BY <1>2, <1>3, <1>4, <1>5 DEF G

LEMMA GrownKeeps ==
  ASSUME NEW L \in [Sessions -> Seq(Kinds)], NEW s \in Sessions, NEW k \in Kinds
  PROVE  /\ \A F \in [Sessions -> Followed] : \A B, N : Reached(F, L, B, N) => Reached(F, Grown(L, s, k), B, N)
         /\ \A O : Owned(O, L) => Owned(O, Grown(L, s, k))
<1>. DEFINE G == Grown(L, s, k)
<1>1. /\ \A x \in Sessions : Len(L[x]) \in Nat /\ Len(G[x]) \in Nat /\ Len(L[x]) <= Len(G[x])
      /\ \A x \in Sessions : \A q \in DOMAIN L[x] : q \in DOMAIN G[x]
  BY GrownIs
<1>. HIDE DEF G
<1>2. ASSUME NEW F \in [Sessions -> Followed], NEW B, NEW N, Reached(F, L, B, N) PROVE Reached(F, G, B, N)
  <2>1. \A x \in Sessions : F[x].last \in Nat
    BY DEF Followed
  <2>2. \A x \in Sessions : F[x].last <= Len(G[x])
    BY <1>1, <1>2, <2>1 DEF Reached
  <2>. QED
    BY <1>2, <2>2 DEF Reached
<1>3. ASSUME NEW O, Owned(O, L) PROVE Owned(O, G)
  <2>1. \A o \in O : o[1] \in Sessions
    BY <1>3 DEF Owned
  <2>. QED
    BY <1>1, <1>3, <2>1 DEF Owned
<1>. QED
  BY <1>2, <1>3 DEF G

\* A frame that no stream gets: it is not kept, or its session's streams are deaf.
LEMMA ServedUnheard ==
  ASSUME NEW S, S \subseteq Stream, NEW F \in [Sessions -> Followed], NEW I,
         NEW L \in [Sessions -> Seq(Kinds)], NEW B \in [Sessions -> Nat],
         Served(S, F, I, L, B), NEW s \in Sessions, NEW k \in Kinds, I[s] = "live" => ~Durable(k)
  PROVE  Served(S, F, I, Grown(L, s, k), B)
<1>. DEFINE G == Grown(L, s, k)
<1>1. G[s] = Append(L[s], k) /\ \A x \in Sessions : x # s => G[x] = L[x]
  BY GrownIs
<1>. HIDE DEF G
<1>. SUFFICES ASSUME NEW st \in S, st.at # "over"
              PROVE  Sound(st, G[st.session], F[st.session].last, B[st.session])
  BY DEF Served, G
<1>2. st \in Stream /\ st.session \in Sessions
  BY StreamFields
<1>3. Sound(st, L[st.session], F[st.session].last, B[st.session]) /\ (st.tx => I[st.session] = "live")
  BY DEF Served
<1>4. CASE st.session = s
  <2>1. L[s] \in Seq(Kinds) /\ F[s].last \in Nat /\ B[s] \in Nat
    BY DEF Followed
  <2>. QED
    BY <1>1, <1>2, <1>3, <1>4, <2>1, PassedOver
<1>5. CASE st.session # s
  BY <1>1, <1>2, <1>3, <1>5
<1>. QED
  BY <1>4, <1>5

LEMMA FanoutIs ==
  ASSUME NEW S, S \subseteq Stream, NEW s, NEW q \in Nat, NEW F, NEW n, Marked(S, F, n)
  PROVE  /\ Fanout(S, s, q) \subseteq Stream /\ Alike(Fanout(S, s, q), S)
         /\ \A u \in Fanout(S, s, q) : \E st \in S : Kin(u, st) /\ u.tx = st.tx
                                          /\ u = IF st.session = s THEN Offered(st, q) ELSE st
<1>. DEFINE f(st) == IF st.session = s THEN Offered(st, q) ELSE st
<1>1. ASSUME NEW st \in S PROVE f(st) \in Stream /\ Kin(f(st), st) /\ f(st).tx = st.tx
  <2>1. CASE st.session = s
    BY <2>1, OfferedIs
  <2>2. CASE st.session # s
    BY <2>2 DEF Kin
  <2>. QED
    BY <2>1, <2>2
<1>2. \A u \in Fanout(S, s, q) : \E st \in S : u = f(st)
  BY DEF Fanout
<1>. HIDE DEF f
<1>3. \A u, v \in Fanout(S, s, q) : u.epoch = v.epoch => u = v
  BY <1>1, <1>2 DEF Kin, Marked
<1>4. Alike(Fanout(S, s, q), S)
  BY <1>1, <1>2, <1>3 DEF Alike, Kin
<1>5. Fanout(S, s, q) \subseteq Stream
  BY <1>1, <1>2
<1>6. \A u \in Fanout(S, s, q) : \E st \in S : Kin(u, st) /\ u.tx = st.tx /\ u = f(st)
  BY <1>1, <1>2
<1>. QED
  BY <1>4, <1>5, <1>6 DEF f

\* A frame that is fanned out to the subscribers of its session.
LEMMA ServedFanout ==
  ASSUME NEW S, S \subseteq Stream, NEW F \in [Sessions -> Followed], NEW I, NEW n, NEW N,
         NEW L \in [Sessions -> Seq(Kinds)], NEW B \in [Sessions -> Nat],
         Served(S, F, I, L, B), Marked(S, F, n), Reached(F, L, B, N), NEW s \in Sessions, NEW k \in Kinds
  PROVE  Served(Fanout(S, s, Len(L[s]) + 1), F, I, Grown(L, s, k), B)
<1>. DEFINE G == Grown(L, s, k)
            q == Len(L[s]) + 1
            R == Fanout(S, s, q)
<1>1. G[s] = Append(L[s], k) /\ (\A x \in Sessions : x # s => G[x] = L[x]) /\ q \in Nat
  BY GrownIs
<1>2. \A u \in R : \E st \in S : Kin(u, st) /\ u.tx = st.tx
                                  /\ u = IF st.session = s THEN Offered(st, q) ELSE st
  BY <1>1, FanoutIs
<1>3. R \subseteq Stream
  BY <1>1, FanoutIs
<1>. HIDE DEF G, R
<1>. SUFFICES ASSUME NEW u \in R
              PROVE  /\ Formed(u) /\ (u.tx => I[u.session] = "live")
                     /\ u.at # "over" => Sound(u, G[u.session], F[u.session].last, B[u.session])
  BY DEF Served, G, R
<1>4. PICK st \in S : Kin(u, st) /\ u.tx = st.tx /\ u = IF st.session = s THEN Offered(st, q) ELSE st
  BY <1>2
<1>5. /\ Formed(st) /\ (st.tx => I[st.session] = "live") /\ st \in Stream /\ st.session \in Sessions
      /\ st.at # "over" => Sound(st, L[st.session], F[st.session].last, B[st.session])
  BY StreamFields DEF Served
<1>6. L[s] \in Seq(Kinds) /\ F[s].last \in Nat /\ B[s] \in Nat /\ F[s].last <= Len(L[s])
  BY DEF Followed, Reached
<1>7. Formed(u)
  <2>1. CASE st.at = "over"
    <3>1. ~st.tx /\ u = st
      BY <1>4, <1>5, <2>1 DEF Formed, Offered
    <3>. QED
      BY <1>5, <3>1
  <2>2. CASE st.at # "over"
    BY <1>4, <1>5, <2>2 DEF Formed, Kin
  <2>. QED
    BY <2>1, <2>2
<1>8. u.tx => I[u.session] = "live"
  BY <1>4, <1>5 DEF Kin
<1>9. ASSUME u.at # "over" PROVE Sound(u, G[u.session], F[u.session].last, B[u.session])
  <2>1. st.at # "over" /\ u.session = st.session
    BY <1>4, <1>9 DEF Kin
  <2>2. CASE st.session = s
    <3>1. u = Offered(st, Len(L[s]) + 1)
      BY <1>4, <2>2
    <3>2. Sound(st, L[s], F[s].last, B[s])
      BY <1>5, <2>1, <2>2
    <3>3. Sound(Offered(st, Len(L[s]) + 1), Append(L[s], k), F[s].last, B[s])
      <4>1. st \in Stream
        BY <1>5
      <4>. QED
        BY <1>6, <3>2, <4>1, OfferedSound
    <3>4. u.session = s /\ G[s] = Append(L[s], k)
      BY <1>1, <2>1, <2>2
    <3>. QED
      BY <3>1, <3>3, <3>4
  <2>3. CASE st.session # s
    BY <1>1, <1>4, <1>5, <2>1, <2>3
  <2>. QED
    BY <2>2, <2>3
<1>. QED
  BY <1>7, <1>8, <1>9

\* subscribers.clear, with which the session stops running.
LEMMA ServedCleared ==
  ASSUME NEW S, S \subseteq Stream, NEW F, NEW I, NEW L, NEW B, NEW n,
         Served(S, F, I, L, B), Marked(S, F, n), NEW s \in Sessions
  PROVE  /\ Cleared(S, s) \subseteq Stream /\ Alike(Cleared(S, s), S)
         /\ \A J : (\A x \in Sessions : x # s => J[x] = I[x]) => Served(Cleared(S, s), F, J, L, B)
         /\ \A u \in Cleared(S, s) : u.session # s => u \in S
<1>. DEFINE g(st, tx) == [st EXCEPT !.tx = tx]
            f(st) == IF st.session = s THEN g(st, FALSE) ELSE st
            R == Cleared(S, s)
<1>1. ASSUME NEW st \in S, st.session = s
      PROVE  /\ f(st) \in Stream /\ Kin(f(st), st) /\ ~f(st).tx /\ f(st).buf = st.buf
  <2>1. \A tx \in BOOLEAN : g(st, tx) \in Stream /\ Kin(g(st, tx), st) /\ g(st, tx).tx = tx
                              /\ g(st, tx).buf = st.buf
    BY DEF Stream, Kin
  <2>2. f(st) = g(st, FALSE)
    BY <1>1
  <2>. HIDE DEF f, g
  <2>. QED
    BY <2>1, <2>2
<1>2. \A st \in S : st.session # s => f(st) = st
  OBVIOUS
<1>3. \A u \in R : \E st \in S : u = f(st)
  BY DEF Cleared
<1>. HIDE DEF f, R, g
<1>4. \A st \in S : f(st) \in Stream /\ f(st).session = st.session /\ f(st).epoch = st.epoch /\ f(st).at = st.at
  BY <1>1, <1>2 DEF Kin
<1>5. R \subseteq Stream
  BY <1>3, <1>4
<1>6. Alike(R, S)
  <2>1. \A u, v \in R : u.epoch = v.epoch => u = v
    BY <1>3, <1>4 DEF Marked
  <2>. QED
    BY <1>3, <1>4, <2>1 DEF Alike
<1>7. ASSUME NEW J, \A x \in Sessions : x # s => J[x] = I[x] PROVE Served(R, F, J, L, B)
  <2>. SUFFICES ASSUME NEW u \in R
                PROVE  /\ Formed(u) /\ (u.tx => J[u.session] = "live")
                       /\ u.at # "over" => Sound(u, L[u.session], F[u.session].last, B[u.session])
    BY DEF Served
  <2>1. PICK st \in S : u = f(st)
    BY <1>3
  <2>2. /\ Formed(st) /\ (st.tx => I[st.session] = "live") /\ st \in Stream /\ st.session \in Sessions
        /\ st.at # "over" => Sound(st, L[st.session], F[st.session].last, B[st.session])
    BY StreamFields DEF Served
  <2>3. CASE st.session = s
    <3>1. u \in Stream /\ Kin(u, st) /\ ~u.tx /\ u.buf = st.buf
      BY <1>1, <2>1, <2>3
    <3>2. Formed(u)
      BY <2>2, <3>1 DEF Formed, Kin
    <3>3. st.at # "over" => Sound(u, L[st.session], F[st.session].last, B[st.session])
      BY <2>2, <3>1, Quieter
    <3>. QED
      BY <3>1, <3>2, <3>3 DEF Kin
  <2>4. CASE st.session # s
    BY <1>2, <1>7, <2>1, <2>2, <2>4
  <2>. QED
    BY <2>3, <2>4
<1>8. \A u \in R : u.session # s => u \in S
  BY <1>2, <1>3, <1>4
<1>. QED
  BY <1>5, <1>6, <1>7, <1>8 DEF R

-----------------------------------------------------------------------------
(* What sessions do. *)

\* What a session says is one frame or two.
LEMMA SayIs ==
  ASSUME log \in [Sessions -> Seq(Kinds)], NEW s \in Sessions, NEW k \in Kinds, NEW k2 \in Kinds
  PROVE  /\ Say(s, <<k>>) => log' = Grown(log, s, k)
         /\ Say(s, <<k, k2>>) => log' = Grown(Grown(log, s, k), s, k2)
<1>. DEFINE l == log[s]
<1>1. l \in Seq(Kinds) /\ Len(l) \in Nat
  BY LenProperties
<1>2. l \o <<k>> = Append(l, k)
  BY <1>1
<1>3. l \o <<k, k2>> = Append(Append(l, k), k2)
  BY <1>1
<1>4. Say(s, <<k>>) => log' = Grown(log, s, k)
  BY <1>2 DEF Say, Grown
<1>5. ASSUME Say(s, <<k, k2>>) PROVE log' = Grown(Grown(log, s, k), s, k2)
  <2>. DEFINE G == Grown(log, s, k)
  <2>1. G \in [Sessions -> Seq(Kinds)] /\ G[s] = Append(l, k) /\ \A x \in Sessions : x # s => G[x] = log[x]
    BY GrownIs
  <2>. HIDE DEF G
  <2>2. log' = [log EXCEPT ![s] = Append(Append(l, k), k2)]
    BY <1>3, <1>5 DEF Say
  <2>3. Grown(G, s, k2) = [G EXCEPT ![s] = Append(Append(l, k), k2)]
    BY <2>1 DEF Grown
  <2>. HIDE DEF l
  <2>4. [log EXCEPT ![s] = Append(Append(l, k), k2)] = [G EXCEPT ![s] = Append(Append(l, k), k2)]
    BY <2>1
  <2>. QED
    BY <2>2, <2>3, <2>4 DEF G
<1>. QED
  BY <1>4, <1>5

LEMMA RootedKeeps ==
  ASSUME NEW R, NEW S, NEW F, NEW I, NEW J, NEW T, Rooted(S, F, I, T),
         J[Root] # "live" \/ J[Root] = I[Root],
         J[Root] = "live" => \A u \in R : u.session = Root => \E st \in S : Kin(u, st) /\ u.tx = st.tx
  PROVE  Rooted(R, F, J, T)
BY DEF Rooted, Kin

\* What a session does leaves the forwarder and the client as they are.
LEMMA SessionStep ==
  ASSUME TreeInv, ~over, UNCHANGED <<gateway, forwarder, client, faults>>,
         life' \in [Sessions -> Lives], log' \in [Sessions -> Seq(Kinds)],
         ckpt' \in [Sessions -> Nat], due' \subseteq Children,
         streams' \subseteq Stream, Alike(streams', streams),
         Served(streams', followed, life', log', base), Reached(followed, log', base, seen),
         Rooted(streams', followed, life', todo),
         \A x \in Sessions : \A q \in DOMAIN log[x] : q \in DOMAIN log'[x] /\ log'[x][q] = log[x][q]
  PROVE  TreeInv'
<1>. USE DEF gateway, forwarder, client
<1>1. /\ Marked(streams', followed', epochs')
      /\ Tasked(todo', streams', followed', liveOnly')
  BY AlikeKeeps DEF TreeInv
<1>2. Served(streams', followed', life', log', base') /\ Reached(followed', log', base', seen')
  OBVIOUS
<1>3. Rooted(streams', followed', life', todo')
  OBVIOUS
<1>4. \A o \in owners : o[1] \in Sessions /\ o[2] \in DOMAIN log[o[1]]
  BY DEF TreeInv, Owned
<1>5. Owned(owners', log')
  BY <1>4 DEF TreeInv, Owned
<1>6. NoRepeats' /\ EndsWithRoot'
  BY DEF TreeInv, NoRepeats, EndsWithRoot
<1>7. TypeOK'
  <2>1. \A o \in owners : o[2] <= seen[o[1]] /\ log'[o[1]][o[2]] = "opened"
    BY <1>4 DEF TreeInv, TypeOK
  <2>. QED
    BY <2>1 DEF TreeInv, TypeOK
<1>. QED
  BY <1>1, <1>2, <1>3, <1>5, <1>6, <1>7 DEF TreeInv

LEMMA LiveIs ==
  ASSUME life \in [Sessions -> Lives], NEW s \in Sessions, NEW l \in Lives, life' = [life EXCEPT ![s] = l]
  PROVE  life' \in [Sessions -> Lives] /\ life'[s] = l /\ \A x \in Sessions : x # s => life'[x] = life[x]
OBVIOUS

\* Sayings are kinds of frames.
LEMMA SayingsAreKinds == Sayings \subseteq Kinds
BY TreeAssumption DEF Kinds

\* The streams S and the logs L are what sessions that go on running may make of
\* those of this state.
Carried(S, L) ==
    /\ L \in [Sessions -> Seq(Kinds)] /\ S \subseteq Stream
    /\ Marked(S, followed, epochs) /\ Alike(S, streams)
    /\ Served(S, followed, life, L, base) /\ Reached(followed, L, base, seen)
    /\ \A x \in Sessions : \A q \in DOMAIN log[x] : q \in DOMAIN L[x] /\ L[x][q] = log[x][q]
    /\ \A u \in S : \E st \in streams : Kin(u, st) /\ u.tx = st.tx

LEMMA CarriedNow ==
  ASSUME TreeInv
  PROVE  Carried(streams, log)
<1>1. Alike(streams, streams) /\ \A u \in streams : Kin(u, u)
  BY DEF TreeInv, Marked, Alike, Kin
<1>. QED
  BY <1>1 DEF TreeInv, TypeOK, Carried

LEMMA CarriedFanout ==
  ASSUME TreeInv, NEW S, NEW L, Carried(S, L), NEW s \in Sessions, NEW k \in Kinds
  PROVE  Carried(Fanout(S, s, Len(L[s]) + 1), Grown(L, s, k))
<1>. DEFINE q == Len(L[s]) + 1
            R == Fanout(S, s, q)
            G == Grown(L, s, k)
<1>1. /\ followed \in [Sessions -> Followed] /\ base \in [Sessions -> Nat]
      /\ L \in [Sessions -> Seq(Kinds)] /\ S \subseteq Stream
  BY DEF TreeInv, TypeOK, Carried
<1>2. Marked(S, followed, epochs) /\ Served(S, followed, life, L, base) /\ Reached(followed, L, base, seen)
  BY DEF Carried
<1>3. /\ G \in [Sessions -> Seq(Kinds)] /\ q \in Nat
      /\ \A x \in Sessions : \A p \in DOMAIN L[x] : p \in DOMAIN G[x] /\ G[x][p] = L[x][p]
  <2>1. L \in [Sessions -> Seq(Kinds)]
    BY <1>1
  <2>. QED
    BY <2>1, GrownIs
<1>4. Served(R, followed, life, G, base)
  BY <1>1, <1>2, ServedFanout
<1>5. Reached(followed, G, base, seen)
  BY <1>1, <1>2, GrownKeeps
<1>. HIDE DEF q, G
<1>6. /\ R \subseteq Stream /\ Alike(R, S) /\ \A u \in R : \E st \in S : Kin(u, st) /\ u.tx = st.tx
  <2>1. S \subseteq Stream /\ q \in Nat /\ Marked(S, followed, epochs)
    BY <1>1, <1>2, <1>3
  <2>. QED
    BY <2>1, FanoutIs
<1>. HIDE DEF R
<1>7. Marked(R, followed, epochs)
  BY <1>2, <1>6, AlikeKeeps
<1>8. Alike(R, streams)
  BY <1>6 DEF Carried, Alike
<1>9. \A u \in R : \E st \in streams : Kin(u, st) /\ u.tx = st.tx
  BY <1>6 DEF Carried, Kin
<1>10. \A x \in Sessions : \A p \in DOMAIN log[x] : p \in DOMAIN G[x] /\ G[x][p] = log[x][p]
  BY <1>3 DEF Carried
<1>11. Carried(R, G)
  BY <1>3, <1>4, <1>5, <1>6, <1>7, <1>8, <1>9, <1>10 DEF Carried
<1>. QED
  BY <1>11 DEF R, G, q

LEMMA CarriedUnheard ==
  ASSUME TreeInv, NEW S, NEW L, Carried(S, L), NEW s \in Sessions, NEW k \in Kinds,
         life[s] = "live" => ~Durable(k)
  PROVE  Carried(S, Grown(L, s, k))
<1>. DEFINE G == Grown(L, s, k)
<1>1. /\ followed \in [Sessions -> Followed] /\ base \in [Sessions -> Nat]
      /\ L \in [Sessions -> Seq(Kinds)] /\ S \subseteq Stream
  BY DEF TreeInv, TypeOK, Carried
<1>2. Served(S, followed, life, L, base) /\ Reached(followed, L, base, seen)
  BY DEF Carried
<1>3. /\ G \in [Sessions -> Seq(Kinds)]
      /\ \A x \in Sessions : \A p \in DOMAIN L[x] : p \in DOMAIN G[x] /\ G[x][p] = L[x][p]
  BY <1>1, GrownIs
<1>4. Served(S, followed, life, G, base)
  BY <1>1, <1>2, ServedUnheard
<1>5. Reached(followed, G, base, seen)
  BY <1>1, <1>2, GrownKeeps
<1>. HIDE DEF G
<1>6. \A x \in Sessions : \A p \in DOMAIN log[x] : p \in DOMAIN G[x] /\ G[x][p] = log[x][p]
  BY <1>3 DEF Carried
<1>7. Carried(S, G)
  BY <1>3, <1>4, <1>5, <1>6 DEF Carried
<1>. QED
  BY <1>7 DEF G

\* A session that runs on, or begins to.
LEMMA Runs ==
  ASSUME TreeInv, ~over, Carried(streams', log'), NEW s \in Sessions,
         life' = life \/ (life' = [life EXCEPT ![s] = "live"] /\ s # Root),
         ckpt' \in [Sessions -> Nat], due' \subseteq Children,
         UNCHANGED <<gateway, forwarder, client, faults>>
  PROVE  TreeInv'
<1>1. life \in [Sessions -> Lives] /\ Root \in Sessions
  BY DEF TreeInv, TypeOK, Sessions
<1>2. /\ life' \in [Sessions -> Lives] /\ life'[Root] = life[Root]
      /\ \A x \in Sessions : life[x] = "live" => life'[x] = "live"
  BY <1>1 DEF Lives
<1>3. Served(streams', followed, life', log', base)
  <2>1. \A st \in streams' : st.session \in Sessions
    BY StreamFields DEF Carried
  <2>. QED
    BY <1>2, <2>1 DEF Carried, Served
<1>4. Rooted(streams', followed, life', todo)
  BY <1>2, RootedKeeps DEF TreeInv, Carried
<1>. QED
  BY <1>2, <1>3, <1>4, SessionStep DEF Carried

\* A session that stops, with its subscribers let go.
LEMMA Stops ==
  ASSUME TreeInv, ~over, NEW S, Carried(S, log'), NEW s \in Sessions, streams' = Cleared(S, s),
         NEW l \in {"closed", "gone"}, life' = [life EXCEPT ![s] = l],
         UNCHANGED <<ckpt, due, gateway, forwarder, client, faults>>
  PROVE  TreeInv'
<1>1. life \in [Sessions -> Lives] /\ Root \in Sessions /\ ckpt' \in [Sessions -> Nat] /\ due' \subseteq Children
  BY DEF TreeInv, TypeOK, Sessions
<1>2. life' \in [Sessions -> Lives] /\ life'[s] # "live" /\ \A x \in Sessions : x # s => life'[x] = life[x]
  BY <1>1 DEF Lives
<1>3. S \subseteq Stream /\ Served(S, followed, life, log', base) /\ Marked(S, followed, epochs)
  BY DEF Carried
<1>4. /\ streams' \subseteq Stream /\ Alike(streams', S) /\ Served(streams', followed, life', log', base)
      /\ \A u \in streams' : u.session # s => u \in S
  <2>. DEFINE R == Cleared(S, s)
  <2>1. /\ R \subseteq Stream /\ Alike(R, S) /\ \A u \in R : u.session # s => u \in S
        /\ \A J : (\A x \in Sessions : x # s => J[x] = life[x]) => Served(R, followed, J, log', base)
    BY <1>3, ServedCleared
  <2>. HIDE DEF R
  <2>2. Served(R, followed, life', log', base)
    BY <1>2, <2>1
  <2>. QED
    BY <2>1, <2>2 DEF R
<1>5. Alike(streams', streams)
  BY <1>4 DEF Carried, Alike
<1>6. Rooted(streams', followed, life', todo)
  BY <1>1, <1>2, <1>4, RootedKeeps DEF TreeInv, Carried
<1>7. UNCHANGED <<gateway, forwarder, client, faults>>
  OBVIOUS
<1>. QED
  BY <1>1, <1>2, <1>4, <1>5, <1>6, <1>7, SessionStep DEF Carried

\* Actor::publish
LEMMA PublishKeeps ==
  ASSUME TreeInv, ~over, NEW s \in Sessions, NEW k \in Sayings, Publish(s, k)
  PROVE  TreeInv'
<1>1. k \in Kinds /\ log \in [Sessions -> Seq(Kinds)] /\ Say(s, <<k>>)
  BY SayingsAreKinds DEF TreeInv, TypeOK, Publish
<1>2. log' = Grown(log, s, k)
  BY <1>1, SayIs
<1>3. Len(log'[s]) = Len(log[s]) + 1
  BY <1>1, <1>2, GrownIs
<1>4. streams' = Fanout(streams, s, Len(log[s]) + 1)
  BY <1>3 DEF Publish
<1>5. Carried(streams', log')
  BY <1>1, <1>2, <1>4, CarriedNow, CarriedFanout
<1>6. life' = life /\ ckpt' \in [Sessions -> Nat] /\ due' \subseteq Children
  BY DEF Publish, TreeInv, TypeOK
<1>7. UNCHANGED <<gateway, forwarder, client, faults>>
  BY DEF Publish
<1>. QED
  BY <1>5, <1>6, <1>7, Runs

\* checkpoint::acknowledge
LEMMA CheckpointedKeeps ==
  ASSUME TreeInv, ~over, NEW s \in Sessions, Checkpointed(s)
  PROVE  TreeInv'
<1>1. /\ UNCHANGED <<life, log, due, streams>> /\ UNCHANGED <<gateway, forwarder, client, faults>>
  BY DEF Checkpointed
<1>2. ckpt' \in [Sessions -> Nat]
  <2>1. PICK q \in Kept(s) : ckpt' = [ckpt EXCEPT ![s] = q]
    BY DEF Checkpointed
  <2>2. log[s] \in Seq(Kinds) /\ ckpt \in [Sessions -> Nat]
    BY DEF TreeInv, TypeOK
  <2>3. q \in Nat
    BY <2>2, LenProperties DEF Kept
  <2>. QED
    BY <2>1, <2>2, <2>3
<1>3. Alike(streams', streams)
  BY <1>1 DEF Alike, TreeInv, Marked
<1>4. /\ life' \in [Sessions -> Lives] /\ log' \in [Sessions -> Seq(Kinds)]
      /\ due' \subseteq Children /\ streams' \subseteq Stream
  BY <1>1 DEF TreeInv, TypeOK
<1>5. /\ Served(streams', followed, life', log', base) /\ Reached(followed, log', base, seen)
      /\ Rooted(streams', followed, life', todo)
  BY <1>1 DEF TreeInv
<1>. QED
  BY <1>1, <1>2, <1>3, <1>4, <1>5, SessionStep

\* Host::create and Host::resume_frames
LEMMA OpenKeeps ==
  ASSUME TreeInv, ~over, NEW s \in Children, Open(s)
  PROVE  TreeInv'
<1>1. /\ log \in [Sessions -> Seq(Kinds)] /\ s \in Sessions /\ s # Root
      /\ {"note", "resolved"} \subseteq Kinds
  BY TreeAssumption DEF TreeInv, TypeOK, Sessions, Kinds
<1>2. life[s] # "live"
  BY DEF Open
<1>3. Say(s, <<"note">>) \/ Say(s, <<"note", "resolved">>)
  BY DEF Open
<1>4. log' = Grown(log, s, "note") \/ log' = Grown(Grown(log, s, "note"), s, "resolved")
  BY <1>1, <1>3, SayIs
<1>5. Carried(streams, Grown(log, s, "note"))
  BY <1>1, <1>2, CarriedNow, CarriedUnheard
<1>6. Carried(streams, Grown(Grown(log, s, "note"), s, "resolved"))
  BY <1>1, <1>2, <1>5, CarriedUnheard
<1>7. Carried(streams', log')
  BY <1>4, <1>5, <1>6 DEF Open
<1>8. life' = [life EXCEPT ![s] = "live"] /\ ckpt' \in [Sessions -> Nat] /\ due' \subseteq Children
  BY DEF Open, TreeInv, TypeOK
<1>9. UNCHANGED <<gateway, forwarder, client, faults>>
  BY DEF Open
<1>. QED
  BY <1>1, <1>7, <1>8, <1>9, Runs

\* close and finish_close, and delete_one
LEMMA CloseKeeps ==
  ASSUME TreeInv, ~over, NEW s \in Sessions, Close(s)
  PROVE  TreeInv'
<1>. DEFINE first == Fanout(streams, s, Len(log[s]) + 1)
            one(k) == Grown(log, s, k)
            two == Grown(one("resolved"), s, "closed")
<1>1. log \in [Sessions -> Seq(Kinds)] /\ "resolved" \in Kinds /\ "closed" \in Kinds
  BY DEF TreeInv, TypeOK, Kinds
<1>2. \A k \in Kinds : Carried(first, one(k))
  BY CarriedNow, CarriedFanout
<1>3. \A k \in Kinds : one(k) \in [Sessions -> Seq(Kinds)] /\ Len(one(k)[s]) = Len(log[s]) + 1
  BY <1>1, GrownIs
<1>4. PICK l \in {"closed", "gone"} : life' = [life EXCEPT ![s] = l]
  BY DEF Close
<1>5. UNCHANGED <<ckpt, due, gateway, forwarder, client, faults>>
  BY DEF Close
<1>6. CASE Asking(log[s]) = {}
  <2>1. Say(s, <<"closed">>) /\ streams' = Cleared(first, s)
    BY <1>6 DEF Close
  <2>2. log' = one("closed")
    BY <1>1, <2>1, SayIs
  <2>3. Carried(first, log')
    BY <1>1, <1>2, <2>2
  <2>. HIDE DEF first
  <2>. QED
    BY <1>4, <1>5, <2>1, <2>3, Stops
<1>7. CASE Asking(log[s]) # {}
  <2>1. Say(s, <<"resolved", "closed">>) /\ streams' = Cleared(Fanout(first, s, Len(log'[s])), s)
    BY <1>7 DEF Close
  <2>2. log' = two
    BY <1>1, <2>1, SayIs
  <2>. HIDE DEF first
  <2>3. Carried(Fanout(first, s, Len(one("resolved")[s]) + 1), two)
    <3>. HIDE DEF one
    <3>. QED
      BY <1>1, <1>2, CarriedFanout
  <2>4. Len(two[s]) = Len(one("resolved")[s]) + 1
    <3>. HIDE DEF one
    <3>. QED
      BY <1>1, <1>3, GrownIs
  <2>. DEFINE R == Fanout(first, s, Len(log'[s]))
  <2>5. Carried(R, log')
    <3>. HIDE DEF one, two
    <3>. QED
      BY <2>2, <2>3, <2>4
  <2>. HIDE DEF R
  <2>. QED
    BY <1>4, <1>5, <2>1, <2>5, Stops DEF R
<1>. QED
  BY <1>6, <1>7

\* publish when the append fails, and storage_failed
LEMMA StorageFailedKeeps ==
  ASSUME TreeInv, ~over, NEW s \in Sessions, StorageFailed(s)
  PROVE  TreeInv'
<1>. DEFINE one == Grown(log, s, "lost")
            two == Grown(one, s, "end")
<1>1. log \in [Sessions -> Seq(Kinds)] /\ "lost" \in Kinds /\ "end" \in Kinds /\ ~Durable("lost")
  BY DEF TreeInv, TypeOK, Kinds, Durable
<1>2. Say(s, <<"lost", "end">>) /\ streams' = Cleared(Fanout(streams, s, Len(log'[s])), s)
  BY DEF StorageFailed
<1>3. log' = two
  BY <1>1, <1>2, SayIs
<1>4. Carried(streams, one)
  BY <1>1, CarriedNow, CarriedUnheard
<1>5. one \in [Sessions -> Seq(Kinds)]
  BY <1>1, GrownIs
<1>. HIDE DEF one
<1>6. Carried(Fanout(streams, s, Len(one[s]) + 1), two)
  BY <1>1, <1>4, CarriedFanout
<1>7. Len(two[s]) = Len(one[s]) + 1
  BY <1>1, <1>5, GrownIs
<1>. DEFINE R == Fanout(streams, s, Len(log'[s]))
<1>8. Carried(R, log')
  <2>. HIDE DEF two
  <2>. QED
    BY <1>3, <1>6, <1>7
<1>9. UNCHANGED <<ckpt, due, gateway, forwarder, client, faults>> /\ life' = [life EXCEPT ![s] = "closed"]
  BY DEF StorageFailed
<1>. HIDE DEF R
<1>. QED
  BY <1>2, <1>8, <1>9, Stops DEF R

-----------------------------------------------------------------------------
(* What the forwarder is in the middle of. *)

Plain(T) == \A i \in DOMAIN T : T[i][1] \in {"live", "stored", "adopt", "replay"}

\* Tasks and what they are about.
LEMMA TaskIs ==
  /\ <<"live">> \in Tasks /\ <<"live">>[1] = "live"
  /\ \A s \in Sessions : <<"stored", s>> \in Tasks /\ <<"heal", s>> \in Tasks
  /\ \A e \in Nat : <<"look", e>> \in Tasks
  /\ \A s \in Children : /\ <<"adopt", s>> \in Tasks /\ <<"join", s>> \in Tasks
                         /\ <<"tail", s>> \in Tasks /\ <<"replay", s>> \in Tasks
  /\ \A t \in Tasks : /\ t[1] \in {"adopt", "join", "tail", "replay"} => t[2] \in Children
                      /\ t[1] \in {"stored", "heal"} => t[2] \in Sessions
                      /\ t[1] = "heal" => t = <<"heal", t[2]>>
<1>1. \A t \in Tasks : \/ t = <<"live">> \/ t \in {"stored", "heal"} \X Sessions \/ t \in {"look"} \X Nat
                       \/ t \in {"adopt", "join", "tail", "replay"} \X Children
  BY DEF Tasks
<1>2. <<"live">>[1] = "live"
  OBVIOUS
<1>. QED
  BY <1>1, <1>2 DEF Tasks

LEMMA PlainTasked ==
  ASSUME NEW T \in Seq(Tasks), Plain(T)
  PROVE  \A S, F, late : Tasked(T, S, F, late)
<1>. SUFFICES ASSUME NEW S, NEW F, NEW late PROVE Tasked(T, S, F, late)
  OBVIOUS
<1>1. Len(T) \in Nat /\ DOMAIN T = 1..Len(T) /\ (T # <<>> => Len(T) >= 1)
  BY LenProperties, EmptySeq
<1>2. \A i \in 2..Len(T) : i \in DOMAIN T
  BY <1>1
<1>3. ASSUME T # <<>> PROVE Begun(T[1], S, F, late)
  <2>1. 1 \in DOMAIN T
    BY <1>1, <1>3
  <2>. QED
    BY <2>1 DEF Plain, Begun
<1>. QED
  BY <1>2, <1>3 DEF Tasked, Plain

\* The task under way and those behind it.
LEMMA UnderWay ==
  ASSUME TreeInv, NEW name, Task(name)
  PROVE  /\ todo # <<>> /\ todo[1] \in Tasks /\ todo[1][1] = name
         /\ Tail(todo) \in Seq(Tasks) /\ Plain(Tail(todo))
         /\ Begun(todo[1], streams, followed, liveOnly)
<1>1. todo \in Seq(Tasks) /\ todo # <<>> /\ todo[1][1] = name /\ Tasked(todo, streams, followed, liveOnly)
  BY DEF TreeInv, TypeOK, Task
<1>2. Len(todo) \in Nat /\ DOMAIN todo = 1..Len(todo) /\ Len(todo) >= 1
  BY <1>1, LenProperties, EmptySeq
<1>3. /\ Tail(todo) \in Seq(Tasks) /\ Len(Tail(todo)) = Len(todo) - 1
      /\ \A i \in 1..Len(Tail(todo)) : Tail(todo)[i] = todo[i + 1]
  BY <1>1, HeadTailProperties
<1>4. DOMAIN Tail(todo) = 1..(Len(todo) - 1)
  BY <1>3, LenProperties
<1>5. Plain(Tail(todo))
  <2>. SUFFICES ASSUME NEW i \in 1..(Len(todo) - 1)
                PROVE  Tail(todo)[i][1] \in {"live", "stored", "adopt", "replay"}
    BY <1>4 DEF Plain
  <2>1. i + 1 \in 2..Len(todo) /\ Tail(todo)[i] = todo[i + 1]
    BY <1>2, <1>3
  <2>. QED
    BY <1>1, <2>1 DEF Tasked
<1>6. todo[1] \in Tasks
  BY <1>1, <1>2, ElementOfSeq
<1>. QED
  BY <1>1, <1>3, <1>5, <1>6 DEF Tasked

\* More of the tasks that rest on nothing.
LEMMA MorePlain ==
  ASSUME NEW X \in Seq(Tasks), Plain(X), NEW Y \in Seq(Tasks), Plain(Y)
  PROVE  X \o Y \in Seq(Tasks) /\ Plain(X \o Y)
<1>. DEFINE Z == X \o Y
<1>1. /\ Z \in Seq(Tasks) /\ Len(Z) = Len(X) + Len(Y)
      /\ \A i \in 1..(Len(X) + Len(Y)) : Z[i] = IF i <= Len(X) THEN X[i] ELSE Y[i - Len(X)]
  BY ConcatProperties
<1>2. Len(X) \in Nat /\ Len(Y) \in Nat /\ DOMAIN X = 1..Len(X) /\ DOMAIN Y = 1..Len(Y)
  BY LenProperties
<1>3. DOMAIN Z = 1..(Len(X) + Len(Y))
  BY <1>1, LenProperties
<1>. HIDE DEF Z
<1>4. ASSUME NEW i \in DOMAIN Z PROVE Z[i][1] \in {"live", "stored", "adopt", "replay"}
  <2>1. CASE i <= Len(X)
    <3>1. i \in DOMAIN X /\ Z[i] = X[i]
      BY <1>1, <1>2, <1>3, <2>1
    <3>. QED
      BY <3>1 DEF Plain
  <2>2. CASE ~(i <= Len(X))
    <3>1. i - Len(X) \in DOMAIN Y /\ Z[i] = Y[i - Len(X)]
      BY <1>1, <1>2, <1>3, <2>2
    <3>. QED
      BY <3>1 DEF Plain
  <2>. QED
    BY <2>1, <2>2
<1>. QED
  BY <1>1, <1>4 DEF Plain, Z

\* One task in front of those that rest on nothing.
LEMMA OneTask ==
  ASSUME NEW t \in Tasks, NEW Y \in Seq(Tasks), Plain(Y)
  PROVE  /\ <<t>> \o Y \in Seq(Tasks)
         /\ \A S, F, late : Begun(t, S, F, late) => Tasked(<<t>> \o Y, S, F, late)
<1>. DEFINE X == <<t>>
            Z == X \o Y
<1>0. X \in Seq(Tasks) /\ Len(X) = 1 /\ X[1] = t
  OBVIOUS
<1>. HIDE DEF X
<1>1. /\ Z \in Seq(Tasks) /\ Len(Z) = Len(X) + Len(Y)
      /\ \A i \in 1..(Len(X) + Len(Y)) : Z[i] = IF i <= Len(X) THEN X[i] ELSE Y[i - Len(X)]
  BY <1>0, ConcatProperties
<1>2. Len(Y) \in Nat /\ DOMAIN Y = 1..Len(Y)
  BY LenProperties
<1>. HIDE DEF Z
<1>3. Z[1] = t /\ Len(Z) = Len(Y) + 1
  BY <1>0, <1>1, <1>2
<1>4. \A i \in 2..Len(Z) : i - 1 \in DOMAIN Y /\ Z[i] = Y[i - 1]
  BY <1>0, <1>1, <1>2
<1>5. \A i \in 2..Len(Z) : Z[i][1] \in {"live", "stored", "adopt", "replay"}
  BY <1>4 DEF Plain
<1>6. \A S, F, late : Begun(t, S, F, late) => Tasked(Z, S, F, late)
  BY <1>3, <1>5 DEF Tasked
<1>. QED
  BY <1>1, <1>6 DEF Z, X

\* A task for each of some sessions.
LEMMA EachIs ==
  ASSUME NEW k \in Seq(Children), NEW name \in {"adopt", "stored"}
  PROVE  Each(k, name) \in Seq(Tasks) /\ Plain(Each(k, name))
<1>. DEFINE T == Each(k, name)
<1>1. Len(k) \in Nat /\ DOMAIN k = 1..Len(k) /\ \A i \in 1..Len(k) : k[i] \in Children
  BY LenProperties, ElementOfSeq
<1>2. T = [i \in 1..Len(k) |-> <<name, k[i]>>]
  BY <1>1 DEF Each
<1>3. \A c \in Children : <<name, c>> \in Tasks /\ <<name, c>>[1] = name
  BY TaskIs DEF Sessions
<1>4. \A i \in 1..Len(k) : T[i] \in Tasks /\ T[i][1] = name
  BY <1>1, <1>2, <1>3
<1>5. T \in Seq(Tasks) /\ DOMAIN T = 1..Len(k)
  BY <1>1, <1>2, <1>4
<1>. QED
  BY <1>4, <1>5 DEF Plain

LEMMA AdoptOrReplayIs ==
  ASSUME NEW k \in Seq(Children)
  PROVE  AdoptOrReplay(k) \in Seq(Tasks) /\ Plain(AdoptOrReplay(k))
<1>. DEFINE T == AdoptOrReplay(k)
            n == 2 * Len(k)
            name(i) == IF i % 2 = 1 THEN "adopt" ELSE "replay"
<1>1. Len(k) \in Nat /\ n \in Nat /\ \A i \in 1..Len(k) : k[i] \in Children
  BY LenProperties, ElementOfSeq
<1>2. T = [i \in 1..n |-> <<name(i), k[(i + 1) \div 2]>>]
  BY DEF AdoptOrReplay
<1>3. \A i \in 1..n : (i + 1) \div 2 \in 1..Len(k)
  BY <1>1
<1>4. \A c \in Children, x \in {"adopt", "replay"} : <<x, c>> \in Tasks /\ <<x, c>>[1] = x
  BY TaskIs
<1>5. \A i \in 1..n : name(i) \in {"adopt", "replay"}
  OBVIOUS
<1>. HIDE DEF n, name, T
<1>6. \A i \in 1..n : T[i] \in Tasks /\ T[i][1] \in {"adopt", "replay"}
  BY <1>1, <1>2, <1>3, <1>4, <1>5
<1>7. T \in Seq(Tasks) /\ DOMAIN T = 1..n
  BY <1>1, <1>2, <1>6
<1>. QED
  BY <1>6, <1>7 DEF Plain, T

\* The children of a session are finitely many, in some order.
LEMMA SomeChildren ==
  ASSUME NEW S, S \subseteq Children
  PROVE  SetToSeq(S) \in Seq(Children)
<1>. DEFINE n == Cardinality(S)
<1>1. IsFiniteSet(S)
  BY TreeAssumption, FS_Subset
<1>2. n \in Nat /\ ExistsBijection(1..n, S)
  BY <1>1, FS_CardinalityType
<1>3. SetToSeq(S) \in [1..n -> S]
  <2>1. \E f \in [1..n -> S] : IsInjective(f)
    BY <1>2 DEF ExistsBijection, Bijection, Injection
  <2>. QED
    BY <2>1 DEF SetToSeq
<1>. HIDE DEF n
<1>. QED
  BY <1>2, <1>3

\* adopt_descendants
LEMMA AdoptAllIs == AdoptAll \in Seq(Tasks) /\ Plain(AdoptAll)
<1>. DEFINE X == <<<<"live">>>>
            Y == IF liveOnly THEN <<>> ELSE <<<<"stored", Root>>>>
<1>1. X \in Seq(Tasks) /\ Plain(X)
  <2>1. <<"live">> \in Tasks /\ <<"live">>[1] = "live"
    BY TaskIs
  <2>. QED
    BY <2>1 DEF Plain
<1>2. Y \in Seq(Tasks) /\ Plain(Y)
  <2>1. <<"stored", Root>> \in Tasks /\ <<"stored", Root>>[1] = "stored"
    BY TaskIs DEF Sessions
  <2>. QED
    BY <2>1 DEF Plain
<1>3. AdoptAll = X \o Y
  BY DEF AdoptAll
<1>. HIDE DEF X, Y
<1>. QED
  BY <1>1, <1>2, <1>3, MorePlain

\* A task that is not a heal of the root leaves nothing undone for the root.
LEMMA RootedOtherwise ==
  ASSUME NEW S, NEW F, NEW I, NEW T, Rooted(S, F, I, T),
         T = <<>> \/ T[1] # <<"heal", Root>> \/ I[Root] # "live"
  PROVE  \A U : Rooted(S, F, I, U)
BY DEF Rooted

\* The forwarder makes up its mind what to do next.
LEMMA TodoStep ==
  ASSUME TreeInv, UNCHANGED <<actors, streams, followed, epochs, owners, over, client>>,
         news' \in Seq(Children), missed' \in BOOLEAN, faults' \in Nat, todo' \in Seq(Tasks),
         Tasked(todo', streams, followed, liveOnly), Rooted(streams, followed, life, todo')
  PROVE  TreeInv'
<1>. USE DEF actors, client
<1>1. NoRepeats' /\ EndsWithRoot'
  BY DEF TreeInv, NoRepeats, EndsWithRoot, Running
<1>2. TypeOK'
  BY DEF TreeInv, TypeOK
<1>3. /\ Marked(streams', followed', epochs') /\ Served(streams', followed', life', log', base')
      /\ Reached(followed', log', base', seen') /\ Owned(owners', log')
  BY DEF TreeInv
<1>4. Tasked(todo', streams', followed', liveOnly') /\ Rooted(streams', followed', life', todo')
  OBVIOUS
<1>. QED
  BY <1>1, <1>2, <1>3, <1>4 DEF TreeInv

\* A task that comes to nothing.
LEMMA NothingDone ==
  ASSUME TreeInv, NEW name, Task(name), todo' = Tail(todo),
         UNCHANGED <<actors, gateway, streams, followed, epochs, owners, over, client>>,
         faults' \in Nat, todo[1] # <<"heal", Root>> \/ life[Root] # "live"
  PROVE  TreeInv'
<1>1. Tail(todo) \in Seq(Tasks) /\ Plain(Tail(todo))
  BY UnderWay
<1>2. Tasked(todo', streams, followed, liveOnly)
  BY <1>1, PlainTasked
<1>3. Rooted(streams, followed, life, todo')
  BY RootedOtherwise DEF TreeInv
<1>4. news' \in Seq(Children) /\ missed' \in BOOLEAN
  BY DEF TreeInv, TypeOK, gateway
<1>. QED
  BY <1>1, <1>2, <1>3, <1>4, TodoStep

\* Announce and gateway events leave all but the news and the list as it was.
LEMMA AnnounceKeeps ==
  ASSUME TreeInv, ~over, NEW s \in Children, Announce(s)
  PROVE  TreeInv'
<1>1. /\ UNCHANGED <<life, log, ckpt, streams, forwarder, client, faults>>
      /\ due' \subseteq Children /\ news' \in Seq(Children) /\ missed' \in BOOLEAN
  <2>1. news \in Seq(Children) /\ missed \in BOOLEAN /\ due \subseteq Children
    BY DEF TreeInv, TypeOK
  <2>2. Append(news, s) \in Seq(Children) /\ <<>> \in Seq(Children)
    BY <2>1, AppendProperties, EmptySeq
  <2>. QED
    BY <2>1, <2>2 DEF Announce
<1>. USE DEF forwarder, client
<1>2. NoRepeats' /\ EndsWithRoot'
  BY <1>1 DEF TreeInv, NoRepeats, EndsWithRoot, Running
<1>3. TypeOK'
  BY <1>1 DEF TreeInv, TypeOK
<1>4. /\ Marked(streams', followed', epochs') /\ Served(streams', followed', life', log', base')
      /\ Reached(followed', log', base', seen') /\ Owned(owners', log')
      /\ Tasked(todo', streams', followed', liveOnly') /\ Rooted(streams', followed', life', todo')
  BY <1>1 DEF TreeInv
<1>. QED
  BY <1>2, <1>3, <1>4 DEF TreeInv

LEMMA ListLiveKeeps ==
  ASSUME TreeInv, ListLive
  PROVE  TreeInv'
<1>. DEFINE X == Each(SetToSeq(Descendants), "adopt")
<1>1. /\ Task("live") /\ todo' = X \o Tail(todo)
      /\ UNCHANGED <<actors, gateway, streams, followed, epochs, owners, over, client, faults>>
  BY DEF ListLive, Then
<1>2. X \in Seq(Tasks) /\ Plain(X)
  <2>1. Descendants \subseteq Children
    BY DEF Descendants
  <2>2. SetToSeq(Descendants) \in Seq(Children)
    BY <2>1, SomeChildren
  <2>. QED
    BY <2>2, EachIs
<1>. HIDE DEF X
<1>3. todo[1][1] = "live" /\ Tail(todo) \in Seq(Tasks) /\ Plain(Tail(todo))
  BY <1>1, UnderWay
<1>4. todo' \in Seq(Tasks) /\ Plain(todo')
  BY <1>1, <1>2, <1>3, MorePlain
<1>5. Tasked(todo', streams, followed, liveOnly)
  BY <1>4, PlainTasked
<1>6. Rooted(streams, followed, life, todo')
  BY <1>3, RootedOtherwise DEF TreeInv
<1>7. news' \in Seq(Children) /\ missed' \in BOOLEAN /\ faults' \in Nat
  BY <1>1 DEF TreeInv, TypeOK, gateway
<1>. QED
  BY <1>1, <1>4, <1>5, <1>6, <1>7, TodoStep

\* A read of the store that fails is counted.
LEMMA FaultIs ==
  ASSUME TreeInv, Fault \/ faults' = faults
  PROVE  faults' \in Nat
BY DEF Fault, TreeInv, TypeOK

LEMMA ListStoredKeeps ==
  ASSUME TreeInv, ListStored
  PROVE  TreeInv'
<1>1. /\ Task("stored") /\ faults' \in Nat
      /\ UNCHANGED <<actors, gateway, streams, followed, epochs, owners, over, client>>
  BY FaultIs DEF ListStored
<1>2. todo[1][1] = "stored" /\ Tail(todo) \in Seq(Tasks) /\ Plain(Tail(todo))
  BY <1>1, UnderWay
<1>3. todo' \in Seq(Tasks) /\ Plain(todo')
  <2>1. ASSUME NEW kids \in StoredChildren(todo[1][2]),
               Then(AdoptOrReplay(SetToSeq(kids)) \o Each(SetToSeq(kids), "stored"))
        PROVE  todo' \in Seq(Tasks) /\ Plain(todo')
    <3>1. kids \subseteq Children
      BY DEF StoredChildren
    <3>. DEFINE k == SetToSeq(kids)
                X == AdoptOrReplay(k)
                Y == Each(k, "stored")
    <3>2. k \in Seq(Children)
      BY <3>1, SomeChildren
    <3>. HIDE DEF k
    <3>3. X \in Seq(Tasks) /\ Plain(X) /\ Y \in Seq(Tasks) /\ Plain(Y)
      BY <3>2, EachIs, AdoptOrReplayIs
    <3>4. todo' = (X \o Y) \o Tail(todo)
      BY <2>1 DEF Then, k
    <3>. HIDE DEF X, Y
    <3>5. X \o Y \in Seq(Tasks) /\ Plain(X \o Y)
      BY <3>3, MorePlain
    <3>. QED
      BY <1>2, <3>4, <3>5, MorePlain
  <2>2. ASSUME Then(<<>>) PROVE todo' \in Seq(Tasks) /\ Plain(todo')
    BY <1>2, <2>2 DEF Then
  <2>. QED
    BY <2>1, <2>2 DEF ListStored
<1>4. Tasked(todo', streams, followed, liveOnly)
  BY <1>3, PlainTasked
<1>5. Rooted(streams, followed, life, todo')
  BY <1>2, RootedOtherwise DEF TreeInv
<1>6. news' \in Seq(Children) /\ missed' \in BOOLEAN
  BY <1>1 DEF TreeInv, TypeOK, gateway
<1>. QED
  BY <1>1, <1>3, <1>4, <1>5, <1>6, TodoStep

\* adopt begins an await only for a session that does not arrive already.
LEMMA AdoptKeeps ==
  ASSUME TreeInv, Adopt
  PROVE  TreeInv'
<1>. DEFINE s == todo[1][2]
<1>1. /\ Task("adopt")
      /\ UNCHANGED <<actors, gateway, streams, followed, epochs, owners, over, client, faults>>
  BY DEF Adopt
<1>2. todo[1] \in Tasks /\ todo[1][1] = "adopt" /\ Tail(todo) \in Seq(Tasks) /\ Plain(Tail(todo))
  BY <1>1, UnderWay
<1>3. s \in Children
  BY <1>2, TaskIs
<1>4. \/ todo' = Tail(todo)
      \/ todo' = <<<<"tail", s>>>> \o Tail(todo) /\ liveOnly /\ followed[s].source = "unknown"
      \/ todo' = <<<<"join", s>>>> \o Tail(todo) /\ ~Arriving(s)
  <2>1. <<>> \o Tail(todo) = Tail(todo)
    BY <1>2
  <2>. QED
    BY <2>1 DEF Adopt, Then
<1>. HIDE DEF s
<1>5. todo' \in Seq(Tasks) /\ Tasked(todo', streams, followed, liveOnly)
  <2>1. CASE todo' = Tail(todo)
    BY <1>2, <2>1, PlainTasked
  <2>2. CASE todo' = <<<<"tail", s>>>> \o Tail(todo) /\ liveOnly /\ followed[s].source = "unknown"
    <3>. DEFINE t == <<"tail", s>>
    <3>1. t \in Tasks /\ t[1] = "tail" /\ t[2] = s
      BY <1>3, TaskIs
    <3>. HIDE DEF t
    <3>2. Begun(t, streams, followed, liveOnly)
      BY <2>2, <3>1 DEF Begun
    <3>3. <<t>> \o Tail(todo) \in Seq(Tasks) /\ Tasked(<<t>> \o Tail(todo), streams, followed, liveOnly)
      BY <1>2, <3>1, <3>2, OneTask
    <3>. QED
      BY <2>2, <3>3 DEF t
  <2>3. CASE todo' = <<<<"join", s>>>> \o Tail(todo) /\ ~Arriving(s)
    <3>. DEFINE t == <<"join", s>>
    <3>1. t \in Tasks /\ t[1] = "join" /\ t[2] = s
      BY <1>3, TaskIs
    <3>. HIDE DEF t
    <3>2. Begun(t, streams, followed, liveOnly)
      BY <2>3, <3>1 DEF Begun, Arriving
    <3>3. <<t>> \o Tail(todo) \in Seq(Tasks) /\ Tasked(<<t>> \o Tail(todo), streams, followed, liveOnly)
      BY <1>2, <3>1, <3>2, OneTask
    <3>. QED
      BY <2>3, <3>3 DEF t
  <2>. QED
    BY <1>4, <2>1, <2>2, <2>3
<1>6. Rooted(streams, followed, life, todo')
  BY <1>2, RootedOtherwise DEF TreeInv
<1>7. news' \in Seq(Children) /\ missed' \in BOOLEAN /\ faults' \in Nat
  BY <1>1 DEF TreeInv, TypeOK, gateway
<1>. QED
  BY <1>1, <1>5, <1>6, <1>7, TodoStep

\* gateway_event
LEMMA HearNewsKeeps ==
  ASSUME TreeInv, HearNews
  PROVE  TreeInv'
<1>1. /\ todo = <<>> /\ UNCHANGED <<actors, streams, followed, epochs, owners, over, client, faults>>
  BY DEF HearNews, Polling
<1>2. news \in Seq(Children) /\ missed \in BOOLEAN /\ faults' \in Nat
  BY <1>1 DEF TreeInv, TypeOK
<1>3. news' \in Seq(Children) /\ missed' \in BOOLEAN /\ todo' \in Seq(Tasks) /\ Plain(todo')
  <2>1. CASE missed
    BY <1>2, <2>1, AdoptAllIs DEF HearNews
  <2>2. CASE ~missed
    <3>1. news # <<>> /\ news' = Tail(news) /\ missed' = missed
      BY <2>2 DEF HearNews
    <3>2. Tail(news) \in Seq(Children) /\ Head(news) \in Children
      BY <1>2, <3>1, HeadTailProperties
    <3>. DEFINE t == <<"adopt", Head(news)>>
                one == <<t>>
                none == <<>>
    <3>3. t \in Tasks /\ t[1] = "adopt"
      BY <3>2, TaskIs
    <3>4. todo' = one \/ todo' = none
      BY <2>2 DEF HearNews
    <3>5. one \in Seq(Tasks) /\ Plain(one)
      <4>. HIDE DEF t
      <4>. QED
        BY <3>3 DEF Plain
    <3>6. none \in Seq(Tasks) /\ Plain(none)
      BY EmptySeq DEF Plain
    <3>. HIDE DEF one, none
    <3>7. todo' \in Seq(Tasks) /\ Plain(todo')
      BY <3>4, <3>5, <3>6
    <3>. QED
      BY <1>2, <3>1, <3>2, <3>7
  <2>. QED
    BY <1>2, <2>1, <2>2
<1>4. Tasked(todo', streams, followed, liveOnly)
  BY <1>3, PlainTasked
<1>5. Rooted(streams, followed, life, todo')
  BY <1>1, RootedOtherwise DEF TreeInv
<1>. QED
  BY <1>1, <1>2, <1>3, <1>4, <1>5, TodoStep

-----------------------------------------------------------------------------
(* The forwarder follows a session. *)

\* A new stream, of a session that none arrives from, under the next epoch.
LEMMA FollowStep ==
  ASSUME TreeInv, NEW s \in Sessions, NEW last \in Nat, NEW u \in Stream, NEW source \in {"live", "replaying"},
         \A st \in streams : st.session = s => st.at = "over",
         Formed(u), u.session = s, u.epoch = epochs + 1, u.at # "over", u.tx => life[s] = "live",
         FollowFrom(s, last, u, source),
         base' \in [Sessions -> Nat], base[s] <= base'[s], \A x \in Sessions : x # s => base'[x] = base[x],
         Sound(u, log[s], last, base'[s]), last <= Len(log[s]),
         Later(seen[s], base'[s]) = Later(last, base'[s]), s = Root => u.tx /\ source = "live",
         NEW name, Task(name), todo' = Tail(todo), todo[1] # <<"heal", Root>> \/ s = Root,
         faults' \in Nat, UNCHANGED <<actors, gateway, owners, over, seen, stale, liveOnly>>
  PROVE  TreeInv'
<1>. DEFINE r == [last |-> last, source |-> source, epoch |-> epochs + 1]
<1>1. /\ TypeOK /\ NoRepeats /\ EndsWithRoot /\ Marked(streams, followed, epochs)
      /\ Served(streams, followed, life, log, base) /\ Reached(followed, log, base, seen)
      /\ Rooted(streams, followed, life, todo) /\ Owned(owners, log)
  BY DEF TreeInv
<1>2. /\ epochs' = epochs + 1 /\ streams' = streams \union {u} /\ followed' = [followed EXCEPT ![s] = r]
      /\ life' = life /\ log' = log /\ ckpt' = ckpt /\ due' = due /\ news' = news /\ missed' = missed
  BY DEF FollowFrom, actors, gateway
<1>3. epochs \in Nat /\ streams \subseteq Stream /\ followed \in [Sessions -> Followed]
  BY <1>1 DEF TypeOK
<1>4. r \in Followed /\ r.last = last /\ r.source = source /\ r.epoch = epochs + 1
  BY <1>3 DEF Followed
<1>. HIDE DEF r
<1>5. /\ followed' \in [Sessions -> Followed] /\ followed'[s] = r
      /\ \A x \in Sessions : x # s => followed'[x] = followed[x]
  BY <1>2, <1>3, <1>4
<1>6. \A st \in streams : st.session \in Sessions /\ st.epoch \in Nat
  BY <1>3, StreamFields
<1>7. \A st \in streams' : st \in streams \/ st = u
  BY <1>2
<1>8. /\ Tail(todo) \in Seq(Tasks) /\ Plain(Tail(todo))
  BY UnderWay
<1>9. TypeOK'
  <2>1. epochs' \in Nat /\ streams' \subseteq Stream /\ todo' \in Seq(Tasks)
    BY <1>2, <1>3, <1>8
  <2>. QED
    BY <1>1, <1>2, <1>5, <2>1 DEF TypeOK
<1>10. NoRepeats'
  <2>1. \A f \in stale : f[1] \in Sessions /\ f[2] \in Nat /\ f[2] <= base[f[1]]
    BY <1>1 DEF TypeOK, NoRepeats
  <2>2. \A x \in Sessions : base[x] \in Nat /\ base'[x] \in Nat /\ base[x] <= base'[x]
    <3>1. base \in [Sessions -> Nat]
      BY <1>1 DEF TypeOK
    <3>2. ASSUME NEW x \in Sessions PROVE base[x] <= base'[x]
      BY <3>1, x = s \/ base'[x] = base[x]
    <3>. QED
      BY <3>1, <3>2
  <2>. QED
    BY <2>1, <2>2 DEF NoRepeats
<1>11. EndsWithRoot'
  BY <1>1, <1>2 DEF EndsWithRoot, Running
<1>12. Marked(streams', followed', epochs')
  <2>1. \A st \in streams : st.epoch <= epochs
    BY <1>1 DEF Marked
  <2>2. \A st \in streams' : st.epoch <= epochs'
    BY <1>2, <1>3, <1>6, <1>7, <2>1
  <2>3. \A st \in streams : st.epoch # u.epoch
    BY <1>3, <1>6, <2>1
  <2>4. \A st, st2 \in streams' : st.epoch = st2.epoch => st = st2
    BY <1>1, <1>7, <2>3 DEF Marked
  <2>5. ASSUME NEW st \in streams', st.at # "over"
        PROVE  st.epoch = followed'[st.session].epoch /\ followed'[st.session].source \in {"live", "replaying"}
    <3>1. CASE st = u
      BY <1>4, <1>5, <3>1
    <3>2. CASE st \in streams
      <4>1. st.session # s /\ st.session \in Sessions
        BY <1>6, <2>5, <3>2
      <4>. QED
        BY <1>1, <1>5, <2>5, <3>2, <4>1 DEF Marked
    <3>. QED
      BY <1>7, <3>1, <3>2
  <2>. QED
    BY <2>2, <2>4, <2>5 DEF Marked
<1>13. Served(streams', followed', life', log', base')
  <2>. SUFFICES ASSUME NEW st \in streams'
                PROVE  /\ Formed(st) /\ (st.tx => life[st.session] = "live")
                       /\ st.at # "over" => Sound(st, log[st.session], followed'[st.session].last, base'[st.session])
    BY <1>2 DEF Served
  <2>1. CASE st = u
    BY <1>4, <1>5, <2>1
  <2>2. CASE st \in streams
    <3>1. Formed(st) /\ (st.tx => life[st.session] = "live")
      BY <1>1, <2>2 DEF Served
    <3>2. ASSUME st.at # "over"
          PROVE  Sound(st, log[st.session], followed'[st.session].last, base'[st.session])
      <4>1. st.session # s /\ st.session \in Sessions
        BY <1>6, <2>2, <3>2
      <4>2. followed'[st.session] = followed[st.session] /\ base'[st.session] = base[st.session]
        BY <1>5, <4>1
      <4>. QED
        BY <1>1, <2>2, <3>2, <4>2 DEF Served
    <3>. QED
      BY <3>1, <3>2
  <2>. QED
    BY <1>7, <2>1, <2>2
<1>14. Reached(followed', log', base', seen')
  <2>. SUFFICES ASSUME NEW x \in Sessions
                PROVE  /\ followed'[x].last <= Len(log[x])
                       /\ Later(seen[x], base'[x]) = Later(followed'[x].last, base'[x])
                       /\ followed'[x].source = "unknown" => followed'[x].last = 0 /\ base'[x] = 0 /\ seen[x] = 0
    BY <1>2 DEF Reached
  <2>1. CASE x = s
    BY <1>4, <1>5, <2>1
  <2>2. CASE x # s
    BY <1>1, <1>5, <2>2 DEF Reached
  <2>. QED
    BY <2>1, <2>2
<1>15. Tasked(todo', streams', followed', liveOnly')
  BY <1>8, PlainTasked
<1>16. Rooted(streams', followed', life', todo')
  <2>1. Root \in Sessions
    BY DEF Sessions
  <2>2. followed'[Root].source = "live"
    BY <1>1, <1>4, <1>5, <2>1 DEF Rooted
  <2>3. ASSUME NEW st \in streams', st.session = Root, st.epoch = followed'[Root].epoch, ~st.tx
        PROVE  life[Root] # "live"
    <3>1. CASE s = Root
      <4>1. st # u /\ st \in streams
        BY <1>7, <2>3, <3>1
      <4>2. st.epoch <= epochs /\ st.epoch = epochs + 1
        BY <1>1, <1>4, <1>5, <2>3, <3>1, <4>1 DEF Marked
      <4>. QED
        BY <1>3, <4>2
    <3>2. CASE s # Root
      <4>1. st \in streams /\ followed'[Root] = followed[Root]
        BY <1>5, <1>7, <2>1, <2>3, <3>2
      <4>. QED
        BY <1>1, <2>3, <3>2, <4>1 DEF Rooted
    <3>. QED
      BY <3>1, <3>2
  <2>. QED
    BY <1>2, <2>2, <2>3 DEF Rooted
<1>. QED
  BY <1>1, <1>2, <1>9, <1>10, <1>11, <1>12, <1>13, <1>14, <1>15, <1>16 DEF TreeInv

\* What of a session is typed, and where its client is.
LEMMA SessionIs ==
  ASSUME TreeInv, NEW s \in Sessions
  PROVE  /\ log[s] \in Seq(Kinds) /\ Len(log[s]) \in Nat /\ ckpt[s] \in Nat /\ epochs \in Nat
         /\ base \in [Sessions -> Nat] /\ base[s] \in Nat /\ seen[s] \in Nat
         /\ followed[s] \in Followed /\ Since(s) \in Nat /\ Since(s) <= Len(log[s])
         /\ Later(seen[s], base[s]) = Later(Since(s), base[s])
         /\ followed[s].source = "unknown" => seen[s] = 0 /\ base[s] = 0
<1>1. TypeOK /\ Reached(followed, log, base, seen)
  BY DEF TreeInv
<1>2. /\ log[s] \in Seq(Kinds) /\ ckpt[s] \in Nat /\ base \in [Sessions -> Nat] /\ seen[s] \in Nat
      /\ epochs \in Nat /\ followed[s] \in Followed
  BY <1>1 DEF TypeOK
<1>3. Len(log[s]) \in Nat
  BY <1>2, LenProperties
<1>4. followed[s].last \in Nat
  BY <1>2 DEF Followed
<1>. QED
  BY <1>1, <1>2, <1>3, <1>4 DEF Reached, Since

\* Nothing arrives from a session that the forwarder is not following.
LEMMA NoneArrives ==
  ASSUME TreeInv, NEW s, ~Arriving(s)
  PROVE  \A st \in streams : st.session = s => st.at = "over"
BY DEF TreeInv, Marked, Arriving

\* adopt, answered by events_since
LEMMA JoinKeeps ==
  ASSUME TreeInv, Join
  PROVE  TreeInv'
<1>. DEFINE s == todo[1][2]
<1>1. Task("join") /\ UNCHANGED <<actors, gateway, owners, over, client, faults>>
  BY DEF Join
<1>2. /\ todo[1] \in Tasks /\ todo[1][1] = "join" /\ Tail(todo) \in Seq(Tasks)
      /\ Begun(todo[1], streams, followed, liveOnly)
  BY <1>1, UnderWay
<1>3. s \in Children /\ s \in Sessions /\ s # Root /\ todo[1] # <<"heal", Root>> /\ ~Arriving(s)
  BY <1>2, TaskIs, TreeAssumption DEF Sessions, Begun, Arriving
<1>4. todo' = Tail(todo)
  BY <1>2 DEF Join, Then
<1>5. faults' \in Nat
  BY <1>1, FaultIs
<1>6. CASE ~Running(s)
  <2>1. UNCHANGED <<streams, followed, epochs>>
    BY <1>6 DEF Join
  <2>. HIDE DEF s
  <2>. QED
    BY <1>1, <1>3, <1>4, <1>5, <2>1, NothingDone
<1>7. CASE Running(s)
  <2>. DEFINE u == Subscribe(s, epochs + 1, Since(s))
  <2>1. FollowFrom(s, Since(s), u, "live")
    BY <1>7 DEF Join, Follow
  <2>. HIDE DEF s
  <2>2. /\ log[s] \in Seq(Kinds) /\ ckpt[s] \in Nat /\ epochs + 1 \in Nat /\ base[s] \in Nat
        /\ Since(s) \in Nat /\ Since(s) <= Len(log[s])
        /\ Later(seen[s], base[s]) = Later(Since(s), base[s]) /\ base \in [Sessions -> Nat]
    BY <1>3, SessionIs
  <2>3. /\ u \in Stream /\ Formed(u) /\ u.session = s /\ u.epoch = epochs + 1 /\ u.tx /\ u.at # "over"
        /\ Sound(u, log[s], Since(s), base[s])
    BY <1>3, <2>2, SubscribeIs
  <2>. HIDE DEF u
  <2>4. base' = base /\ base[s] <= base'[s] /\ seen' = seen /\ stale' = stale /\ liveOnly' = liveOnly
    BY <1>1, <2>2 DEF client
  <2>5. u.tx => life[s] = "live"
    BY <1>7 DEF Running
  <2>6. \A st \in streams : st.session = s => st.at = "over"
    BY <1>3, NoneArrives
  <2>. QED
    BY <1>1, <1>3, <1>4, <1>5, <2>1, <2>2, <2>3, <2>4, <2>5, <2>6, FollowStep
<1>. QED
  BY <1>6, <1>7

\* adopt, answered by tail_events: a client that has nothing of the session joins it here.
LEMMA JoinTailKeeps ==
  ASSUME TreeInv, JoinTail
  PROVE  TreeInv'
<1>. DEFINE s == todo[1][2]
            cut == Len(log[s])
<1>1. Task("tail") /\ UNCHANGED <<actors, gateway, owners, over, seen, stale, liveOnly, faults>>
  BY DEF JoinTail
<1>2. /\ todo[1] \in Tasks /\ todo[1][1] = "tail" /\ Tail(todo) \in Seq(Tasks)
      /\ Begun(todo[1], streams, followed, liveOnly)
  BY <1>1, UnderWay
<1>3. /\ s \in Children /\ s \in Sessions /\ s # Root /\ todo[1] # <<"heal", Root>> /\ ~Arriving(s)
      /\ followed[s].source = "unknown"
  BY <1>2, TaskIs, TreeAssumption DEF Sessions, Begun, Arriving
<1>4. todo' = Tail(todo)
  BY <1>2 DEF JoinTail, Then
<1>5. faults' \in Nat
  BY <1>1, FaultIs
<1>6. CASE ~Running(s)
  <2>1. UNCHANGED <<streams, followed, epochs>> /\ UNCHANGED client
    BY <1>1, <1>6 DEF JoinTail, client
  <2>. HIDE DEF s
  <2>. QED
    BY <1>1, <1>3, <1>4, <1>5, <2>1, NothingDone
<1>7. CASE Running(s)
  <2>. DEFINE u == Subscribe(s, epochs + 1, cut)
  <2>1. FollowFrom(s, cut, u, "live") /\ base' = [base EXCEPT ![s] = cut]
    BY <1>7 DEF JoinTail
  <2>. HIDE DEF s
  <2>2. /\ log[s] \in Seq(Kinds) /\ ckpt[s] \in Nat /\ epochs + 1 \in Nat /\ cut \in Nat
        /\ base \in [Sessions -> Nat] /\ base[s] = 0 /\ seen[s] = 0
    BY <1>3, SessionIs
  <2>3. /\ u \in Stream /\ Formed(u) /\ u.session = s /\ u.epoch = epochs + 1 /\ u.tx /\ u.at # "over"
        /\ Sound(u, log[s], cut, cut)
    BY <1>3, <2>2, SubscribeIs
  <2>. HIDE DEF u, cut
  <2>4. /\ base' \in [Sessions -> Nat] /\ base'[s] = cut /\ base[s] <= base'[s]
        /\ \A x \in Sessions : x # s => base'[x] = base[x]
    BY <1>3, <2>1, <2>2
  <2>5. u.tx => life[s] = "live"
    BY <1>7 DEF Running
  <2>6. \A st \in streams : st.session = s => st.at = "over"
    BY <1>3, NoneArrives
  <2>7. Later(seen[s], base'[s]) = Later(cut, base'[s]) /\ cut <= Len(log[s]) /\ Sound(u, log[s], cut, base'[s])
    BY <2>2, <2>3, <2>4 DEF Later, cut
  <2>. QED
    BY <1>1, <1>3, <1>4, <1>5, <2>1, <2>2, <2>3, <2>4, <2>5, <2>6, <2>7, FollowStep
<1>. QED
  BY <1>6, <1>7

\* replay: the journal of a session that does not run here, after the last frame forwarded
LEMMA ReplayKeeps ==
  ASSUME TreeInv, Replay
  PROVE  TreeInv'
<1>. DEFINE s == todo[1][2]
            S == Between(s, Since(s), Len(log[s]) + 1)
            past == Ascending(S, Len(log[s]))
            u(tx) == Past(s, epochs + 1, past, tx)
            v == u(FALSE)
<1>1. Task("replay") /\ UNCHANGED <<actors, gateway, owners, over, client>>
  BY DEF Replay
<1>2. /\ todo[1] \in Tasks /\ todo[1][1] = "replay" /\ Tail(todo) \in Seq(Tasks)
  BY <1>1, UnderWay
<1>3. s \in Children /\ s \in Sessions /\ s # Root /\ todo[1] # <<"heal", Root>>
  BY <1>2, TaskIs, TreeAssumption DEF Sessions
<1>4. todo' = Tail(todo)
  BY <1>2 DEF Replay, Then
<1>5. Fault \/ faults' = faults
  BY DEF Replay
<1>6. faults' \in Nat
  BY <1>5, FaultIs
<1>7. \/ UNCHANGED <<streams, followed, epochs>>
      \/ ~Arriving(s) /\ FollowFrom(s, Since(s), v, "replaying")
  BY DEF Replay, Follow
<1>. HIDE DEF s
<1>8. CASE UNCHANGED <<streams, followed, epochs>>
  BY <1>1, <1>3, <1>4, <1>6, <1>8, NothingDone
<1>9. CASE ~Arriving(s) /\ FollowFrom(s, Since(s), v, "replaying")
  <2>1. /\ log[s] \in Seq(Kinds) /\ Len(log[s]) \in Nat /\ epochs + 1 \in Nat /\ base[s] \in Nat
        /\ Since(s) \in Nat /\ Since(s) <= Len(log[s])
        /\ Later(seen[s], base[s]) = Later(Since(s), base[s]) /\ base \in [Sessions -> Nat]
    BY <1>3, SessionIs
  <2>2. /\ past \in Seq(Nat) /\ Rising(past)
        /\ \A k \in Nat : (\E i \in DOMAIN past : past[i] = k) <=> k \in S /\ k \in 1..Len(log[s])
    BY <2>1, AscendingIs
  <2>3. \A k \in Nat : k \in S /\ k \in 1..Len(log[s]) <=> k \in Keeps(log[s]) /\ k > Since(s)
    BY <2>1, LenProperties DEF Between, Kept, Keeps
  <2>. HIDE DEF past, S
  <2>4. /\ v \in Stream /\ Formed(v) /\ v.session = s /\ v.epoch = epochs + 1 /\ v.past = past
        /\ v.buf = <<>> /\ ~v.tx /\ v.at \in {"try", "past"}
    <3>1. \A tx \in BOOLEAN :
             /\ u(tx) \in Stream /\ Formed(u(tx)) /\ u(tx).session = s /\ u(tx).epoch = epochs + 1
             /\ u(tx).past = past /\ u(tx).buf = <<>> /\ u(tx).tx = tx /\ u(tx).at \in {"try", "past"}
      <4>1. past \in Seq(Nat)
        BY <2>2
      <4>. QED
        BY <1>3, <2>1, <4>1, PastIs
    <3>. HIDE DEF u
    <3>. QED
      BY <3>1
  <2>. HIDE DEF v
  <2>5. Sound(v, log[s], Since(s), base[s])
    <3>1. /\ v \in Stream /\ v.at # "catch" /\ v.buf = <<>> /\ Rising(v.past)
          /\ \A k \in Nat : (\E i \in DOMAIN v.past : v.past[i] = k) <=> k \in Keeps(log[s]) /\ k > Since(s)
      BY <2>2, <2>3, <2>4
    <3>2. log[s] \in Seq(Kinds) /\ Since(s) \in Nat /\ base[s] \in Nat
      BY <2>1
    <3>. QED
      BY <3>1, <3>2, Refilled
  <2>6. base' = base /\ base[s] <= base'[s] /\ seen' = seen /\ stale' = stale /\ liveOnly' = liveOnly
    BY <1>1, <2>1 DEF client
  <2>7. \A st \in streams : st.session = s => st.at = "over"
    BY <1>9, NoneArrives
  <2>8. v.at # "over" /\ (v.tx => life[s] = "live")
    BY <2>4
  <2>9. v \in Stream /\ Formed(v) /\ v.session = s /\ v.epoch = epochs + 1
    BY <2>4
  <2>. QED
    BY <1>1, <1>3, <1>4, <1>6, <1>9, <2>1, <2>5, <2>6, <2>7, <2>8, <2>9, FollowStep
<1>. QED
  BY <1>7, <1>8, <1>9

\* heal: a session whose stream ended at its marker is followed on.
LEMMA HealKeeps ==
  ASSUME TreeInv, Heal
  PROVE  TreeInv'
<1>. DEFINE s == todo[1][2]
<1>1. Task("heal") /\ UNCHANGED <<actors, gateway, owners, over, client, faults>>
  BY DEF Heal
<1>2. /\ todo[1] \in Tasks /\ todo[1][1] = "heal" /\ Tail(todo) \in Seq(Tasks)
      /\ Begun(todo[1], streams, followed, liveOnly)
  BY <1>1, UnderWay
<1>3. s \in Sessions /\ todo[1] = <<"heal", s>> /\ \A st \in streams : st.session = s => st.at = "over"
  BY <1>2, TaskIs DEF Begun
<1>4. todo' = Tail(todo)
  BY <1>2 DEF Heal, Then
<1>5. faults' \in Nat
  BY <1>1, FaultIs
<1>6. CASE ~(followed[s].source = "live" /\ Running(s))
  <2>1. UNCHANGED <<streams, followed, epochs>>
    BY <1>6 DEF Heal
  <2>2. s = Root => life[Root] # "live"
    BY <1>6 DEF TreeInv, Rooted, Running
  <2>3. todo[1] # <<"heal", Root>> \/ life[Root] # "live"
    BY <2>2
  <2>. HIDE DEF s
  <2>. QED
    BY <1>1, <1>4, <1>5, <2>1, <2>3, NothingDone
<1>7. CASE followed[s].source = "live" /\ Running(s)
  <2>. DEFINE u == Subscribe(s, epochs + 1, Since(s))
  <2>1. FollowFrom(s, Since(s), u, "live")
    BY <1>7 DEF Heal, Follow
  <2>0. todo[1] # <<"heal", Root>> \/ s = Root
    BY <1>3
  <2>. HIDE DEF s
  <2>2. /\ log[s] \in Seq(Kinds) /\ ckpt[s] \in Nat /\ epochs + 1 \in Nat /\ base[s] \in Nat
        /\ Since(s) \in Nat /\ Since(s) <= Len(log[s])
        /\ Later(seen[s], base[s]) = Later(Since(s), base[s]) /\ base \in [Sessions -> Nat]
    BY <1>3, SessionIs
  <2>3. /\ u \in Stream /\ Formed(u) /\ u.session = s /\ u.epoch = epochs + 1 /\ u.tx /\ u.at # "over"
        /\ Sound(u, log[s], Since(s), base[s])
    BY <1>3, <2>2, SubscribeIs
  <2>. HIDE DEF u
  <2>4. base' = base /\ base[s] <= base'[s] /\ seen' = seen /\ stale' = stale /\ liveOnly' = liveOnly
    BY <1>1, <2>2 DEF client
  <2>5. u.tx => life[s] = "live"
    BY <1>7 DEF Running
  <2>6. s \in Sessions /\ \A st \in streams : st.session = s => st.at = "over"
    BY <1>3
  <2>. QED
    BY <1>1, <1>4, <1>5, <2>0, <2>1, <2>2, <2>3, <2>4, <2>5, <2>6, FollowStep
<1>. QED
  BY <1>6, <1>7

-----------------------------------------------------------------------------
(* The forwarder polls a stream. *)

\* What of a stream is typed, and of its session.
LEMMA StreamIs ==
  ASSUME TreeInv, NEW st \in streams
  PROVE  /\ st \in Stream /\ st.session \in Sessions /\ Formed(st)
         /\ st.at # "over" => /\ Sound(st, log[st.session], Since(st.session), base[st.session])
                              /\ followed[st.session].source \in {"live", "replaying"}
         /\ \A o \in streams : o.epoch = st.epoch => o = st
<1>1. streams \subseteq Stream /\ Served(streams, followed, life, log, base) /\ Marked(streams, followed, epochs)
  BY DEF TreeInv, TypeOK
<1>2. st \in Stream /\ st.session \in Sessions
  BY <1>1, StreamFields
<1>. QED
  BY <1>1, <1>2 DEF Served, Marked, Since

\* One stream in the place of another, of its session and its epoch: what has to
\* be shown of it, of what was forwarded and of what is to do next.
LEMMA PollStep ==
  ASSUME TreeInv, NEW st \in streams, NEW u \in Stream, Becomes(st, u),
         u.session = st.session, u.epoch = st.epoch, Formed(u), u.tx => st.tx,
         st.at # "over",
         u.at # "over" => Sound(u, log[st.session], followed'[st.session].last, base[st.session]),
         todo = <<>> \/ todo[1] # <<"heal", Root>>,
         u.tx \/ ~st.tx \/ (todo' # <<>> /\ todo'[1] = <<"heal", st.session>>),
         todo' \in Seq(Tasks), Tasked(todo', streams', followed, liveOnly), faults' \in Nat,
         followed' \in [Sessions -> Followed],
         \A x \in Sessions : /\ followed'[x].source = followed[x].source /\ followed'[x].epoch = followed[x].epoch
                             /\ x # st.session => followed'[x] = followed[x],
         Reached(followed', log, base, seen'), seen' \in [Sessions -> Nat],
         stale' \subseteq Sessions \X Nat, NoRepeats', Owned(owners', log),
         \A o \in owners' : o[2] <= seen'[o[1]] /\ log[o[1]][o[2]] = "opened",
         UNCHANGED <<actors, gateway, epochs, over, base, liveOnly>>
  PROVE  TreeInv'
<1>. DEFINE s == st.session
<1>1. /\ TypeOK /\ EndsWithRoot /\ Marked(streams, followed, epochs)
      /\ Served(streams, followed, life, log, base) /\ Rooted(streams, followed, life, todo)
  BY DEF TreeInv
<1>2. /\ streams' = (streams \ {st}) \union {u}
      /\ life' = life /\ log' = log /\ ckpt' = ckpt /\ due' = due /\ news' = news /\ missed' = missed
  BY DEF Becomes, actors, gateway
<1>3. streams \subseteq Stream /\ \A x \in streams : x.session \in Sessions
  BY <1>1, StreamFields DEF TypeOK
<1>4. \A x \in streams' : x = u \/ (x \in streams /\ x # st)
  BY <1>2
<1>5. TypeOK'
  <2>1. streams' \subseteq Stream
    BY <1>2, <1>3
  <2>. QED
    BY <1>1, <1>2, <2>1 DEF TypeOK
<1>6. EndsWithRoot'
  BY <1>1, <1>2 DEF EndsWithRoot, Running
<1>7. Marked(streams', followed', epochs')
  <2>1. \A x \in streams' : x.epoch <= epochs
    BY <1>1, <1>4 DEF Marked
  <2>2. \A x, y \in streams' : x.epoch = y.epoch => x = y
    BY <1>1, <1>4 DEF Marked
  <2>3. ASSUME NEW x \in streams', x.at # "over"
        PROVE  x.epoch = followed'[x.session].epoch /\ followed'[x.session].source \in {"live", "replaying"}
    <3>1. x.session \in Sessions
      BY <1>3, <1>4
    <3>2. x.epoch = followed[x.session].epoch /\ followed[x.session].source \in {"live", "replaying"}
      BY <1>1, <1>4, <2>3 DEF Marked
    <3>. QED
      BY <3>1, <3>2
  <2>. QED
    BY <2>1, <2>2, <2>3 DEF Marked
<1>8. Served(streams', followed', life', log', base')
  <2>. SUFFICES ASSUME NEW x \in streams'
                PROVE  /\ Formed(x) /\ (x.tx => life[x.session] = "live")
                       /\ x.at # "over" => Sound(x, log[x.session], followed'[x.session].last, base[x.session])
    BY <1>2 DEF Served
  <2>1. CASE x = u
    BY <1>1, <2>1 DEF Served
  <2>2. CASE x \in streams /\ x # st
    <3>1. Formed(x) /\ (x.tx => life[x.session] = "live")
      BY <1>1, <2>2 DEF Served
    <3>2. ASSUME x.at # "over"
          PROVE  Sound(x, log[x.session], followed'[x.session].last, base[x.session])
      <4>1. x.session # s
        BY <1>1, <2>2, <3>2 DEF Marked
      <4>2. followed'[x.session] = followed[x.session]
        BY <1>3, <2>2, <4>1
      <4>. QED
        BY <1>1, <2>2, <3>2, <4>2 DEF Served
    <3>. QED
      BY <3>1, <3>2
  <2>. QED
    BY <1>4, <2>1, <2>2
<1>9. Tasked(todo', streams', followed', liveOnly')
  <2>1. ASSUME todo' # <<>> PROVE Begun(todo'[1], streams', followed', liveOnly)
    <3>1. Begun(todo'[1], streams', followed, liveOnly)
      BY <2>1 DEF Tasked
    <3>2. todo'[1] \in Tasks
      <4>1. 1 \in 1..Len(todo')
        BY <2>1, LenProperties, EmptySeq
      <4>. QED
        BY <4>1, ElementOfSeq
    <3>3. todo'[1][1] \in {"join", "tail"} => todo'[1][2] \in Sessions
      BY <3>2, TaskIs DEF Sessions
    <3>. QED
      BY <3>1, <3>3 DEF Begun
  <2>. QED
    BY <2>1 DEF Tasked
<1>10. Rooted(streams', followed', life', todo')
  <2>1. Root \in Sessions
    BY DEF Sessions
  <2>2. followed'[Root].source = "live" /\ followed'[Root].epoch = followed[Root].epoch
    BY <1>1, <2>1 DEF Rooted
  <2>3. ASSUME NEW x \in streams', x.session = Root, x.epoch = followed'[Root].epoch, ~x.tx
        PROVE  life[Root] # "live" \/ (todo' # <<>> /\ todo'[1] = <<"heal", Root>>)
    <3>1. \A y \in streams : y.session = Root /\ y.epoch = followed[Root].epoch /\ ~y.tx => life[Root] # "live"
      BY <1>1 DEF Rooted
    <3>2. CASE x \in streams
      BY <2>2, <2>3, <3>1, <3>2
    <3>3. CASE x = u
      BY <2>2, <2>3, <3>1, <3>3
    <3>. QED
      BY <1>4, <3>2, <3>3
  <2>. QED
    BY <1>2, <2>2, <2>3 DEF Rooted
<1>. QED
  BY <1>2, <1>5, <1>6, <1>7, <1>8, <1>9, <1>10 DEF TreeInv

\* A poll that forwards nothing.
LEMMA Unforwarded ==
  ASSUME TreeInv, NEW st \in streams, NEW u \in Stream, Becomes(st, u),
         u.session = st.session, u.epoch = st.epoch, Formed(u), u.tx => st.tx, st.at # "over",
         u.at # "over" => Sound(u, log[st.session], Since(st.session), base[st.session]),
         todo = <<>> \/ todo[1] # <<"heal", Root>>,
         u.tx \/ ~st.tx \/ (todo' # <<>> /\ todo'[1] = <<"heal", st.session>>),
         todo' \in Seq(Tasks), Tasked(todo', streams', followed, liveOnly), faults' \in Nat,
         UNCHANGED <<actors, gateway, followed, epochs, owners, over, client>>
  PROVE  TreeInv'
<1>1. seen' = seen /\ base' = base /\ stale' = stale /\ liveOnly' = liveOnly /\ followed' = followed /\ owners' = owners
  BY DEF client
<1>2. /\ followed' \in [Sessions -> Followed] /\ Reached(followed', log, base, seen')
      /\ seen' \in [Sessions -> Nat] /\ stale' \subseteq Sessions \X Nat /\ NoRepeats' /\ Owned(owners', log)
      /\ \A o \in owners' : o[2] <= seen'[o[1]] /\ log[o[1]][o[2]] = "opened"
  BY <1>1 DEF TreeInv, TypeOK, NoRepeats
<1>3. u.at # "over" => Sound(u, log[st.session], followed'[st.session].last, base[st.session])
  BY <1>1 DEF Since
<1>4. UNCHANGED <<actors, gateway, epochs, over, base, liveOnly>>
  BY <1>1
<1>5. \A x \in Sessions : /\ followed'[x].source = followed[x].source /\ followed'[x].epoch = followed[x].epoch
                          /\ x # st.session => followed'[x] = followed[x]
  BY <1>1
<1>. QED
  BY <1>2, <1>3, <1>4, <1>5, PollStep

\* A single task to do next.
LEMMA Alone ==
  ASSUME NEW t \in Tasks, NEW S, NEW F, NEW late, Begun(t, S, F, late)
  PROVE  /\ <<t>> \in Seq(Tasks) /\ <<t>> # <<>> /\ <<t>>[1] = t
         /\ Tasked(<<t>>, S, F, late)
<1>1. <<t>> \in Seq(Tasks) /\ <<t>> # <<>> /\ <<t>>[1] = t /\ Len(<<t>>) = 1
  OBVIOUS
<1>. DEFINE T == <<t>>
<1>2. T \in Seq(Tasks) /\ T[1] = t /\ Len(T) = 1
  BY <1>1
<1>. HIDE DEF T
<1>3. Tasked(T, S, F, late)
  BY <1>2 DEF Tasked
<1>. QED
  BY <1>1, <1>3 DEF T

\* A stream that ends at its marker is healed: none of its session goes on.
LEMMA AtMarker ==
  ASSUME TreeInv, NEW st \in streams, st.at # "over", Becomes(st, Finished(st)),
         todo = <<>> \/ todo[1] # <<"heal", Root>>, todo' = <<<<"heal", st.session>>>>, faults' \in Nat,
         UNCHANGED <<actors, gateway, followed, epochs, owners, over, client>>
  PROVE  TreeInv'
<1>. DEFINE u == Finished(st)
            t == <<"heal", st.session>>
<1>1. /\ st \in Stream /\ st.session \in Sessions /\ Marked(streams, followed, epochs)
  BY StreamIs DEF TreeInv
<1>2. /\ u \in Stream /\ Formed(u) /\ u.at = "over" /\ u.session = st.session /\ u.epoch = st.epoch /\ ~u.tx
  BY <1>1, FinishedIs
<1>3. Becomes(st, u)
  OBVIOUS
<1>. HIDE DEF u
<1>4. t \in Tasks /\ t[1] = "heal" /\ t[2] = st.session
  BY <1>1, TaskIs
<1>5. todo' = <<t>>
  OBVIOUS
<1>. HIDE DEF t
<1>6. Begun(t, streams', followed, liveOnly)
  <2>1. \A x \in streams' : x.session = st.session => x.at = "over"
    BY <1>1, <1>2, <1>3 DEF Becomes, Marked
  <2>. QED
    BY <1>4, <2>1 DEF Begun
<1>7. todo' \in Seq(Tasks) /\ Tasked(todo', streams', followed, liveOnly) /\ todo' # <<>> /\ todo'[1] = t
  BY <1>4, <1>5, <1>6, Alone
<1>8. todo'[1] = <<"heal", st.session>>
  BY <1>7 DEF t
<1>. QED
  BY <1>2, <1>3, <1>7, <1>8, Unforwarded

\* Nothing to do.
LEMMA Idle ==
  ASSUME NEW S, NEW F, NEW late
  PROVE  <<>> \in Seq(Tasks) /\ Tasked(<<>>, S, F, late)
<1>. DEFINE T == <<>>
<1>1. T \in Seq(Tasks) /\ Plain(T)
  BY EmptySeq DEF Plain
<1>. HIDE DEF T
<1>2. Tasked(T, S, F, late)
  BY <1>1, PlainTasked
<1>. QED
  BY <1>1, <1>2 DEF T

\* live: the sender is gone, and so is the stream.
LEMMA DisconnectedKeeps ==
  ASSUME TreeInv, NEW st \in streams, Disconnected(st)
  PROVE  TreeInv'
<1>. DEFINE u == Finished(st)
<1>1. /\ todo = <<>> /\ todo' = todo /\ faults' = faults /\ ~st.tx /\ st.at # "over" /\ Becomes(st, u)
      /\ UNCHANGED <<actors, gateway, followed, epochs, owners, over, client>>
  BY DEF Disconnected, Polling
<1>2. st \in Stream
  BY StreamIs
<1>3. /\ u \in Stream /\ Formed(u) /\ u.at = "over" /\ u.session = st.session /\ u.epoch = st.epoch /\ ~u.tx
  BY <1>2, FinishedIs
<1>4. faults' \in Nat
  BY <1>1, FaultIs
<1>5. todo' \in Seq(Tasks) /\ Tasked(todo', streams', followed, liveOnly)
  BY <1>1, Idle
<1>. HIDE DEF u
<1>. QED
  BY <1>1, <1>3, <1>4, <1>5, Unforwarded

\* A stream that differs only in where it is.
LEMMA Moved ==
  ASSUME NEW st \in Stream, NEW l, NEW last, NEW b, Formed(st), st.at \in {"try", "look"}, Sound(st, l, last, b),
         NEW a \in {"look", "recv"}
  PROVE  /\ [st EXCEPT !.at = a] \in Stream /\ [st EXCEPT !.at = a].at = a
         /\ [st EXCEPT !.at = a].session = st.session /\ [st EXCEPT !.at = a].epoch = st.epoch
         /\ [st EXCEPT !.at = a].tx = st.tx
         /\ Formed([st EXCEPT !.at = a]) /\ Sound([st EXCEPT !.at = a], l, last, b)
<1>. DEFINE u == [st EXCEPT !.at = a]
<1>1. /\ u \in Stream /\ u.at = a /\ u.session = st.session /\ u.epoch = st.epoch /\ u.tx = st.tx
      /\ u.past = st.past /\ u.buf = st.buf /\ u.lag = st.lag
  BY DEF Stream
<1>. HIDE DEF u
<1>2. Formed(u)
  BY <1>1 DEF Formed
<1>3. \A k : Holds(u, k) <=> Holds(st, k)
  BY <1>1 DEF Holds
<1>4. InOrder(u, l, last)
  BY <1>1, <1>3 DEF Sound, InOrder, Lowest
<1>5. Whole(u, l, last, b)
  BY <1>1, <1>3 DEF Sound, Whole, Owed
<1>6. Sound(u, l, last, b)
  BY <1>1, <1>4, <1>5 DEF Sound
<1>. QED
  BY <1>1, <1>2, <1>6 DEF u

\* live: nothing there, the lag is next.
LEMMA FoundEmptyKeeps ==
  ASSUME TreeInv, NEW st \in streams, FoundEmpty(st)
  PROVE  TreeInv'
<1>. DEFINE u == [st EXCEPT !.at = "look"]
            t == <<"look", st.epoch>>
<1>1. /\ todo = <<>> /\ todo' = <<t>> /\ faults' = faults /\ st.at = "try" /\ Becomes(st, u)
      /\ UNCHANGED <<actors, gateway, followed, epochs, owners, over, client>>
  BY DEF FoundEmpty, Polling
<1>2. /\ st \in Stream /\ Formed(st) /\ st.epoch \in Nat
      /\ Sound(st, log[st.session], Since(st.session), base[st.session])
      /\ \A o \in streams : o.epoch = st.epoch => o = st
  BY <1>1, StreamIs, StreamFields
<1>3. /\ u \in Stream /\ Formed(u) /\ u.at = "look" /\ u.session = st.session /\ u.epoch = st.epoch /\ u.tx = st.tx
      /\ Sound(u, log[st.session], Since(st.session), base[st.session])
  BY <1>1, <1>2, Moved
<1>4. faults' \in Nat
  BY <1>1, FaultIs
<1>5. t \in Tasks /\ t[1] = "look" /\ t[2] = st.epoch
  BY <1>2, TaskIs
<1>. HIDE DEF u, t
<1>6. Begun(t, streams', followed, liveOnly)
  <2>1. \A x \in streams' : x.epoch = st.epoch => x.at = "look"
    BY <1>1, <1>2, <1>3 DEF Becomes
  <2>. QED
    BY <1>5, <2>1 DEF Begun
<1>7. todo' \in Seq(Tasks) /\ Tasked(todo', streams', followed, liveOnly)
  BY <1>1, <1>5, <1>6, Alone
<1>8. u.tx \/ ~st.tx
  BY <1>3
<1>. QED
  BY <1>1, <1>3, <1>4, <1>7, <1>8, Unforwarded

\* live: the lag is taken and the stream ends, or it waits.
LEMMA LookForLagKeeps ==
  ASSUME TreeInv, NEW st \in streams, LookForLag(st)
  PROVE  TreeInv'
<1>. DEFINE u == [st EXCEPT !.at = "recv"]
<1>1. /\ Task("look") /\ todo[1][2] = st.epoch /\ faults' = faults
      /\ UNCHANGED <<actors, gateway, followed, epochs, owners, over, client>>
  BY DEF LookForLag
<1>2. todo[1][1] = "look" /\ Begun(todo[1], streams, followed, liveOnly)
  BY <1>1, UnderWay
<1>3. st.at = "look" /\ todo[1] # <<"heal", Root>>
  BY <1>1, <1>2 DEF Begun
<1>4. faults' \in Nat
  BY <1>1, FaultIs
<1>5. CASE st.lag # <<>>
  <2>1. Becomes(st, Finished(st)) /\ todo' = <<<<"heal", st.session>>>>
    BY <1>5 DEF LookForLag
  <2>. QED
    BY <1>1, <1>3, <1>4, <2>1, AtMarker
<1>6. CASE st.lag = <<>>
  <2>1. Becomes(st, u) /\ todo' = <<>>
    BY <1>6 DEF LookForLag
  <2>2. /\ st \in Stream /\ Formed(st)
        /\ Sound(st, log[st.session], Since(st.session), base[st.session])
    BY <1>3, StreamIs
  <2>3. /\ u \in Stream /\ Formed(u) /\ u.session = st.session /\ u.epoch = st.epoch /\ u.tx = st.tx
        /\ Sound(u, log[st.session], Since(st.session), base[st.session])
    BY <1>3, <2>2, Moved
  <2>. HIDE DEF u
  <2>4. todo' \in Seq(Tasks) /\ Tasked(todo', streams', followed, liveOnly)
    BY <2>1, Idle
  <2>5. u.tx \/ ~st.tx
    BY <2>3
  <2>. QED
    BY <1>1, <1>3, <1>4, <2>1, <2>3, <2>4, <2>5, Unforwarded
<1>. QED
  BY <1>5, <1>6

\* catch_up reads the store up to the cut, or ends at its marker.
LEMMA CatchUpKeeps ==
  ASSUME TreeInv, NEW st \in streams, CatchUp(st)
  PROVE  TreeInv'
<1>. DEFINE s == st.session
            S == Between(s, st.since, st.cut)
            past == Ascending(S, Len(log[s]))
            a == Giving(past)
            u == [st EXCEPT !.at = a, !.past = past, !.since = 0, !.cut = 0]
<1>1. /\ todo = <<>> /\ st.at = "catch"
      /\ UNCHANGED <<actors, gateway, followed, epochs, owners, over, client>>
  BY DEF CatchUp, Polling
<1>2. \/ Becomes(st, u) /\ todo' = todo /\ faults' = faults
      \/ Fault /\ Becomes(st, Finished(st)) /\ todo' = <<<<"heal", st.session>>>>
  BY DEF CatchUp
<1>3. /\ st \in Stream /\ s \in Sessions /\ Formed(st)
      /\ Sound(st, log[s], Since(s), base[s])
  BY <1>1, StreamIs
<1>4. CASE Fault /\ Becomes(st, Finished(st)) /\ todo' = <<<<"heal", st.session>>>>
  <2>1. faults' \in Nat
    BY <1>4, FaultIs
  <2>. QED
    BY <1>1, <1>4, <2>1, AtMarker
<1>5. CASE Becomes(st, u) /\ todo' = todo /\ faults' = faults
  <2>1. /\ log[s] \in Seq(Kinds) /\ Len(log[s]) \in Nat /\ base[s] \in Nat /\ Since(s) \in Nat
    BY <1>3, SessionIs
  <2>2. /\ past \in Seq(Nat) /\ Rising(past)
        /\ \A k \in Nat : (\E i \in DOMAIN past : past[i] = k) <=> k \in S /\ k \in 1..Len(log[s])
    BY <2>1, AscendingIs
  <2>3. \A k \in Nat : k \in S /\ k \in 1..Len(log[s]) <=> k \in Keeps(log[s]) /\ k > st.since /\ k < st.cut
    BY <2>1, LenProperties DEF Between, Kept, Keeps
  <2>4. a \in {"try", "past"} /\ (a = "past" <=> past # <<>>)
    BY DEF Giving
  <2>. HIDE DEF past, S, a
  <2>5. /\ u \in Stream /\ u.at = a /\ u.past = past /\ u.session = st.session /\ u.epoch = st.epoch
        /\ u.buf = st.buf /\ u.tx = st.tx /\ u.lag = st.lag
    BY <1>3, <2>2, <2>4 DEF Stream
  <2>6. Becomes(st, u)
    BY <1>5
  <2>. HIDE DEF u
  <2>7. Formed(u)
    BY <2>4, <2>5 DEF Formed
  <2>8. Sound(u, log[s], Since(s), base[s])
    <3>1. /\ u.at # "catch" /\ Rising(u.past)
          /\ \A k \in Nat : (\E i \in DOMAIN u.past : u.past[i] = k) <=>
                              k \in Keeps(log[s]) /\ k > st.since /\ k < st.cut
      BY <2>2, <2>3, <2>4, <2>5
    <3>2. u \in Stream /\ u.buf = st.buf /\ u.tx = st.tx /\ u.lag = st.lag
      BY <2>5
    <3>. HIDE DEF s
    <3>. QED
      BY <1>1, <1>3, <2>1, <3>1, <3>2, CaughtUp
  <2>9. faults' \in Nat
    BY <1>5, FaultIs
  <2>10. todo' \in Seq(Tasks) /\ Tasked(todo', streams', followed, liveOnly)
    BY <1>1, <1>5, Idle
  <2>11. u.tx \/ ~st.tx
    BY <2>5
  <2>. QED
    BY <1>1, <2>5, <2>6, <2>7, <2>8, <2>9, <2>10, <2>11, Unforwarded
<1>. QED
  BY <1>2, <1>4, <1>5

\* forward: the stream u is what is left of st when it has given q, the least it held.
LEMMA ForwardKeeps ==
  ASSUME TreeInv, todo = <<>>, NEW st \in streams, NEW u \in Stream, NEW q \in Nat, Forward(st, q, u),
         st.at # "over", u.session = st.session, u.epoch = st.epoch, Formed(u), u.tx = st.tx,
         Sound(u, log[st.session], q, base[st.session]), q > Since(st.session), q <= Len(log[st.session])
  PROVE  TreeInv'
<1>. DEFINE s == st.session
<1>1. /\ Apply(s, q) /\ followed' = [followed EXCEPT ![s].last = q] /\ owners' = Noted(s, q) /\ Becomes(st, u)
      /\ UNCHANGED <<actors, gateway, epochs, todo, over, base, liveOnly, faults>>
  BY DEF Forward
<1>2. s \in Sessions /\ followed[s].source \in {"live", "replaying"}
  BY StreamIs
<1>3. /\ log[s] \in Seq(Kinds) /\ Len(log[s]) \in Nat /\ base[s] \in Nat /\ seen[s] \in Nat /\ Since(s) \in Nat
      /\ Later(seen[s], base[s]) = Later(Since(s), base[s]) /\ followed[s] \in Followed
  BY <1>2, SessionIs
<1>4. /\ followed \in [Sessions -> Followed] /\ seen \in [Sessions -> Nat] /\ stale \subseteq Sessions \X Nat
      /\ NoRepeats /\ Reached(followed, log, base, seen) /\ Owned(owners, log)
      /\ \A o \in owners : o[2] <= seen[o[1]] /\ log[o[1]][o[2]] = "opened"
  BY DEF TreeInv, TypeOK
<1>. DEFINE r == [followed[s] EXCEPT !.last = q]
<1>5. /\ r \in Followed /\ r.last = q /\ r.source = followed[s].source /\ r.epoch = followed[s].epoch
  BY <1>3 DEF Followed
<1>6. followed' = [followed EXCEPT ![s] = r]
  BY <1>1, <1>2, <1>4
<1>. HIDE DEF r, s
<1>7. /\ followed' \in [Sessions -> Followed] /\ followed'[s] = r
      /\ \A x \in Sessions : x # s => followed'[x] = followed[x]
  BY <1>2, <1>4, <1>5, <1>6
<1>8. \A x \in Sessions : /\ followed'[x].source = followed[x].source /\ followed'[x].epoch = followed[x].epoch
                          /\ x # s => followed'[x] = followed[x]
  BY <1>5, <1>7
<1>9. q <= seen[s] => seen[s] <= base[s] /\ q <= base[s]
  BY <1>3 DEF Later, s
<1>10. /\ seen' \in [Sessions -> Nat] /\ (\A x \in Sessions : x # s => seen'[x] = seen[x])
       /\ seen'[s] >= seen[s] /\ q <= seen'[s] /\ seen'[s] \in Nat
       /\ Later(seen'[s], base[s]) = Later(q, base[s])
  <2>1. CASE q <= seen[s]
    <3>1. seen' = seen
      BY <1>1, <2>1 DEF Apply
    <3>. QED
      BY <1>3, <1>4, <1>9, <2>1, <3>1 DEF Later
  <2>2. CASE ~(q <= seen[s])
    <3>1. seen' = [seen EXCEPT ![s] = q]
      BY <1>1, <2>2 DEF Apply
    <3>2. /\ seen' \in [Sessions -> Nat] /\ seen'[s] = q
          /\ (\A x \in Sessions : x # s => seen'[x] = seen[x])
      BY <1>2, <1>4, <3>1
    <3>. QED
      BY <1>3, <2>2, <3>2
  <2>. QED
    BY <2>1, <2>2
<1>11. stale' \subseteq Sessions \X Nat /\ NoRepeats'
  <2>1. stale' = stale \/ (stale' = stale \union {<<s, q>>} /\ q <= base[s])
    BY <1>1, <1>9 DEF Apply
  <2>2. \A f \in stale : f[2] <= base[f[1]]
    BY <1>4 DEF NoRepeats
  <2>3. base' = base
    BY <1>1
  <2>4. \A f \in stale' : f \in stale \/ (f = <<s, q>> /\ q <= base[s])
    BY <2>1
  <2>. QED
    BY <1>2, <1>4, <2>1, <2>2, <2>3, <2>4 DEF NoRepeats
<1>12. Reached(followed', log, base, seen')
  <2>. SUFFICES ASSUME NEW x \in Sessions
                PROVE  /\ followed'[x].last <= Len(log[x])
                       /\ Later(seen'[x], base[x]) = Later(followed'[x].last, base[x])
                       /\ followed'[x].source = "unknown" => followed'[x].last = 0 /\ base[x] = 0 /\ seen'[x] = 0
    BY DEF Reached
  <2>1. CASE x = s
    <3>1. q <= Len(log[s])
      BY DEF s
    <3>2. followed[s].source # "unknown"
      BY <1>2
    <3>. QED
      BY <1>5, <1>7, <1>10, <2>1, <3>1, <3>2
  <2>2. CASE x # s
    BY <1>4, <1>7, <1>10, <2>2 DEF Reached
  <2>. QED
    BY <2>1, <2>2
<1>13. Owned(owners', log) /\ \A o \in owners' : o[2] <= seen'[o[1]] /\ log[o[1]][o[2]] = "opened"
  <2>0. \A x \in Sessions : seen[x] \in Nat /\ seen'[x] \in Nat /\ seen[x] <= seen'[x]
    <3>1. ASSUME NEW x \in Sessions PROVE seen[x] \in Nat /\ seen'[x] \in Nat /\ seen[x] <= seen'[x]
      <4>1. CASE x = s
        BY <1>3, <1>10, <4>1
      <4>2. CASE x # s
        BY <1>4, <1>10, <4>2
      <4>. QED
        BY <4>1, <4>2
    <3>. QED
      BY <3>1
  <2>1. \A o \in owners' : o \in owners \/ (o = <<s, q>> /\ log[s][q] = "opened")
    BY <1>1 DEF Noted
  <2>2. q \in DOMAIN log[s]
    <3>1. q <= Len(log[s]) /\ q > 0
      BY <1>3 DEF s
    <3>. QED
      BY <1>3, <3>1, LenProperties
  <2>3. ASSUME NEW o \in owners'
        PROVE  /\ o \in Sessions \X Nat /\ o[2] \in DOMAIN log[o[1]]
               /\ o[2] <= seen'[o[1]] /\ log[o[1]][o[2]] = "opened"
    <3>1. CASE o = <<s, q>> /\ log[s][q] = "opened"
      BY <1>2, <1>10, <2>2, <3>1
    <3>2. CASE o \in owners
      <4>1. o \in Sessions \X Nat /\ o[2] \in DOMAIN log[o[1]]
        BY <1>4, <3>2 DEF Owned
      <4>2. o[1] \in Sessions /\ o[2] \in Nat /\ o[2] <= seen[o[1]] /\ log[o[1]][o[2]] = "opened"
        BY <1>4, <3>2, <4>1
      <4>3. seen[o[1]] \in Nat /\ seen'[o[1]] \in Nat /\ seen[o[1]] <= seen'[o[1]]
        BY <2>0, <4>2
      <4>. QED
        BY <4>1, <4>2, <4>3
    <3>. QED
      BY <2>1, <3>1, <3>2
  <2>. QED
    BY <2>3 DEF Owned
<1>14. u.at # "over" => Sound(u, log[s], followed'[s].last, base[s])
  BY <1>5, <1>7 DEF s
<1>15. todo' \in Seq(Tasks) /\ Tasked(todo', streams', followed, liveOnly)
  BY <1>1, Idle
<1>16. faults' \in Nat
  BY <1>1, FaultIs
<1>17. u.tx => st.tx
  OBVIOUS
<1>18. u.tx \/ ~st.tx
  OBVIOUS
<1>19. /\ Becomes(st, u) /\ UNCHANGED <<actors, gateway, epochs, over, base, liveOnly>>
  BY <1>1
<1>. QED
  BY <1>7, <1>8, <1>10, <1>11, <1>12, <1>13, <1>14, <1>15, <1>16, <1>17, <1>18, <1>19, PollStep DEF s

\* The stream st has given q, which the client lacks or its snapshot covers, and u
\* is what is left of it.
Gives(st, q, u) ==
    /\ q \in Nat /\ u \in Stream /\ u.session = st.session /\ u.epoch = st.epoch /\ Formed(u) /\ u.tx = st.tx
    /\ Sound(u, log[st.session], q, base[st.session])
    /\ q > Since(st.session) /\ q <= Len(log[st.session])
    /\ \A k \in Keeps(log[st.session]) : k <= Later(Since(st.session), base[st.session]) \/ k >= q

PastRest(st) == [st EXCEPT !.past = Tail(@), !.at = Giving(Tail(st.past))]
LiveRest(st) == [st EXCEPT !.buf = Tail(@), !.at = "try"]

LEMMA PastGiven ==
  ASSUME TreeInv, NEW st \in streams, st.at = "past"
  PROVE  Gives(st, Head(st.past), PastRest(st))
<1>. DEFINE s == st.session
            past == Tail(st.past)
            a == Giving(past)
            u == [st EXCEPT !.past = past, !.at = a]
            q == Head(st.past)
<1>1. /\ st \in Stream /\ s \in Sessions /\ Formed(st) /\ Sound(st, log[s], Since(s), base[s])
  BY StreamIs
<1>2. /\ log[s] \in Seq(Kinds) /\ Since(s) \in Nat /\ base[s] \in Nat
  BY <1>1, SessionIs
<1>3. st.past \in Seq(Nat) /\ Rising(st.past) /\ st.past # <<>> /\ Rising(st.buf)
  BY <1>1, StreamFields DEF Formed, Sound, InOrder
<1>4. /\ past \in Seq(Nat) /\ Rising(past) /\ q \in Nat /\ 1 \in DOMAIN st.past /\ q = st.past[1]
      /\ \A i \in DOMAIN past : q < past[i]
      /\ \A k \in Nat : (\E i \in DOMAIN st.past : st.past[i] = k) <=> k = q \/ (\E i \in DOMAIN past : past[i] = k)
  BY <1>3, Taken
<1>5. a \in {"try", "past"} /\ (a = "past" <=> past # <<>>)
  BY DEF Giving
<1>6. PastRest(st) = u
  BY <1>1 DEF PastRest
<1>. HIDE DEF past, a, q
<1>7. /\ u \in Stream /\ u.at = a /\ u.past = past /\ u.session = st.session /\ u.epoch = st.epoch
      /\ u.buf = st.buf /\ u.tx = st.tx /\ u.lag = st.lag
  BY <1>1, <1>4, <1>5 DEF Stream
<1>. HIDE DEF u
<1>8. Formed(u)
  BY <1>5, <1>7 DEF Formed
<1>9. \A k \in Nat : Holds(st, k) <=> k = q \/ Holds(u, k)
  BY <1>4, <1>7 DEF Holds
<1>10. \A i \in DOMAIN st.past, j \in DOMAIN st.buf : st.past[i] < st.buf[j]
  BY <1>1 DEF Sound, InOrder
<1>11. \A i \in DOMAIN st.past : st.past[i] \in Nat
  BY <1>1, StreamFields
<1>12. \A i \in DOMAIN past : \E j \in DOMAIN st.past : past[i] = st.past[j]
  <2>1. \A i \in DOMAIN past : past[i] \in Nat
    BY <1>7, StreamFields
  <2>. QED
    BY <1>4, <2>1
<1>13. \A i \in DOMAIN u.past, j \in DOMAIN u.buf : u.past[i] < u.buf[j]
  BY <1>7, <1>10, <1>12
<1>14. \A k \in Nat : Holds(u, k) => k > q
  <2>1. \A j \in DOMAIN st.buf : q < st.buf[j] /\ st.buf[j] \in Nat
    BY <1>1, <1>4, <1>10, StreamFields
  <2>. QED
    BY <1>4, <1>7, <2>1 DEF Holds
<1>15. /\ st.at # "catch" /\ u.at # "catch" /\ Rising(u.past) /\ Rising(u.buf) /\ u.tx = st.tx /\ u.lag = st.lag
       /\ u \in Stream /\ q \in Nat
  BY <1>3, <1>4, <1>5, <1>7
<1>. HIDE DEF s
<1>16. /\ Sound(u, log[s], q, base[s]) /\ q > Since(s) /\ q <= Len(log[s])
       /\ \A k \in Keeps(log[s]) : k <= Later(Since(s), base[s]) \/ k >= q
  BY <1>1, <1>2, <1>9, <1>13, <1>14, <1>15, Given
<1>. QED
  BY <1>6, <1>7, <1>8, <1>15, <1>16 DEF Gives, s, q

LEMMA LiveGiven ==
  ASSUME TreeInv, NEW st \in streams, st.at \in {"try", "recv"}, st.buf # <<>>
  PROVE  Gives(st, Head(st.buf), LiveRest(st))
<1>. DEFINE s == st.session
            buf == Tail(st.buf)
            u == [st EXCEPT !.buf = buf, !.at = "try"]
            q == Head(st.buf)
<1>1. /\ st \in Stream /\ s \in Sessions /\ Formed(st) /\ Sound(st, log[s], Since(s), base[s])
  BY StreamIs
<1>2. /\ log[s] \in Seq(Kinds) /\ Since(s) \in Nat /\ base[s] \in Nat
  BY <1>1, SessionIs
<1>3. st.buf \in Seq(Nat) /\ Rising(st.buf) /\ st.past = <<>> /\ st.past \in Seq(Nat)
  BY <1>1, StreamFields DEF Formed, Sound, InOrder
<1>4. /\ buf \in Seq(Nat) /\ Rising(buf) /\ q \in Nat
      /\ \A i \in DOMAIN buf : q < buf[i]
      /\ \A k \in Nat : (\E i \in DOMAIN st.buf : st.buf[i] = k) <=> k = q \/ (\E i \in DOMAIN buf : buf[i] = k)
  BY <1>3, Taken
<1>6. LiveRest(st) = u
  BY <1>1 DEF LiveRest
<1>. HIDE DEF buf, q
<1>7. /\ u \in Stream /\ u.at = "try" /\ u.past = st.past /\ u.session = st.session /\ u.epoch = st.epoch
      /\ u.buf = buf /\ u.tx = st.tx /\ u.lag = st.lag
  BY <1>1, <1>4 DEF Stream
<1>. HIDE DEF u
<1>8. Formed(u)
  BY <1>3, <1>7 DEF Formed
<1>9. \A k \in Nat : Holds(st, k) <=> k = q \/ Holds(u, k)
  BY <1>3, <1>4, <1>7 DEF Holds
<1>13. \A i \in DOMAIN u.past, j \in DOMAIN u.buf : u.past[i] < u.buf[j]
  BY <1>3, <1>7
<1>14. \A k \in Nat : Holds(u, k) => k > q
  BY <1>3, <1>4, <1>7 DEF Holds
<1>15. /\ st.at # "catch" /\ u.at # "catch" /\ Rising(u.past) /\ Rising(u.buf) /\ u.tx = st.tx /\ u.lag = st.lag
       /\ u \in Stream /\ q \in Nat
  BY <1>3, <1>4, <1>7 DEF Rising
<1>. HIDE DEF s
<1>16. /\ Sound(u, log[s], q, base[s]) /\ q > Since(s) /\ q <= Len(log[s])
       /\ \A k \in Keeps(log[s]) : k <= Later(Since(s), base[s]) \/ k >= q
  BY <1>1, <1>2, <1>9, <1>13, <1>14, <1>15, Given
<1>. QED
  BY <1>6, <1>7, <1>8, <1>15, <1>16 DEF Gives, s, q

LEMMA GivePastKeeps ==
  ASSUME TreeInv, NEW st \in streams, GivePast(st)
  PROVE  TreeInv'
<1>. DEFINE q == Head(st.past)
            u == PastRest(st)
<1>1. todo = <<>> /\ st.at = "past" /\ Forward(st, q, u)
  BY DEF GivePast, Polling, PastRest
<1>2. Gives(st, q, u)
  BY <1>1, PastGiven
<1>. HIDE DEF q, u
<1>. QED
  BY <1>1, <1>2, ForwardKeeps DEF Gives

LEMMA GiveLiveKeeps ==
  ASSUME TreeInv, NEW st \in streams, GiveLive(st)
  PROVE  TreeInv'
<1>. DEFINE q == Head(st.buf)
            u == LiveRest(st)
<1>1. todo = <<>> /\ st.at \in {"try", "recv"} /\ st.buf # <<>> /\ Forward(st, q, u)
  BY DEF GiveLive, Polling, LiveRest
<1>2. Gives(st, q, u)
  BY <1>1, LiveGiven
<1>. HIDE DEF q, u
<1>. QED
  BY <1>1, <1>2, ForwardKeeps DEF Gives

\* Streams taken away, of sessions that go on to be known.
LEMMA FewerStreams ==
  ASSUME TreeInv, todo = <<>>, streams' \subseteq streams, followed' \in [Sessions -> Followed],
         \A x \in Sessions : followed'[x].last = followed[x].last /\ followed'[x].epoch = followed[x].epoch,
         \A x \in Sessions : followed'[x].source = followed[x].source
                               \/ (followed'[x].source = "absent" /\ x # Root
                                     /\ \A st \in streams' : st.session = x => st.at = "over"),
         todo' \in Seq(Tasks), Plain(todo'), over' \in BOOLEAN, over' => life[Root] # "live",
         UNCHANGED <<actors, gateway, epochs, owners, client, faults>>
  PROVE  TreeInv'
<1>1. /\ TypeOK /\ NoRepeats /\ Marked(streams, followed, epochs) /\ Served(streams, followed, life, log, base)
      /\ Reached(followed, log, base, seen) /\ Rooted(streams, followed, life, todo) /\ Owned(owners, log)
  BY DEF TreeInv
<1>2. /\ life' = life /\ log' = log /\ ckpt' = ckpt /\ due' = due /\ news' = news /\ missed' = missed
      /\ seen' = seen /\ base' = base /\ stale' = stale /\ liveOnly' = liveOnly
  BY DEF actors, gateway, client
<1>3. \A st \in streams' : st \in streams /\ st.session \in Sessions
  BY <1>1, StreamFields DEF TypeOK
<1>4. TypeOK'
  BY <1>1, <1>2 DEF TypeOK
<1>5. NoRepeats' /\ EndsWithRoot'
  BY <1>1, <1>2 DEF NoRepeats, EndsWithRoot, Running
<1>6. Marked(streams', followed', epochs')
  <2>1. ASSUME NEW st \in streams', st.at # "over"
        PROVE  st.epoch = followed'[st.session].epoch /\ followed'[st.session].source \in {"live", "replaying"}
    BY <1>1, <1>3, <2>1 DEF Marked
  <2>. QED
    BY <1>1, <1>3, <2>1 DEF Marked
<1>7. Served(streams', followed', life', log', base')
  BY <1>1, <1>2, <1>3 DEF Served
<1>8. Reached(followed', log', base', seen')
  BY <1>1, <1>2 DEF Reached
<1>9. Tasked(todo', streams', followed', liveOnly')
  BY PlainTasked
<1>10. Rooted(streams', followed', life', todo')
  <2>1. followed'[Root].source = "live" /\ followed'[Root].epoch = followed[Root].epoch
    BY <1>1 DEF Rooted, Sessions
  <2>. QED
    BY <1>1, <1>2, <1>3, <2>1 DEF Rooted
<1>. QED
  BY <1>1, <1>2, <1>4, <1>5, <1>6, <1>7, <1>8, <1>9, <1>10 DEF TreeInv

\* ended: the end of a stream is its session's only if no other has replaced it.
LEMMA EndedKeeps ==
  ASSUME TreeInv, NEW st \in streams, Ended(st)
  PROVE  TreeInv'
<1>. DEFINE s == st.session
            absent == [followed EXCEPT ![s].source = "absent"]
            none == <<>>
            t == <<"adopt", s>>
            one == <<t>>
<1>1. todo = none /\ ~over /\ st.at = "over" /\ UNCHANGED <<actors, gateway, epochs, owners, client, faults>>
  BY DEF Ended, Polling
<1>2. /\ st \in Stream /\ s \in Sessions /\ Formed(st)
      /\ followed \in [Sessions -> Followed] /\ Marked(streams, followed, epochs)
      /\ Rooted(streams, followed, life, todo) /\ over \in BOOLEAN
  BY StreamIs DEF TreeInv, TypeOK
<1>3. \/ /\ streams' = streams \ {st} /\ followed' = followed /\ todo' = todo /\ over' = over
      \/ /\ ~Superseded(st) /\ s = Root
         /\ streams' = {} /\ followed' = followed /\ todo' = todo /\ over' = TRUE
      \/ /\ ~Superseded(st) /\ s # Root /\ streams' = streams \ {st} /\ followed' = absent
         /\ over' = over /\ (todo' = one \/ todo' = todo)
  BY DEF Ended
<1>. DEFINE r == [followed[s] EXCEPT !.source = "absent"]
<1>4. r \in Followed /\ r.source = "absent" /\ r.last = followed[s].last /\ r.epoch = followed[s].epoch
  BY <1>2 DEF Followed
<1>5. absent = [followed EXCEPT ![s] = r]
  BY <1>2
<1>. HIDE DEF r, absent
<1>6. absent \in [Sessions -> Followed] /\ absent[s] = r /\ \A x \in Sessions : x # s => absent[x] = followed[x]
  BY <1>2, <1>4, <1>5
<1>7. todo = <<>>
  BY <1>1
<1>8. none \in Seq(Tasks) /\ Plain(none)
  BY EmptySeq DEF Plain
<1>. HIDE DEF none
<1>9. CASE streams' = streams \ {st} /\ followed' = followed /\ todo' = todo /\ over' = over
  <2>1. /\ streams' \subseteq streams /\ todo' \in Seq(Tasks) /\ Plain(todo')
        /\ over' \in BOOLEAN /\ ~over'
    BY <1>1, <1>2, <1>8, <1>9
  <2>. QED
    BY <1>1, <1>2, <1>7, <1>9, <2>1, FewerStreams
<1>10. CASE /\ ~Superseded(st) /\ s = Root
            /\ streams' = {} /\ followed' = followed /\ todo' = todo /\ over' = TRUE
  <2>1. life[Root] # "live"
    <3>1. st.session = Root /\ st.epoch = followed[Root].epoch /\ ~st.tx
      BY <1>1, <1>2, <1>10 DEF Superseded, Formed
    <3>. QED
      BY <1>2, <1>7, <3>1 DEF Rooted
  <2>2. /\ streams' \subseteq streams /\ todo' \in Seq(Tasks) /\ Plain(todo') /\ over' \in BOOLEAN
    BY <1>1, <1>8, <1>10
  <2>. QED
    BY <1>1, <1>2, <1>7, <1>10, <2>1, <2>2, FewerStreams
<1>11. CASE /\ ~Superseded(st) /\ s # Root /\ streams' = streams \ {st} /\ followed' = absent
            /\ over' = over /\ (todo' = one \/ todo' = todo)
  <2>1. todo' \in Seq(Tasks) /\ Plain(todo')
    <3>1. t \in Tasks /\ t[1] = "adopt"
      BY <1>2, <1>11, TaskIs DEF Sessions
    <3>2. one \in Seq(Tasks) /\ Plain(one)
      <4>. HIDE DEF t
      <4>. QED
        BY <3>1 DEF Plain
    <3>. HIDE DEF one
    <3>. QED
      BY <1>1, <1>8, <1>11, <3>2
  <2>2. \A x \in streams' : x.session = s => x.at = "over"
    BY <1>2, <1>11 DEF Superseded, Marked
  <2>3. \A x \in Sessions : followed'[x].last = followed[x].last /\ followed'[x].epoch = followed[x].epoch
    BY <1>4, <1>6, <1>11
  <2>4. \A x \in Sessions : followed'[x].source = followed[x].source
                              \/ (followed'[x].source = "absent" /\ x # Root
                                    /\ \A y \in streams' : y.session = x => y.at = "over")
    BY <1>4, <1>6, <1>11, <2>2
  <2>5. streams' \subseteq streams /\ followed' \in [Sessions -> Followed] /\ over' \in BOOLEAN /\ ~over'
    BY <1>1, <1>2, <1>6, <1>11
  <2>. HIDE DEF s
  <2>. QED
    BY <1>1, <1>7, <2>1, <2>3, <2>4, <2>5, FewerStreams
<1>. QED
  BY <1>3, <1>9, <1>10, <1>11

-----------------------------------------------------------------------------
(* The invariant. *)

LEMMA FirstLog ==
  ASSUME Init
  PROVE  log \in [Sessions -> Seq(Kinds)] /\ Len(log[Root]) = 1
<1>0. Root \in Sessions
  BY DEF Sessions
<1>. DEFINE one == <<"note">>
            two == <<"note", "opened">>
            none == <<>>
<1>1. one \in Seq(Kinds) /\ two \in Seq(Kinds) /\ none \in Seq(Kinds) /\ Len(one) = 1
  BY DEF Kinds
<1>2. log = [s \in Sessions |->
               CASE s = Root -> one
                 [] life[s] = "unborn" -> none
                 [] life[s] = "stored" /\ "opened" \in Sayings -> two
                 [] OTHER -> one]
  BY DEF Init
<1>. HIDE DEF one, two, none
<1>3. \A s \in Sessions : log[s] \in {one, two, none}
  <2>. TAKE s \in Sessions
  <2>1. log[s] = CASE s = Root -> one
                   [] life[s] = "unborn" -> none
                   [] life[s] = "stored" /\ "opened" \in Sayings -> two
                   [] OTHER -> one
    BY <1>2
  <2>. QED
    BY <2>1
<1>4. ASSUME life[Root] = "live" PROVE log[Root] = one
  BY <1>0, <1>2, <1>4
<1>5. life[Root] = "live"
  BY DEF Init
<1>. QED
  BY <1>1, <1>2, <1>3, <1>4, <1>5 DEF one

LEMMA TreeInit == Init => TreeInv
<1>. SUFFICES ASSUME Init PROVE TreeInv
  OBVIOUS
<1>0. Root \in Sessions
  BY DEF Sessions
<1>1. log \in [Sessions -> Seq(Kinds)] /\ Len(log[Root]) = 1
  BY FirstLog
<1>2. ckpt \in [Sessions -> Nat] /\ ckpt[Root] = 0
  BY <1>0 DEF Init
<1>3. life \in [Sessions -> Lives] /\ life[Root] = "live"
  BY DEF Init, Lives
<1>4. /\ followed \in [Sessions -> Followed] /\ followed[Root].source = "live" /\ followed[Root].epoch = 1
      /\ \A s \in Sessions : followed[s].last = 0
      /\ \A s \in Sessions : s # Root => followed[s].source = "unknown"
  <2>. DEFINE r == [last |-> 0, source |-> "live", epoch |-> 1]
  <2>1. r \in Followed /\ r.source = "live" /\ r.epoch = 1 /\ r.last = 0
    BY DEF Followed
  <2>2. Unknown \in Followed /\ Unknown.source = "unknown" /\ Unknown.last = 0
    BY DEF Followed, Unknown
  <2>3. followed = [s \in Sessions |-> IF s = Root THEN r ELSE Unknown]
    BY DEF Init
  <2>. HIDE DEF r
  <2>. QED
    BY <1>0, <2>1, <2>2, <2>3
<1>5. /\ base \in [Sessions -> Nat] /\ base[Root] = 1 /\ seen = base
      /\ \A s \in Sessions : s # Root => base[s] = 0
  BY <1>0 DEF Init
<1>. DEFINE u == Subscribe(Root, 1, 1)
<1>6. /\ u \in Stream /\ Formed(u) /\ u.session = Root /\ u.epoch = 1 /\ u.tx /\ u.at # "over"
      /\ Sound(u, log[Root], 1, 1)
  <2>1. log[Root] \in Seq(Kinds) /\ ckpt[Root] \in Nat /\ 1 <= Len(log[Root])
    BY <1>0, <1>1, <1>2
  <2>2. ASSUME NEW n \in Nat, n <= Len(log[Root]), NEW v, v = Subscribe(Root, n, n)
        PROVE  /\ v \in Stream /\ Formed(v) /\ v.session = Root /\ v.epoch = n /\ v.tx /\ v.at # "over"
               /\ Sound(v, log[Root], n, n)
    <3>1. log[Root] \in Seq(Kinds) /\ ckpt[Root] \in Nat
      BY <2>1
    <3>. QED
      BY <1>0, <2>2, <3>1, SubscribeIs
  <2>. QED
    BY <2>1, <2>2
<1>7. u.at # "catch"
  <2>. DEFINE past == Ascending({q \in Kept(Root) : q > ckpt[Root] /\ q > 1}, Len(log[Root]))
              v(tx) == Past(Root, 1, past, tx)
  <2>1. u = v(TRUE)
    BY <1>2 DEF Subscribe
  <2>2. past \in Seq(Nat)
    BY <1>1, AscendingIs
  <2>. HIDE DEF past
  <2>3. \A tx \in BOOLEAN : v(tx).at \in {"try", "past"}
    BY <1>0, <2>2, PastIs
  <2>. HIDE DEF v, u
  <2>. QED
    BY <2>1, <2>3
<1>8. streams = {u} /\ epochs = 1 /\ todo = AdoptAll /\ stale = {} /\ owners = {} /\ ~over
  BY DEF Init
<1>. HIDE DEF u
<1>9. Sound(u, log[Root], 0, 1)
  <2>1. InOrder(u, log[Root], 0)
    BY <1>6, <1>7 DEF Sound, InOrder, Lowest
  <2>2. Whole(u, log[Root], 0, 1)
    BY <1>6, <1>7 DEF Sound, Whole, Owed, Later
  <2>. QED
    BY <1>7, <2>1, <2>2 DEF Sound
<1>10. todo \in Seq(Tasks) /\ Tasked(todo, streams, followed, liveOnly)
  BY <1>8, AdoptAllIs, PlainTasked
<1>11. TypeOK
  <2>1. due \subseteq Children /\ news \in Seq(Children) /\ missed \in BOOLEAN
    BY EmptySeq DEF Init
  <2>2. over \in BOOLEAN /\ liveOnly \in BOOLEAN /\ faults \in Nat
    BY DEF Init
  <2>3. streams \subseteq Stream /\ epochs \in Nat /\ stale \subseteq Sessions \X Nat
    BY <1>6, <1>8
  <2>4. \A o \in owners : o[2] <= seen[o[1]] /\ log[o[1]][o[2]] = "opened"
    BY <1>8
  <2>. QED
    BY <1>1, <1>2, <1>3, <1>4, <1>5, <1>10, <2>1, <2>2, <2>3, <2>4 DEF TypeOK
<1>12. NoRepeats /\ EndsWithRoot
  BY <1>8 DEF NoRepeats, EndsWithRoot
<1>13. Marked(streams, followed, epochs)
  BY <1>4, <1>6, <1>8 DEF Marked
<1>14. Served(streams, followed, life, log, base)
  BY <1>0, <1>3, <1>4, <1>5, <1>6, <1>8, <1>9 DEF Served
<1>15. Reached(followed, log, base, seen)
  <2>1. \A s \in Sessions : Len(log[s]) \in Nat
    BY <1>1, LenProperties
  <2>. QED
    BY <1>4, <1>5, <2>1 DEF Reached, Later
<1>16. Rooted(streams, followed, life, todo)
  BY <1>4, <1>6, <1>8 DEF Rooted
<1>17. Owned(owners, log)
  BY <1>8 DEF Owned
<1>. QED
  BY <1>10, <1>11, <1>12, <1>13, <1>14, <1>15, <1>16, <1>17 DEF TreeInv

LEMMA TreeStays ==
  ASSUME TreeInv, UNCHANGED vars
  PROVE  TreeInv'
<1>. USE DEF vars
<1>1. NoRepeats' /\ EndsWithRoot'
  BY DEF TreeInv, NoRepeats, EndsWithRoot, Running
<1>2. TypeOK'
  BY DEF TreeInv, TypeOK
<1>. QED
  BY <1>1, <1>2 DEF TreeInv

LEMMA TreeStep == TreeInv /\ [Next]_vars => TreeInv'
<1>. SUFFICES ASSUME TreeInv, [Next]_vars PROVE TreeInv'
  OBVIOUS
<1>1. CASE Sessioning
  <2>1. ASSUME NEW s \in Sessions, NEW k \in Sayings, Publish(s, k) PROVE TreeInv'
    BY <1>1, <2>1, PublishKeeps DEF Sessioning
  <2>2. ASSUME NEW s \in Sessions, Checkpointed(s) PROVE TreeInv'
    BY <1>1, <2>2, CheckpointedKeeps DEF Sessioning
  <2>3. ASSUME NEW s \in Sessions, Close(s) PROVE TreeInv'
    BY <1>1, <2>3, CloseKeeps DEF Sessioning
  <2>4. ASSUME NEW s \in Sessions, StorageFailed(s) PROVE TreeInv'
    BY <1>1, <2>4, StorageFailedKeeps DEF Sessioning
  <2>5. ASSUME NEW s \in Children, Open(s) PROVE TreeInv'
    BY <1>1, <2>5, OpenKeeps DEF Sessioning
  <2>6. ASSUME NEW s \in Children, Announce(s) PROVE TreeInv'
    BY <1>1, <2>6, AnnounceKeeps DEF Sessioning
  <2>. QED
    BY <1>1, <2>1, <2>2, <2>3, <2>4, <2>5, <2>6 DEF Sessioning
<1>2. CASE Poll
  <2>1. PICK st \in streams : \/ CatchUp(st) \/ GivePast(st) \/ GiveLive(st) \/ Disconnected(st)
                              \/ FoundEmpty(st) \/ LookForLag(st) \/ Ended(st)
    BY <1>2 DEF Poll
  <2>. QED
    BY <2>1, CatchUpKeeps, GivePastKeeps, GiveLiveKeeps, DisconnectedKeeps, FoundEmptyKeeps,
       LookForLagKeeps, EndedKeeps
<1>3. CASE Work
  BY <1>3, ListLiveKeeps, ListStoredKeeps, AdoptKeeps, JoinKeeps, JoinTailKeeps, ReplayKeeps, HealKeeps,
     HearNewsKeeps DEF Work
<1>4. CASE UNCHANGED vars
  BY <1>4, TreeStays
<1>5. Quiet => UNCHANGED vars
  BY DEF Quiet
<1>. QED
  BY <1>1, <1>2, <1>3, <1>4, <1>5 DEF Next

\* The streams, the forwarder and the client keep the invariant, for any tree of
\* sessions, any capacity of a subscriber's buffer and any number of frames.
THEOREM TreeInduction == Spec => []TreeInv
<1>1. Init => TreeInv
  BY TreeInit
<1>2. TreeInv /\ [Next]_vars => TreeInv'
  BY TreeStep
<1>. QED
  BY <1>1, <1>2, PTL DEF Spec

\* The attachment to a tree is well typed: an owner it knows is of a question the
\* client has seen.
THEOREM TreeTypes == Spec => []TypeOK
<1>1. TreeInv => TypeOK
  BY DEF TreeInv
<1>. QED
  BY <1>1, TreeInduction, PTL

\* A heal, a replay and a catch-up resume after the last frame forwarded: no client
\* gets a frame twice that its snapshot did not cover.
THEOREM NothingTwice == Spec => []NoRepeats
<1>1. TreeInv => NoRepeats
  BY DEF TreeInv
<1>. QED
  BY <1>1, TreeInduction, PTL

\* The forwarder returns only when the root has stopped, whatever streams of the
\* root were replaced before.
THEOREM OnlyRootEnds == Spec => []EndsWithRoot
<1>1. TreeInv => EndsWithRoot
  BY DEF TreeInv
<1>. QED
  BY <1>1, TreeInduction, PTL

-----------------------------------------------------------------------------
(* The attachment implements the feed.  A step of a session that publishes   *)
(* is the feed's Publish; a frame forwarded is its Deliver, unless the       *)
(* client's snapshot covers it; joining at the tail is its Join; and every   *)
(* other step, the lags, heals, replays and catch-ups included, is one that  *)
(* the feed does not notice.                                                 *)

LEMMA FeedStays ==
  ASSUME log' = log, liveOnly' = liveOnly,
         \A s \in Sessions : Later(seen'[s], base'[s]) = Later(seen[s], base[s])
  PROVE  UNCHANGED Feed!vars
<1>1. [s \in Sessions |-> Later(seen'[s], base'[s])] = [s \in Sessions |-> Later(seen[s], base[s])]
  OBVIOUS
<1>2. \A s : Kept(s)' = Kept(s)
  BY DEF Kept
<1>. QED
  BY <1>1, <1>2 DEF Feed!vars

LEMMA FeedPublish ==
  ASSUME log \in [Sessions -> Seq(Kinds)], log' \in [Sessions -> Seq(Kinds)], NEW s \in Sessions,
         Len(log'[s]) > Len(log[s]), \A x \in Sessions : x # s => log'[x] = log[x],
         \A q \in DOMAIN log[s] : q \in DOMAIN log'[s] /\ log'[s][q] = log[s][q],
         UNCHANGED client
  PROVE  Feed!Publish(s)
<1>. DEFINE H(l) == [x \in Sessions |-> Len(l[x])]
            K(l) == [x \in Sessions |-> Keeps(l[x])]
            A == [x \in Sessions |-> Later(seen[x], base[x])]
<1>1. \A x : Kept(x) = Keeps(log[x]) /\ Kept(x)' = Keeps(log'[x])
  BY DEF Kept, Keeps
<1>2. H(log') = [H(log) EXCEPT ![s] = Len(log'[s])] /\ K(log') = [K(log) EXCEPT ![s] = Keeps(log'[s])]
  OBVIOUS
<1>3. /\ Len(log[s]) \in Nat /\ Len(log'[s]) \in Nat
      /\ DOMAIN log[s] = 1..Len(log[s]) /\ DOMAIN log'[s] = 1..Len(log'[s])
  BY LenProperties
<1>4. Keeps(log[s]) \subseteq Keeps(log'[s])
  BY DEF Keeps
<1>5. Keeps(log'[s]) \ Keeps(log[s]) \subseteq Len(log[s]) + 1 .. Len(log'[s])
  <2>. SUFFICES ASSUME NEW q \in Keeps(log'[s]), q \notin Keeps(log[s]) PROVE q \in Len(log[s]) + 1 .. Len(log'[s])
    OBVIOUS
  <2>1. q \in 1..Len(log'[s]) /\ Durable(log'[s][q])
    BY <1>3 DEF Keeps
  <2>2. q \notin DOMAIN log[s]
    BY <2>1 DEF Keeps
  <2>. QED
    BY <1>3, <2>1, <2>2
<1>6. seen' = seen /\ base' = base /\ liveOnly' = liveOnly
  BY DEF client
<1>. QED
  BY <1>1, <1>2, <1>3, <1>4, <1>5, <1>6 DEF Feed!Publish

LEMMA FeedDeliver ==
  ASSUME TreeInv, NEW s \in Sessions, NEW q \in Nat, q <= Len(log[s]), q > Later(seen[s], base[s]),
         \A k \in Keeps(log[s]) : k <= Later(seen[s], base[s]) \/ k >= q,
         seen' = [seen EXCEPT ![s] = q], base' = base, log' = log, liveOnly' = liveOnly
  PROVE  Feed!Deliver(s, q) /\ q \in 1..Len(log[s])
<1>. DEFINE A == [x \in Sessions |-> Later(seen[x], base[x])]
            B == [x \in Sessions |-> Later(seen'[x], base'[x])]
<1>1. \A x : Kept(x) = Keeps(log[x]) /\ Kept(x)' = Keeps(log[x])
  BY DEF Kept, Keeps
<1>2. seen \in [Sessions -> Nat] /\ base \in [Sessions -> Nat] /\ Len(log[s]) \in Nat
  BY SessionIs DEF TreeInv, TypeOK
<1>3. Later(q, base[s]) = q /\ A[s] \in Nat /\ q > A[s]
  BY <1>2 DEF Later
<1>4. B = [A EXCEPT ![s] = q]
  <2>1. \A x \in Sessions : B[x] = IF x = s THEN q ELSE A[x]
    BY <1>2, <1>3
  <2>. QED
    BY <2>1
<1>5. q \in A[s] + 1 .. Len(log[s]) /\ q \in 1..Len(log[s])
  BY <1>2, <1>3
<1>6. \A k \in Keeps(log[s]) : k <= A[s] \/ k >= q
  OBVIOUS
<1>7. [x \in Sessions |-> Len(log[x])][s] = Len(log[s]) /\ [x \in Sessions |-> Kept(x)][s] = Keeps(log[s])
  BY <1>1
<1>. HIDE DEF A, B
<1>8. Feed!Deliver(s, q)
  BY <1>1, <1>4, <1>5, <1>6, <1>7 DEF Feed!Deliver, A, B
<1>. QED
  BY <1>5, <1>8

LEMMA FeedJoin ==
  ASSUME TreeInv, NEW s \in Sessions, liveOnly, seen[s] = 0, base[s] = 0,
         base' = [base EXCEPT ![s] = Len(log[s])], seen' = seen, log' = log, liveOnly' = liveOnly
  PROVE  Feed!Join(s)
<1>. DEFINE A == [x \in Sessions |-> Later(seen[x], base[x])]
            B == [x \in Sessions |-> Later(seen'[x], base'[x])]
<1>1. \A x : Kept(x)' = Kept(x)
  BY DEF Kept
<1>2. seen \in [Sessions -> Nat] /\ base \in [Sessions -> Nat] /\ Len(log[s]) \in Nat
  BY SessionIs DEF TreeInv, TypeOK
<1>3. Later(0, Len(log[s])) = Len(log[s]) /\ A[s] = 0
  BY <1>2 DEF Later
<1>4. B = [A EXCEPT ![s] = Len(log[s])]
  <2>1. \A x \in Sessions : B[x] = IF x = s THEN Len(log[s]) ELSE A[x]
    BY <1>2, <1>3
  <2>. QED
    BY <2>1
<1>. HIDE DEF A, B
<1>. QED
  BY <1>1, <1>3, <1>4 DEF Feed!Join, A, B

LEMMA FeedInit == Init => Feed!Init
<1>. SUFFICES ASSUME Init PROVE Feed!Init
  OBVIOUS
<1>1. log \in [Sessions -> Seq(Kinds)] /\ Len(log[Root]) = 1
  BY FirstLog
<1>2. base = [s \in Sessions |-> IF s = Root THEN 1 ELSE 0] /\ seen = base /\ liveOnly \in BOOLEAN
  BY DEF Init
<1>3. \A s \in Sessions : /\ Len(log[s]) \in Nat /\ Kept(s) \in SUBSET Nat
                          /\ \A q \in Kept(s) : q <= Len(log[s])
  BY <1>1, LenProperties DEF Kept
<1>4. \A s \in Sessions : Later(seen[s], base[s]) \in Nat /\ Later(seen[s], base[s]) <= Len(log[s])
  <2>. TAKE s \in Sessions
  <2>1. Later(seen[s], base[s]) = IF s = Root THEN 1 ELSE 0
    BY <1>2 DEF Later
  <2>2. CASE s = Root
    <3>1. Later(seen[s], base[s]) = 1 /\ Len(log[s]) = 1
      BY <1>1, <2>1, <2>2
    <3>. QED
      BY <3>1
  <2>3. CASE s # Root
    BY <1>3, <2>1, <2>3
  <2>. QED
    BY <2>2, <2>3
<1>. QED
  BY <1>2, <1>3, <1>4 DEF Feed!Init

\* A session that says something publishes it.
LEMMA SaysMore ==
  ASSUME TreeInv, NEW s \in Sessions, NEW k \in Kinds, NEW k2 \in Kinds, Say(s, <<k>>) \/ Say(s, <<k, k2>>),
         UNCHANGED client
  PROVE  Feed!Next
<1>1. log \in [Sessions -> Seq(Kinds)]
  BY DEF TreeInv, TypeOK
<1>. DEFINE one == Grown(log, s, k)
            two == Grown(one, s, k2)
<1>2. log' = one \/ log' = two
  BY <1>1, SayIs
<1>3. /\ one \in [Sessions -> Seq(Kinds)] /\ Len(log[s]) \in Nat /\ Len(one[s]) = Len(log[s]) + 1
      /\ \A x \in Sessions : x # s => one[x] = log[x]
      /\ \A q \in DOMAIN log[s] : q \in DOMAIN one[s] /\ one[s][q] = log[s][q]
  BY <1>1, GrownIs
<1>. HIDE DEF one
<1>4. /\ two \in [Sessions -> Seq(Kinds)] /\ Len(two[s]) = Len(one[s]) + 1
      /\ \A x \in Sessions : x # s => two[x] = one[x]
      /\ \A q \in DOMAIN one[s] : q \in DOMAIN two[s] /\ two[s][q] = one[s][q]
  <2>1. one \in [Sessions -> Seq(Kinds)]
    BY <1>3
  <2>. QED
    BY <2>1, GrownIs
<1>. HIDE DEF two
<1>5. /\ log' \in [Sessions -> Seq(Kinds)] /\ Len(log'[s]) > Len(log[s])
      /\ \A x \in Sessions : x # s => log'[x] = log[x]
      /\ \A q \in DOMAIN log[s] : q \in DOMAIN log'[s] /\ log'[s][q] = log[s][q]
  <2>1. CASE log' = one
    BY <1>3, <2>1
  <2>2. CASE log' = two
    BY <1>3, <1>4, <2>2
  <2>. QED
    BY <1>2, <2>1, <2>2
<1>6. Feed!Publish(s)
  BY <1>1, <1>5, FeedPublish
<1>. QED
  BY <1>6 DEF Feed!Next

\* A frame forwarded is new to the client, or one that its snapshot covers.
LEMMA ForwardDelivers ==
  ASSUME TreeInv, NEW st \in streams, NEW q, NEW u, Gives(st, q, u), Forward(st, q, u)
  PROVE  [Feed!Next]_Feed!vars
<1>. DEFINE s == st.session
<1>1. /\ Apply(s, q) /\ base' = base /\ liveOnly' = liveOnly /\ log' = log
  BY DEF Forward, actors
<1>2. s \in Sessions
  BY StreamIs
<1>3. /\ Len(log[s]) \in Nat /\ base[s] \in Nat /\ seen[s] \in Nat /\ Since(s) \in Nat
      /\ Later(seen[s], base[s]) = Later(Since(s), base[s])
  BY <1>2, SessionIs
<1>4. /\ q \in Nat /\ q > Since(s) /\ q <= Len(log[s])
      /\ \A k \in Keeps(log[s]) : k <= Later(Since(s), base[s]) \/ k >= q
  BY DEF Gives
<1>. HIDE DEF s
<1>5. CASE q > base[s]
  <2>1. q > Later(seen[s], base[s]) /\ ~(q <= seen[s])
    BY <1>3, <1>4, <1>5 DEF Later
  <2>2. seen' = [seen EXCEPT ![s] = q]
    BY <1>1, <2>1 DEF Apply
  <2>3. \A k \in Keeps(log[s]) : k <= Later(seen[s], base[s]) \/ k >= q
    BY <1>3, <1>4
  <2>4. Feed!Deliver(s, q) /\ q \in 1..Len(log[s])
    BY <1>1, <1>2, <1>4, <2>1, <2>2, <2>3, FeedDeliver
  <2>5. [x \in Sessions |-> Len(log[x])][s] = Len(log[s])
    BY <1>2
  <2>. QED
    BY <1>2, <2>4, <2>5 DEF Feed!Next
<1>6. CASE ~(q > base[s])
  <2>1. seen \in [Sessions -> Nat]
    BY DEF TreeInv, TypeOK
  <2>2. seen' = seen \/ (seen' = [seen EXCEPT ![s] = q] /\ q > seen[s])
    BY <1>1, <1>3, <1>4 DEF Apply
  <2>3. q <= base[s] /\ seen[s] <= base[s]
    BY <1>3, <1>4, <1>6 DEF Later
  <2>4. Later(q, base[s]) = base[s] /\ Later(seen[s], base[s]) = base[s]
    BY <1>3, <1>4, <2>3 DEF Later
  <2>5. \A x \in Sessions : Later(seen'[x], base'[x]) = Later(seen[x], base[x])
    <3>1. CASE seen' = seen
      BY <1>1, <3>1
    <3>2. CASE seen' = [seen EXCEPT ![s] = q]
      <4>. TAKE x \in Sessions
      <4>1. CASE x = s
        BY <1>1, <1>2, <2>1, <2>4, <3>2, <4>1
      <4>2. CASE x # s
        BY <1>1, <2>1, <3>2, <4>2
      <4>. QED
        BY <4>1, <4>2
    <3>. QED
      BY <2>2, <3>1, <3>2
  <2>. QED
    BY <1>1, <2>5, FeedStays
<1>. QED
  BY <1>5, <1>6

\* adopt at the tail: the client joins where the session is.
LEMMA JoinTailJoins ==
  ASSUME TreeInv, JoinTail
  PROVE  [Feed!Next]_Feed!vars
<1>. DEFINE s == todo[1][2]
<1>1. Task("tail") /\ log' = log /\ seen' = seen /\ liveOnly' = liveOnly
  BY DEF JoinTail, actors
<1>2. todo[1] \in Tasks /\ todo[1][1] = "tail" /\ Begun(todo[1], streams, followed, liveOnly)
  BY <1>1, UnderWay
<1>3. s \in Sessions /\ followed[s].source = "unknown" /\ liveOnly
  BY <1>2, TaskIs DEF Sessions, Begun
<1>4. base' = base \/ base' = [base EXCEPT ![s] = Len(log[s])]
  BY DEF JoinTail
<1>. HIDE DEF s
<1>5. seen[s] = 0 /\ base[s] = 0
  BY <1>3, SessionIs
<1>6. CASE base' = base
  BY <1>1, <1>6, FeedStays
<1>7. CASE base' = [base EXCEPT ![s] = Len(log[s])]
  BY <1>1, <1>3, <1>5, <1>7, FeedJoin DEF Feed!Next
<1>. QED
  BY <1>4, <1>6, <1>7

LEMMA FeedStep == TreeInv /\ [Next]_vars => [Feed!Next]_Feed!vars
<1>. SUFFICES ASSUME TreeInv, [Next]_vars PROVE [Feed!Next]_Feed!vars
  OBVIOUS
<1>0. {"note", "resolved", "closed", "lost", "end"} \subseteq Kinds
  BY DEF Kinds
<1>1. ASSUME log' = log, UNCHANGED client PROVE UNCHANGED Feed!vars
  BY <1>1, FeedStays DEF client
<1>2. CASE Sessioning
  <2>1. ASSUME NEW s \in Sessions, NEW k \in Sayings, Publish(s, k) PROVE Feed!Next
    <3>1. Say(s, <<k>>) /\ UNCHANGED client /\ k \in Kinds
      BY <2>1, SayingsAreKinds DEF Publish
    <3>. QED
      BY <3>1, SaysMore
  <2>2. ASSUME NEW s \in Sessions, Checkpointed(s) PROVE UNCHANGED Feed!vars
    BY <1>1, <2>2 DEF Checkpointed
  <2>3. ASSUME NEW s \in Sessions, Close(s) PROVE Feed!Next
    <3>1. (Say(s, <<"closed">>) \/ Say(s, <<"resolved", "closed">>)) /\ UNCHANGED client
      BY <2>3 DEF Close
    <3>. QED
      BY <1>0, <3>1, SaysMore
  <2>4. ASSUME NEW s \in Sessions, StorageFailed(s) PROVE Feed!Next
    <3>1. Say(s, <<"lost", "end">>) /\ UNCHANGED client
      BY <2>4 DEF StorageFailed
    <3>. QED
      BY <1>0, <3>1, SaysMore
  <2>5. ASSUME NEW s \in Children, Open(s) PROVE Feed!Next
    <3>1. (Say(s, <<"note">>) \/ Say(s, <<"note", "resolved">>)) /\ UNCHANGED client
      BY <2>5 DEF Open
    <3>2. s \in Sessions
      BY DEF Sessions
    <3>. QED
      BY <1>0, <3>1, <3>2, SaysMore
  <2>6. ASSUME NEW s \in Children, Announce(s) PROVE UNCHANGED Feed!vars
    BY <1>1, <2>6 DEF Announce
  <2>. QED
    BY <1>2, <2>1, <2>2, <2>3, <2>4, <2>5, <2>6 DEF Sessioning
<1>3. CASE Poll
  <2>1. PICK st \in streams : \/ CatchUp(st) \/ GivePast(st) \/ GiveLive(st) \/ Disconnected(st)
                              \/ FoundEmpty(st) \/ LookForLag(st) \/ Ended(st)
    BY <1>3 DEF Poll
  <2>2. CASE GivePast(st)
    <3>1. st.at = "past" /\ Forward(st, Head(st.past), PastRest(st))
      BY <2>2 DEF GivePast, PastRest
    <3>. QED
      BY <3>1, PastGiven, ForwardDelivers
  <2>3. CASE GiveLive(st)
    <3>1. st.at \in {"try", "recv"} /\ st.buf # <<>> /\ Forward(st, Head(st.buf), LiveRest(st))
      BY <2>3 DEF GiveLive, LiveRest
    <3>. QED
      BY <3>1, LiveGiven, ForwardDelivers
  <2>4. CASE CatchUp(st) \/ Disconnected(st) \/ FoundEmpty(st) \/ LookForLag(st) \/ Ended(st)
    <3>1. log' = log /\ UNCHANGED client
      BY <2>4 DEF CatchUp, Disconnected, FoundEmpty, LookForLag, Ended, actors
    <3>. QED
      BY <1>1, <3>1
  <2>. QED
    BY <2>1, <2>2, <2>3, <2>4
<1>4. CASE Work
  <2>1. CASE JoinTail
    BY <2>1, JoinTailJoins
  <2>2. CASE ListLive \/ ListStored \/ Adopt \/ Join \/ Replay \/ Heal \/ HearNews
    <3>1. log' = log /\ UNCHANGED client
      BY <2>2 DEF ListLive, ListStored, Adopt, Join, Replay, Heal, HearNews, actors
    <3>. QED
      BY <1>1, <3>1
  <2>. QED
    BY <1>4, <2>1, <2>2 DEF Work
<1>5. CASE UNCHANGED vars
  <2>1. log' = log /\ UNCHANGED client
    BY <1>5 DEF vars, client
  <2>. QED
    BY <1>1, <2>1
<1>6. Quiet => UNCHANGED vars
  BY DEF Quiet
<1>. QED
  BY <1>2, <1>3, <1>4, <1>5, <1>6 DEF Next

\* The tree attachment implements the feed, for any tree of sessions, any capacity
\* and any number of frames: no journalled frame of a session that a client follows
\* is passed over or comes out of order.
THEOREM FeedImplemented == Spec => ImplementsFeed
<1>1. Init => Feed!Init
  BY FeedInit
<1>2. TreeInv /\ [Next]_vars => [Feed!Next]_Feed!vars
  BY FeedStep
<1>. QED
  BY <1>1, <1>2, TreeInduction, PTL DEF Spec, ImplementsFeed, Feed!Spec
=============================================================================
