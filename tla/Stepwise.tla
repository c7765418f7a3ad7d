------------------------------ MODULE Stepwise ------------------------------
(***************************************************************************)
(* Facts about numbers and sequences that the proofs of several components *)
(* share: induction stated with a set, so that the provers can apply it,   *)
(* the existence of a function that is defined step by step, and what a    *)
(* map over a sequence is.                                                 *)
(***************************************************************************)
EXTENDS Naturals, Sequences, WellFoundedInduction, SequenceTheorems, TLAPS

\* A set that has 0 and the successor of each of its numbers has them all.
LEMMA Upward ==
  ASSUME NEW P, 0 \in P, \A n \in Nat : n \in P => n + 1 \in P
  PROVE  Nat \subseteq P
<1>. SUFFICES ASSUME NEW m \in Nat, m \notin P PROVE FALSE
  OBVIOUS
<1>. DEFINE T == Nat \ P
<1>1. T \subseteq Nat /\ T # {}
  OBVIOUS
<1>2. PICK n \in T : \A k \in T : ~(<<k, n>> \in OpToRel(<, Nat))
  BY <1>1, WFMin, NatLessThanWellFounded, Zenon
<1>3. \A k \in T : ~(k < n)
  BY <1>1, <1>2, Zenon DEF OpToRel
<1>4. n # 0 /\ n - 1 \in Nat /\ n - 1 < n /\ (n - 1) + 1 = n
  BY <1>1
<1>5. n - 1 \notin T
  BY <1>3, <1>4
<1>. QED
  BY <1>4, <1>5

\* The same up to a bound.
LEMMA UpTo ==
  ASSUME NEW n \in Nat, NEW P, 0 \in P, \A k \in 1..n : k - 1 \in P => k \in P
  PROVE  0..n \subseteq P
<1>. DEFINE Q == {k \in Nat : k <= n => k \in P}
<1>1. 0 \in Q
  OBVIOUS
<1>2. ASSUME NEW k \in Nat, k \in Q PROVE k + 1 \in Q
  <2>1. CASE k + 1 <= n
    <3>1. k + 1 \in 1..n /\ (k + 1) - 1 = k /\ k \in P
      BY <1>2, <2>1
    <3>. QED
      BY <3>1
  <2>2. CASE ~(k + 1 <= n)
    BY <2>2
  <2>. QED
    BY <2>1, <2>2
<1>3. Nat \subseteq Q
  <2>. HIDE DEF Q
  <2>. QED
    BY <1>1, <1>2, Upward
<1>. QED
  BY <1>3

\* f starts with base and goes on from each number to the next by step.
Iterated(f, T, base, step, n) ==
  f \in [0..n -> T] /\ f[0] = base /\ \A k \in 1..n : f[k] = step[k][f[k - 1]]

\* A function whose value at 0 is given, and at each number by its value at
\* the one before, exists.
LEMMA Iterates ==
  ASSUME NEW T, NEW base \in T, NEW step \in [Nat -> [T -> T]], NEW n \in Nat
  PROVE  \E f : Iterated(f, T, base, step, n)
<1>. DEFINE Is(f, m) == f[0] = base /\ \A k \in 1..m : f[k] = step[k][f[k - 1]]
            P == {m \in Nat : \E f \in [0..m -> T] : Is(f, m)}
<1>1. 0 \in P
  <2>1. [k \in 0..0 |-> base] \in [0..0 -> T] /\ Is([k \in 0..0 |-> base], 0)
    OBVIOUS
  <2>. QED
    BY <2>1
<1>2. ASSUME NEW m \in Nat, m \in P PROVE m + 1 \in P
  <2>1. PICK f \in [0..m -> T] : Is(f, m)
    BY <1>2
  <2>. DEFINE g == [k \in 0..(m + 1) |-> IF k = m + 1 THEN step[m + 1][f[m]] ELSE f[k]]
  <2>2. g \in [0..(m + 1) -> T]
    OBVIOUS
  <2>3. Is(g, m + 1)
    <3>1. g[0] = base
      BY <2>1
    <3>2. ASSUME NEW k \in 1..(m + 1) PROVE g[k] = step[k][g[k - 1]]
      <4>1. CASE k = m + 1
        BY <4>1
      <4>2. CASE k # m + 1
        <5>1. /\ k \in 1..m /\ k - 1 \in 0..m
              /\ k \in 0..(m + 1) /\ k - 1 \in 0..(m + 1) /\ k - 1 # m + 1
          BY <4>2
        <5>2. g[k] = f[k] /\ g[k - 1] = f[k - 1]
          BY <5>1
        <5>. QED
          BY <5>1, <5>2, <2>1
      <4>. QED
        BY <4>1, <4>2
    <3>. QED
      BY <3>1, <3>2
  <2>4. \E h \in [0..(m + 1) -> T] : Is(h, m + 1)
    <3>. HIDE DEF g, Is
    <3>. QED
      BY <2>2, <2>3
  <2>5. m + 1 \in Nat
    OBVIOUS
  <2>. QED
    BY <2>4, <2>5, Zenon
<1>3. Nat \subseteq P
  <2>. HIDE DEF P
  <2>. QED
    BY <1>1, <1>2, Upward
<1>4. PICK f \in [0..n -> T] : Is(f, n)
  BY <1>3
<1>5. Iterated(f, T, base, step, n)
  BY <1>4 DEF Iterated
<1>. QED
  BY <1>5, Zenon

\* A sequence with each element changed in its place is a sequence.
LEMMA MappedSeq ==
  ASSUME NEW S, NEW T, NEW s \in Seq(S), NEW t,
         t = [i \in DOMAIN s |-> t[i]], \A i \in DOMAIN s : t[i] \in T
  PROVE  t \in Seq(T) /\ Len(t) = Len(s) /\ DOMAIN t = DOMAIN s
<1>1. Len(s) \in Nat /\ DOMAIN s = 1..Len(s)
  BY LenProperties
<1>2. t \in [1..Len(s) -> T]
  BY <1>1
<1>. QED
  BY <1>1, <1>2
=============================================================================
