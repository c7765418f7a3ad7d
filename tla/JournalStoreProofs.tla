------------------------- MODULE JournalStoreProofs -------------------------
(***************************************************************************)
(* What one session's directory keeps, for any number of processes, frames *)
(* and lines.  The proof has three layers: what the frames of a journal    *)
(* are (FramesTo), what one write can do to a journal (Moved), and         *)
(* StoreInv, which relates what the processes and the checkpoint files     *)
(* hold to the lines on disk.                                              *)
(***************************************************************************)
EXTENDS JournalStore, Stepwise

\* The frame lines of a journal are numbered upward, from 1 or more.
Ordered(lines) ==
  \A k \in DOMAIN lines : lines[k].kind = "frame" =>
    /\ lines[k].frame.seq > 0
    /\ \A j \in 1..(k - 1) : lines[j].kind = "frame" => lines[j].frame.seq < lines[k].frame.seq

-----------------------------------------------------------------------------
(* The frames of a journal.                                                *)

\* FramesTo is what its recursive definition says: no frames of no lines, and
\* line by line the frame a line holds.
LEMMA FramesToIs ==
  ASSUME NEW lines \in Seq(Line)
  PROVE  /\ FramesTo(lines) \in [0..Len(lines) -> Seq(Frame)]
         /\ FramesTo(lines)[0] = <<>>
         /\ \A k \in 1..Len(lines) :
              FramesTo(lines)[k] =
                IF lines[k].kind = "frame" THEN Append(FramesTo(lines)[k - 1], lines[k].frame)
                ELSE FramesTo(lines)[k - 1]
<1>. DEFINE n == Len(lines)
            T == Seq(Frame)
            step == [k \in Nat |-> [t \in T |->
                       IF k \in 1..n /\ lines[k].kind = "frame" THEN Append(t, lines[k].frame) ELSE t]]
            Is(f) == f = [k \in 0..n |-> IF k = 0 THEN <<>>
                                         ELSE IF lines[k].kind = "frame"
                                         THEN Append(f[k - 1], lines[k].frame)
                                         ELSE f[k - 1]]
            g == CHOOSE f : Is(f)
<1>0. n \in Nat
  BY LenProperties
<1>1. \A k \in 1..n : lines[k] \in Line /\ lines[k].frame \in Frame
  <2>1. \A k \in 1..n : lines[k] \in Line
    BY ElementOfSeq
  <2>2. \A l \in Line : l.frame \in Frame
    BY DEF Line
  <2>. QED
    BY <2>1, <2>2
<1>2. FramesTo(lines) = g
  BY DEF FramesTo
<1>3. step \in [Nat -> [T -> T]]
  <2>1. \A k \in 1..n, t \in T : Append(t, lines[k].frame) \in T
    BY <1>1, AppendProperties
  <2>. QED
    BY <2>1
<1>4. <<>> \in T
  BY EmptySeq
<1>5. PICK f \in [0..n -> T] : f[0] = <<>> /\ \A k \in 1..n : f[k] = step[k][f[k - 1]]
  <2>. HIDE DEF n, step, T
  <2>1. \E f : Iterated(f, T, <<>>, step, n)
    BY <1>0, <1>3, <1>4, Iterates
  <2>. QED
    BY <2>1 DEF Iterated
<1>6. ASSUME NEW k \in 1..n
      PROVE  f[k] = IF lines[k].kind = "frame" THEN Append(f[k - 1], lines[k].frame) ELSE f[k - 1]
  <2>. HIDE DEF n, T
  <2>1. k \in Nat /\ k - 1 \in 0..n
    BY <1>0
  <2>2. f[k - 1] \in T /\ f[k] = step[k][f[k - 1]]
    BY <1>5, <2>1
  <2>3. \A t \in T : step[k][t] = IF lines[k].kind = "frame" THEN Append(t, lines[k].frame) ELSE t
    BY <2>1
  <2>. HIDE DEF step
  <2>. QED
    BY <2>2, <2>3
<1>7. Is(f)
  <2>. HIDE DEF n, step, T
  <2>. DEFINE h == [k \in 0..n |-> IF k = 0 THEN <<>>
                                   ELSE IF lines[k].kind = "frame"
                                   THEN Append(f[k - 1], lines[k].frame)
                                   ELSE f[k - 1]]
  <2>1. ASSUME NEW k \in 0..n PROVE f[k] = h[k]
    <3>1. k = 0 \/ k \in 1..n
      BY <1>0
    <3>. QED
      BY <3>1, <1>5, <1>6
  <2>2. f = [k \in 0..n |-> f[k]]
    BY <1>5
  <2>. QED
    BY <2>1, <2>2
<1>8. Is(g)
  <2>. HIDE DEF Is
  <2>. QED
    BY <1>7
<1>. HIDE DEF g
<1>9. /\ g[0] = <<>>
      /\ \A k \in 1..n : g[k] = IF lines[k].kind = "frame"
                                THEN Append(g[k - 1], lines[k].frame) ELSE g[k - 1]
      /\ DOMAIN g = 0..n
  <2>. HIDE DEF n
  <2>1. 0 \in 0..n /\ \A k \in 1..n : k \in 0..n /\ k # 0
    BY <1>0
  <2>. QED
    BY <1>8, <2>1
<1>. DEFINE P == {k \in 0..n : g[k] \in T}
<1>10. 0 \in P
  <2>1. 0 \in 0..n
    BY <1>0
  <2>. HIDE DEF n, T
  <2>. QED
    BY <2>1, <1>4, <1>9
<1>11. ASSUME NEW k \in 1..n, k - 1 \in P PROVE k \in P
  <2>1. k \in 0..n /\ g[k - 1] \in T
    BY <1>0, <1>11
  <2>2. Append(g[k - 1], lines[k].frame) \in T
    BY <1>1, <2>1, AppendProperties
  <2>. QED
    BY <1>9, <2>1, <2>2
<1>12. 0..n \subseteq P
  <2>. HIDE DEF P
  <2>. QED
    BY <1>0, <1>10, <1>11, UpTo
<1>13. g \in [0..n -> T]
  <2>1. g = [k \in 0..n |-> g[k]]
    BY <1>8
  <2>. HIDE DEF n, T
  <2>. QED
    BY <1>12, <2>1
<1>. QED
  BY <1>2, <1>9, <1>13

\* The parts of a line.
LEMMA LineIs ==
  ASSUME NEW lines \in Seq(Line)
  PROVE  /\ Len(lines) \in Nat /\ DOMAIN lines = 1..Len(lines)
         /\ \A k \in 1..Len(lines) :
              /\ lines[k] \in Line /\ lines[k].frame \in Frame
              /\ lines[k].frame.seq \in Nat
<1>1. Len(lines) \in Nat /\ DOMAIN lines = 1..Len(lines)
  BY LenProperties
<1>2. \A k \in 1..Len(lines) : lines[k] \in Line
  BY ElementOfSeq
<1>3. \A l \in Line : l.frame \in Frame
  BY DEF Line
<1>4. \A f \in Frame : f.seq \in Nat
  BY DEF Frame
<1>. QED
  BY <1>1, <1>2, <1>3, <1>4

\* Two journals with the same first lines have the same frames in them.
LEMMA SameFrames ==
  ASSUME NEW lines \in Seq(Line), NEW more \in Seq(Line), NEW n \in Nat,
         n <= Len(lines), n <= Len(more), \A k \in 1..n : lines[k] = more[k]
  PROVE  \A k \in 0..n : FramesTo(lines)[k] = FramesTo(more)[k]
<1>. DEFINE P == {k \in 0..n : FramesTo(lines)[k] = FramesTo(more)[k]}
<1>1. 0 \in P
  BY FramesToIs
<1>2. ASSUME NEW k \in 1..n, k - 1 \in P PROVE k \in P
  <2>1. Len(lines) \in Nat /\ Len(more) \in Nat
    BY LenProperties
  <2>2. k \in 1..Len(lines) /\ k \in 1..Len(more) /\ k \in 0..n
    BY <2>1
  <2>3. FramesTo(lines)[k] =
           IF lines[k].kind = "frame" THEN Append(FramesTo(lines)[k - 1], lines[k].frame)
           ELSE FramesTo(lines)[k - 1]
    BY <2>2, FramesToIs
  <2>4. FramesTo(more)[k] =
           IF more[k].kind = "frame" THEN Append(FramesTo(more)[k - 1], more[k].frame)
           ELSE FramesTo(more)[k - 1]
    BY <2>2, FramesToIs
  <2>. QED
    BY <1>2, <2>2, <2>3, <2>4
<1>3. 0..n \subseteq P
  <2>. HIDE DEF P
  <2>. QED
    BY <1>1, <1>2, UpTo
<1>. QED
  BY <1>3

\* A journal's frames are those up to a line and those of the lines after it.
LEMMA TailFrames ==
  ASSUME NEW lines \in Seq(Line), NEW at \in 0..Len(lines), NEW rest \in Seq(Line),
         Len(rest) = Len(lines) - at, \A j \in 1..Len(rest) : rest[j] = lines[at + j]
  PROVE  FramesTo(lines)[at] \o Framed(rest) = Framed(lines)
<1>. DEFINE m == Len(rest)
            P == {j \in 0..m : FramesTo(lines)[at] \o FramesTo(rest)[j] = FramesTo(lines)[at + j]}
<1>0. m \in Nat /\ Len(lines) \in Nat /\ at \in Nat /\ at + m = Len(lines)
  BY LenProperties
<1>1. FramesTo(lines)[at] \in Seq(Frame)
  BY FramesToIs
<1>2. 0 \in P
  <2>1. FramesTo(rest)[0] = <<>> /\ at + 0 = at /\ 0 \in 0..m
    BY <1>0, FramesToIs
  <2>2. FramesTo(lines)[at] \o <<>> = FramesTo(lines)[at]
    BY <1>1, ConcatEmptySeq
  <2>. QED
    BY <2>1, <2>2
<1>3. ASSUME NEW j \in 1..m, j - 1 \in P PROVE j \in P
  <2>1. /\ j \in 1..Len(rest) /\ at + j \in 1..Len(lines) /\ (at + j) - 1 = at + (j - 1)
        /\ j - 1 \in 0..Len(rest) /\ j \in 0..m
    BY <1>0
  <2>2. FramesTo(rest)[j] = IF rest[j].kind = "frame" THEN Append(FramesTo(rest)[j - 1], rest[j].frame)
                            ELSE FramesTo(rest)[j - 1]
    BY <2>1, FramesToIs
  <2>3. FramesTo(lines)[at + j] =
          IF lines[at + j].kind = "frame"
          THEN Append(FramesTo(lines)[at + (j - 1)], lines[at + j].frame)
          ELSE FramesTo(lines)[at + (j - 1)]
    BY <2>1, FramesToIs
  <2>4. FramesTo(rest)[j - 1] \in Seq(Frame) /\ rest[j].frame \in Frame
    BY <2>1, FramesToIs, LineIs
  <2>5. FramesTo(lines)[at] \o Append(FramesTo(rest)[j - 1], rest[j].frame)
          = Append(FramesTo(lines)[at] \o FramesTo(rest)[j - 1], rest[j].frame)
    <3>1. \A s, t \in Seq(Frame), f \in Frame : s \o Append(t, f) = Append(s \o t, f)
      OBVIOUS
    <3>. QED
      BY <3>1, <1>1, <2>4
  <2>6. FramesTo(lines)[at] \o FramesTo(rest)[j - 1] = FramesTo(lines)[at + (j - 1)]
    BY <1>3
  <2>. QED
    BY <2>1, <2>2, <2>3, <2>5, <2>6
<1>4. 0..m \subseteq P
  <2>. HIDE DEF P, m
  <2>. QED
    BY <1>0, <1>2, <1>3, UpTo
<1>5. m \in P
  <2>. HIDE DEF P, m
  <2>. QED
    BY <1>0, <1>4
<1>. QED
  BY <1>0, <1>5 DEF Framed

\* Every frame line has its place among the frames.
LEMMA EachFrame ==
  ASSUME NEW lines \in Seq(Line)
  PROVE  \A k \in 0..Len(lines) : \A j \in 1..k :
           lines[j].kind = "frame" =>
             \E i \in DOMAIN FramesTo(lines)[k] : FramesTo(lines)[k][i] = lines[j].frame
<1>. DEFINE n == Len(lines)
            In(k) == \A j \in 1..k : lines[j].kind = "frame" =>
                       \E i \in DOMAIN FramesTo(lines)[k] : FramesTo(lines)[k][i] = lines[j].frame
            P == {k \in 0..n : In(k)}
<1>0. n \in Nat
  BY LenProperties
<1>1. 0 \in P
  BY <1>0
<1>2. ASSUME NEW k \in 1..n, k - 1 \in P PROVE k \in P
  <2>. DEFINE s == FramesTo(lines)[k - 1]
              t == FramesTo(lines)[k]
  <2>1. k \in 1..Len(lines) /\ k \in 0..n /\ k - 1 \in 0..n
    BY <1>0
  <2>2. s \in Seq(Frame) /\ lines[k].frame \in Frame
    BY <2>1, FramesToIs, LineIs
  <2>3. t = IF lines[k].kind = "frame" THEN Append(s, lines[k].frame) ELSE s
    BY <2>1, FramesToIs
  <2>4. In(k - 1)
    BY <1>2
  <2>. HIDE DEF s
  <2>5. ASSUME NEW j \in 1..k, lines[j].kind = "frame"
        PROVE  \E i \in DOMAIN t : t[i] = lines[j].frame
    <3>1. CASE j = k
      <4>1. t = Append(s, lines[k].frame)
        BY <2>3, <2>5, <3>1
      <4>2. Len(t) \in DOMAIN t /\ t[Len(t)] = lines[k].frame
        <5>. HIDE DEF t
        <5>1. Len(s) \in Nat
          BY <2>2, LenProperties
        <5>. QED
          BY <2>2, <4>1, <5>1, AppendProperties
      <4>. QED
        BY <3>1, <4>2
    <3>2. CASE j # k
      <4>1. j \in 1..(k - 1)
        BY <1>0, <2>1, <3>2
      <4>2. PICK i \in DOMAIN s : s[i] = lines[j].frame
        BY <2>4, <2>5, <4>1 DEF s
      <4>3. i \in DOMAIN t /\ t[i] = s[i]
        <5>. HIDE DEF t
        <5>1. t = s \/ t = Append(s, lines[k].frame)
          BY <2>3
        <5>2. CASE t = Append(s, lines[k].frame)
          <6>1. Len(s) \in Nat /\ DOMAIN s = 1..Len(s)
            BY <2>2, LenProperties
          <6>2. DOMAIN t = 1..(Len(s) + 1) /\ \A x \in 1..Len(s) : t[x] = s[x]
            BY <2>2, <5>2, <6>1, AppendProperties
          <6>. QED
            BY <6>1, <6>2
        <5>. QED
          BY <5>1, <5>2
      <4>. QED
        BY <4>2, <4>3
    <3>. QED
      BY <3>1, <3>2
  <2>. QED
    BY <2>1, <2>5
<1>3. 0..n \subseteq P
  <2>. HIDE DEF P, n
  <2>. QED
    BY <1>0, <1>1, <1>2, UpTo
<1>. QED
  BY <1>3

\* The frames are numbered upward, and their last number is the number of the
\* last frame line.
LEMMA FrameNumbers ==
  ASSUME NEW lines \in Seq(Line), Ordered(lines)
  PROVE  \A k \in 0..Len(lines) :
           /\ \A i \in 1..(Len(FramesTo(lines)[k]) - 1) :
                FramesTo(lines)[k][i].seq < FramesTo(lines)[k][i + 1].seq
           /\ \A j \in 1..k : lines[j].kind = "frame" =>
                lines[j].frame.seq <= LastSeq(FramesTo(lines)[k])
           /\ \/ FramesTo(lines)[k] = <<>>
              \/ \E j \in 1..k : /\ lines[j].kind = "frame"
                                 /\ lines[j].frame.seq = LastSeq(FramesTo(lines)[k])
                                 /\ FramesTo(lines)[k] = FramesTo(lines)[j]
<1>. DEFINE n == Len(lines)
            Up(s) == \A i \in 1..(Len(s) - 1) : s[i].seq < s[i + 1].seq
            Top(k, s) == \A j \in 1..k : lines[j].kind = "frame" => lines[j].frame.seq <= LastSeq(s)
            From(k, s) == s = <<>> \/ \E j \in 1..k : /\ lines[j].kind = "frame"
                                                      /\ lines[j].frame.seq = LastSeq(s)
                                                      /\ s = FramesTo(lines)[j]
            Is(k, s) == Up(s) /\ Top(k, s) /\ From(k, s)
            P == {k \in 0..n : Is(k, FramesTo(lines)[k])}
<1>0. n \in Nat
  BY LenProperties
<1>1. 0 \in P
  <2>1. FramesTo(lines)[0] = <<>> /\ Len(<<>>) = 0
    BY FramesToIs
  <2>2. Is(0, <<>>)
    OBVIOUS
  <2>. HIDE DEF Is
  <2>. QED
    BY <1>0, <2>1, <2>2
<1>2. ASSUME NEW k \in 1..n, k - 1 \in P PROVE k \in P
  <2>. DEFINE s == FramesTo(lines)[k - 1]
              t == FramesTo(lines)[k]
              f == lines[k].frame
  <2>1. k \in 1..Len(lines) /\ k \in 0..n /\ k - 1 \in 0..n /\ k \in DOMAIN lines
    BY <1>0, LineIs
  <2>2. s \in Seq(Frame) /\ f \in Frame /\ f.seq \in Nat
    BY <2>1, FramesToIs, LineIs
  <2>3. t = IF lines[k].kind = "frame" THEN Append(s, f) ELSE s
    BY <2>1, FramesToIs
  <2>4. Is(k - 1, s)
    BY <1>2
  <2>5. CASE lines[k].kind # "frame"
    <3>1. t = s
      BY <2>3, <2>5
    <3>2. Top(k, s)
      <4>1. ASSUME NEW j \in 1..k, lines[j].kind = "frame" PROVE lines[j].frame.seq <= LastSeq(s)
        <5>1. j \in 1..(k - 1)
          BY <1>0, <2>1, <2>5, <4>1
        <5>. QED
          BY <2>4, <4>1, <5>1
      <4>. QED
        BY <4>1
    <3>3. From(k, s)
      <4>1. \A j \in 1..(k - 1) : j \in 1..k
        BY <1>0, <2>1
      <4>. QED
        BY <2>4, <4>1
    <3>. QED
      BY <2>1, <2>4, <3>1, <3>2, <3>3
  <2>6. CASE lines[k].kind = "frame"
    <3>0. Len(s) \in Nat /\ DOMAIN s = 1..Len(s)
      BY <2>2, LenProperties
    <3>. HIDE DEF s, t, f
    <3>1. /\ t = Append(s, f) /\ t # <<>> /\ Len(t) = Len(s) + 1 /\ t[Len(t)] = f
          /\ \A x \in 1..Len(s) : t[x] = s[x]
      BY <2>2, <2>3, <2>6, <3>0, AppendProperties DEF f
    <3>2. LastSeq(t) = f.seq
      BY <3>1 DEF LastSeq, Last
    <3>3. \A j \in 1..(k - 1) : lines[j].kind = "frame" => lines[j].frame.seq < f.seq
      BY <2>1, <2>6 DEF Ordered, f
    <3>4. Top(k, t)
      <4>1. ASSUME NEW j \in 1..k, lines[j].kind = "frame" PROVE lines[j].frame.seq <= f.seq
        <5>1. CASE j = k
          BY <2>2, <5>1 DEF f
        <5>2. CASE j # k
          <6>1. j \in 1..(k - 1) /\ j \in 1..Len(lines)
            BY <1>0, <2>1, <5>2
          <6>2. lines[j].frame.seq < f.seq /\ lines[j].frame.seq \in Nat
            BY <4>1, <3>3, <6>1, LineIs
          <6>. QED
            BY <2>2, <6>2
        <5>. QED
          BY <5>1, <5>2
      <4>. QED
        BY <4>1, <3>2
    <3>5. From(k, t)
      <4>1. k \in 1..k
        BY <1>0, <2>1
      <4>. QED
        BY <2>6, <3>2, <4>1 DEF f, t
    <3>6. LastSeq(s) < f.seq
      <4>1. CASE s = <<>>
        <5>1. f.seq > 0
          BY <2>1, <2>6 DEF Ordered, f
        <5>. QED
          BY <2>2, <4>1, <5>1 DEF LastSeq
      <4>2. CASE s # <<>>
        <5>1. PICK j \in 1..(k - 1) : lines[j].kind = "frame" /\ lines[j].frame.seq = LastSeq(s)
          BY <2>4, <4>2
        <5>. QED
          BY <3>3, <5>1
      <4>. QED
        BY <4>1, <4>2
    <3>7. Up(t)
      <4>1. ASSUME NEW i \in 1..(Len(t) - 1) PROVE t[i].seq < t[i + 1].seq
        <5>1. i \in 1..Len(s)
          BY <3>0, <3>1
        <5>2. CASE i < Len(s)
          <6>1. i \in 1..(Len(s) - 1) /\ i + 1 \in 1..Len(s)
            BY <3>0, <5>1, <5>2
          <6>2. t[i] = s[i] /\ t[i + 1] = s[i + 1]
            BY <3>1, <5>1, <6>1
          <6>. QED
            BY <2>4, <6>1, <6>2
        <5>3. CASE i = Len(s)
          <6>1. s # <<>> /\ LastSeq(s) = s[i].seq
            BY <3>0, <5>1, <5>3 DEF LastSeq, Last
          <6>2. t[i] = s[i] /\ t[i + 1] = f
            BY <3>0, <3>1, <5>1, <5>3
          <6>. QED
            BY <3>6, <6>1, <6>2
        <5>. QED
          BY <3>0, <5>1, <5>2, <5>3
      <4>. QED
        BY <4>1
    <3>8. Is(k, t)
      BY <3>4, <3>5, <3>7
    <3>. HIDE DEF Is
    <3>. QED
      BY <2>1, <3>8 DEF t
  <2>. QED
    BY <2>5, <2>6
<1>3. 0..n \subseteq P
  <2>. HIDE DEF P, n
  <2>. QED
    BY <1>0, <1>1, <1>2, UpTo
<1>. QED
  BY <1>3

-----------------------------------------------------------------------------
(* What one write does to a journal.                                       *)

\* The last line had no newline: what is written makes it unreadable.
Spoilt(d, e) ==
  /\ d.open /\ Len(e.lines) = Len(d.lines)
  /\ \A k \in 1..(Len(d.lines) - 1) : e.lines[k] = d.lines[k]
  /\ e.lines[Len(d.lines)] = Junk

\* The line, or the first part of it, comes after the lines that are there.
Extended(d, e, l) ==
  /\ ~d.open /\ Len(e.lines) = Len(d.lines) + 1
  /\ \A k \in 1..Len(d.lines) : e.lines[k] = d.lines[k]
  /\ e.lines[Len(d.lines) + 1] = l
  /\ l = Junk => e.open

Moved(d, e, l) == e = d \/ Spoilt(d, e) \/ Extended(d, e, l)

\* A replay does not fail at a line that is unreadable.
Clean(lines) == \A k \in DOMAIN lines : lines[k] = Junk => k = Len(lines)

\* The journal was written on only where its last line was complete.
Whole(d) == \A k \in DOMAIN d.lines : d.lines[k] = Junk => k = Len(d.lines) /\ d.open

EndsInJunk(lines) == lines # <<>> /\ lines[Len(lines)] = Junk

\* No frame line has a number above n; none has the number n either.
AtMost(lines, n) == \A k \in DOMAIN lines : lines[k].kind = "frame" => lines[k].frame.seq <= n
Below(lines, n) == \A k \in DOMAIN lines : lines[k].kind = "frame" => lines[k].frame.seq < n

\* The last frame of a state went into a line that a crash had cut: it is not
\* on disk, and nothing after it will be.
Ahead(lines, state) == EndsInJunk(lines) /\ Below(lines, LastSeq(state))

\* A state a process once read or built up: that of some lines of the journal.
Past(lines, state) ==
  Clean(lines) => (\E k \in 0..Len(lines) : state = FramesTo(lines)[k]) \/ Ahead(lines, state)

\* The state of the process that may append: that of all the lines.
Current(lines, state) ==
  /\ AtMost(lines, LastSeq(state))
  /\ Clean(lines) => state = Framed(lines) \/ Ahead(lines, state)

\* A checkpoint is at a complete line and has the state of the lines up to it.
Covers(d, c) ==
  c # NoCheckpoint /\ Clean(d.lines) =>
    c.at \in 1..Terminated(d) /\ c.state = FramesTo(d.lines)[c.at]

\* Each of these frames has a complete line.
Kept(d, ids) ==
  Whole(d) => \A i \in ids : \E k \in 1..Terminated(d) :
                d.lines[k].kind = "frame" /\ d.lines[k].frame.id = i

\* An older journal that can be written on has its version line.
HasVersion(lines) == (\E k \in DOMAIN lines : IsVersion(lines[k])) \/ EndsInJunk(lines)
Upgraded(o, d) == o /\ Whole(d) => HasVersion(d.lines)

\* In an older journal a version line precedes each frame of this build.
ReadRight(o, d) ==
  o /\ Whole(d) =>
    \A k \in DOMAIN d.lines :
      d.lines[k].kind = "frame" /\ d.lines[k].frame.new => \E j \in 1..(k - 1) : IsVersion(d.lines[j])

\* A journal as it is on disk at any time.
Stored(d) == d \in Disk /\ d.lines # <<>> /\ Ordered(d.lines)

\* The parts of a journal, and how many of its lines are complete.
LEMMA StoredIs ==
  ASSUME NEW d, d \in Disk, d.lines # <<>>
  PROVE  /\ d.lines \in Seq(Line) /\ d.open \in BOOLEAN
         /\ Len(d.lines) \in Nat /\ Len(d.lines) >= 1 /\ DOMAIN d.lines = 1..Len(d.lines)
         /\ Terminated(d) \in Nat
         /\ d.open => Terminated(d) = Len(d.lines) - 1
         /\ ~d.open => Terminated(d) = Len(d.lines)
<1>1. d.lines \in Seq(Line) /\ d.open \in BOOLEAN
  BY DEF Disk
<1>2. Len(d.lines) \in Nat /\ DOMAIN d.lines = 1..Len(d.lines)
  BY <1>1, LenProperties
<1>3. Len(d.lines) >= 1
  BY <1>1, <1>2, EmptySeq, LenProperties
<1>. QED
  BY <1>1, <1>2, <1>3 DEF Terminated

\* A write leaves the complete lines alone, and there are no fewer of them.
LEMMA MovedKeeps ==
  ASSUME NEW d, NEW e, NEW l, d \in Disk, d.lines # <<>>, e \in Disk, Moved(d, e, l)
  PROVE  /\ e.lines # <<>>
         /\ Len(d.lines) <= Len(e.lines) /\ Terminated(d) <= Terminated(e)
         /\ \A k \in 1..Terminated(d) : e.lines[k] = d.lines[k]
<1>1. e.lines \in Seq(Line) /\ e.open \in BOOLEAN /\ Len(e.lines) \in Nat
  BY LenProperties DEF Disk
<1>2. Len(d.lines) <= Len(e.lines)
  BY StoredIs DEF Moved, Spoilt, Extended
<1>3. e.lines # <<>>
  BY <1>1, <1>2, StoredIs, EmptySeq
<1>4. CASE e = d
  BY <1>3, <1>4, StoredIs
<1>5. CASE Spoilt(d, e)
  <2>1. d.open /\ Terminated(d) = Len(d.lines) - 1 /\ Len(e.lines) = Len(d.lines)
    BY <1>5, StoredIs DEF Spoilt
  <2>2. Terminated(e) = Len(e.lines) \/ Terminated(e) = Len(e.lines) - 1
    BY <1>1 DEF Terminated
  <2>. QED
    BY <1>1, <1>2, <1>3, <1>5, <2>1, <2>2, StoredIs DEF Spoilt
<1>6. CASE Extended(d, e, l)
  <2>1. Terminated(d) = Len(d.lines) /\ Len(e.lines) = Len(d.lines) + 1
    BY <1>6, StoredIs DEF Extended
  <2>2. Terminated(e) = Len(e.lines) \/ Terminated(e) = Len(e.lines) - 1
    BY <1>1 DEF Terminated
  <2>. QED
    BY <1>1, <1>2, <1>3, <1>6, <2>1, <2>2, StoredIs DEF Extended
<1>. QED
  BY <1>4, <1>5, <1>6 DEF Moved

\* An unreadable line stays, so a journal that is clean or whole was so before;
\* what is extended had no unreadable line at all.
LEMMA MovedClean ==
  ASSUME NEW d, NEW e, NEW l, d \in Disk, d.lines # <<>>, e \in Disk, Moved(d, e, l)
  PROVE  /\ Clean(e.lines) => Clean(d.lines)
         /\ Whole(e) => Whole(d)
         /\ Clean(e.lines) /\ Extended(d, e, l) => \A k \in 1..Len(d.lines) : d.lines[k] # Junk
<1>0. e.lines # <<>>
  BY MovedKeeps
<1>. DEFINE n == Len(d.lines)
<1>1. n \in Nat /\ n >= 1 /\ DOMAIN d.lines = 1..n /\ d.open \in BOOLEAN
  BY StoredIs
<1>2. DOMAIN e.lines = 1..Len(e.lines) /\ Len(e.lines) \in Nat /\ e.open \in BOOLEAN
  BY <1>0, StoredIs
<1>3. CASE Spoilt(d, e)
  <2>1. d.open /\ Len(e.lines) = n /\ \A k \in 1..(n - 1) : e.lines[k] = d.lines[k]
    BY <1>3 DEF Spoilt
  <2>2. ~Extended(d, e, l)
    BY <2>1 DEF Extended
  <2>3. Clean(e.lines) => Clean(d.lines)
    <3>. SUFFICES ASSUME Clean(e.lines), NEW k \in 1..n, d.lines[k] = Junk PROVE k = n
      BY <1>1 DEF Clean
    <3>1. k \in 1..(n - 1) => k = Len(e.lines)
      BY <1>1, <1>2, <2>1 DEF Clean
    <3>. QED
      BY <1>1, <2>1, <3>1
  <2>4. Whole(e) => Whole(d)
    <3>. SUFFICES ASSUME Whole(e), NEW k \in 1..n, d.lines[k] = Junk PROVE k = n /\ d.open
      BY <1>1 DEF Whole
    <3>1. k \in 1..(n - 1) => k = Len(e.lines)
      BY <1>1, <1>2, <2>1 DEF Whole
    <3>. QED
      BY <1>1, <2>1, <3>1
  <2>. QED
    BY <2>2, <2>3, <2>4
<1>4. CASE Extended(d, e, l)
  <2>1. Len(e.lines) = n + 1 /\ \A k \in 1..n : e.lines[k] = d.lines[k]
    BY <1>4 DEF Extended
  <2>2. ASSUME Clean(e.lines), NEW k \in 1..n PROVE d.lines[k] # Junk
    BY <1>1, <1>2, <2>1, <2>2, SMTT(30) DEF Clean
  <2>3. ASSUME Whole(e), NEW k \in 1..n PROVE d.lines[k] # Junk
    BY <1>1, <1>2, <2>1, <2>3 DEF Whole
  <2>. QED
    BY <1>1, <2>2, <2>3 DEF Clean, Whole
<1>5. CASE e = d
  <2>1. ~Extended(d, e, l)
    BY <1>1, <1>5 DEF Extended
  <2>. QED
    BY <1>5, <2>1
<1>. QED
  BY <1>3, <1>4, <1>5 DEF Moved

\* A frame line was there before, in its place, or is the line written.
LEMMA MovedLines ==
  ASSUME NEW d, NEW e, NEW l, d \in Disk, d.lines # <<>>, e \in Disk, Moved(d, e, l)
  PROVE  \A k \in DOMAIN e.lines : e.lines[k] # Junk =>
           \/ k \in DOMAIN d.lines /\ e.lines[k] = d.lines[k]
           \/ Extended(d, e, l) /\ k = Len(d.lines) + 1 /\ e.lines[k] = l
<1>. DEFINE n == Len(d.lines)
<1>0. e.lines # <<>>
  BY MovedKeeps
<1>1. n \in Nat /\ n >= 1 /\ DOMAIN d.lines = 1..n
  BY StoredIs
<1>2. DOMAIN e.lines = 1..Len(e.lines) /\ Len(e.lines) \in Nat
  BY <1>0, StoredIs
<1>3. CASE Spoilt(d, e)
  BY <1>1, <1>2, <1>3 DEF Spoilt
<1>4. CASE Extended(d, e, l)
  BY <1>1, <1>2, <1>4 DEF Extended
<1>5. CASE e = d
  BY <1>5
<1>. QED
  BY <1>3, <1>4, <1>5 DEF Moved

LEMMA NotFrames == Junk.kind # "frame" /\ VersionLine.kind # "frame" /\ Junk # VersionLine
  BY DEF Junk, VersionLine

\* The number of a line that is written is above the others'.
Continues(d, l) == l.kind = "frame" => l.frame.seq > 0 /\ Below(d.lines, l.frame.seq)

LEMMA MovedOrdered ==
  ASSUME NEW d, NEW e, NEW l, Stored(d), e \in Disk, Moved(d, e, l), Continues(d, l)
  PROVE  Stored(e)
<1>0. d \in Disk /\ d.lines # <<>> /\ Ordered(d.lines)
  BY DEF Stored
<1>1. e.lines # <<>>
  BY <1>0, MovedKeeps
<1>2. DOMAIN e.lines = 1..Len(e.lines) /\ Len(e.lines) \in Nat
  BY <1>1, StoredIs
<1>3. DOMAIN d.lines = 1..Len(d.lines) /\ Len(d.lines) \in Nat
  BY <1>0, StoredIs
<1>4. ASSUME NEW k \in DOMAIN e.lines, e.lines[k].kind = "frame"
      PROVE  /\ e.lines[k].frame.seq > 0
             /\ \A j \in 1..(k - 1) : e.lines[j].kind = "frame" => e.lines[j].frame.seq < e.lines[k].frame.seq
  <2>1. e.lines[k] # Junk
    BY <1>4, NotFrames
  <2>2. ASSUME NEW j \in 1..(k - 1), e.lines[j].kind = "frame"
        PROVE  j \in DOMAIN e.lines /\ e.lines[j] # Junk
    BY <1>2, <2>2, NotFrames
  <2>3. CASE k \in DOMAIN d.lines /\ e.lines[k] = d.lines[k]
    <3>1. ASSUME NEW j \in 1..(k - 1), e.lines[j].kind = "frame"
          PROVE  e.lines[j] = d.lines[j]
      <4>1. j # Len(d.lines) + 1
        BY <1>3, <2>3
      <4>. QED
        BY <1>0, <2>2, <3>1, <4>1, MovedLines
    <3>. QED
      BY <1>0, <1>4, <2>3, <3>1 DEF Ordered
  <2>4. CASE Extended(d, e, l) /\ k = Len(d.lines) + 1 /\ e.lines[k] = l
    <3>1. l.frame.seq > 0 /\ Below(d.lines, l.frame.seq)
      BY <1>4, <2>4 DEF Continues
    <3>2. ASSUME NEW j \in 1..(k - 1), e.lines[j].kind = "frame"
          PROVE  j \in DOMAIN d.lines /\ e.lines[j] = d.lines[j]
      <4>1. j # Len(d.lines) + 1
        BY <1>3, <2>4
      <4>. QED
        BY <1>0, <2>2, <3>2, <4>1, MovedLines
    <3>. QED
      BY <2>4, <3>1, <3>2 DEF Below
  <2>. QED
    BY <1>0, <2>1, <2>3, <2>4, MovedLines
<1>. QED
  BY <1>1, <1>4 DEF Stored, Ordered

\* What has a complete line keeps it.
LEMMA MovedKept ==
  ASSUME NEW d, NEW e, NEW l, d \in Disk, d.lines # <<>>, e \in Disk, Moved(d, e, l), NEW ids, Kept(d, ids)
  PROVE  Kept(e, ids)
<1>. SUFFICES ASSUME Whole(e), NEW i \in ids
              PROVE  \E k \in 1..Terminated(e) : e.lines[k].kind = "frame" /\ e.lines[k].frame.id = i
  BY DEF Kept
<1>1. Whole(d)
  BY MovedClean
<1>2. PICK k \in 1..Terminated(d) : d.lines[k].kind = "frame" /\ d.lines[k].frame.id = i
  BY <1>1 DEF Kept
<1>3. Terminated(d) \in Nat /\ Terminated(e) \in Nat
  BY MovedKeeps, StoredIs
<1>4. k \in 1..Terminated(e) /\ e.lines[k] = d.lines[k]
  BY <1>3, MovedKeeps
<1>. QED
  BY <1>2, <1>4

\* A checkpoint goes on to cover what it covered.
LEMMA MovedCovers ==
  ASSUME NEW d, NEW e, NEW l, d \in Disk, d.lines # <<>>, e \in Disk, Moved(d, e, l), NEW c, Covers(d, c)
  PROVE  Covers(e, c)
<1>. SUFFICES ASSUME c # NoCheckpoint, Clean(e.lines)
              PROVE  c.at \in 1..Terminated(e) /\ c.state = FramesTo(e.lines)[c.at]
  BY DEF Covers
<1>1. c.at \in 1..Terminated(d) /\ c.state = FramesTo(d.lines)[c.at]
  BY MovedClean DEF Covers
<1>2. e.lines # <<>> /\ Terminated(d) <= Terminated(e) /\ \A k \in 1..Terminated(d) : e.lines[k] = d.lines[k]
  BY MovedKeeps
<1>3. /\ Terminated(d) \in Nat /\ d.lines \in Seq(Line) /\ Len(d.lines) \in Nat
      /\ Terminated(d) <= Len(d.lines)
  BY StoredIs
<1>4. /\ Terminated(e) \in Nat /\ e.lines \in Seq(Line) /\ Len(e.lines) \in Nat
      /\ Terminated(e) <= Len(e.lines)
  BY <1>2, StoredIs
<1>5. FramesTo(d.lines)[c.at] = FramesTo(e.lines)[c.at]
  <2>1. Terminated(d) <= Len(e.lines) /\ c.at \in 0..Terminated(d)
    BY <1>1, <1>2, <1>3, <1>4
  <2>. QED
    BY <1>2, <1>3, <1>4, <2>1, SameFrames
<1>. QED
  BY <1>1, <1>2, <1>3, <1>4, <1>5

\* The version line stays, unless it was cut and what came after it spoilt it.
LEMMA MovedUpgraded ==
  ASSUME NEW d, NEW e, NEW l, d \in Disk, d.lines # <<>>, e \in Disk, Moved(d, e, l),
         NEW o, Upgraded(o, d)
  PROVE  Upgraded(o, e)
<1>. SUFFICES ASSUME o, Whole(e) PROVE HasVersion(e.lines)
  BY DEF Upgraded
<1>0. e.lines # <<>> /\ Whole(d) /\ HasVersion(d.lines)
  BY MovedKeeps, MovedClean DEF Upgraded
<1>1. DOMAIN e.lines = 1..Len(e.lines) /\ Len(e.lines) \in Nat
  BY <1>0, StoredIs
<1>2. DOMAIN d.lines = 1..Len(d.lines) /\ Len(d.lines) \in Nat /\ Len(d.lines) >= 1
  BY StoredIs
<1>3. CASE e = d
  BY <1>0, <1>3
<1>4. CASE Spoilt(d, e)
  BY <1>0, <1>4 DEF Spoilt, HasVersion, EndsInJunk
<1>5. CASE Extended(d, e, l)
  <2>1. \A k \in 1..Len(d.lines) : k \in DOMAIN e.lines /\ e.lines[k] = d.lines[k]
    BY <1>1, <1>2, <1>5 DEF Extended
  <2>2. ~EndsInJunk(d.lines)
    <3>1. ~d.open
      BY <1>5 DEF Extended
    <3>. QED
      BY <1>0, <1>2, <3>1 DEF Whole, EndsInJunk
  <2>. QED
    BY <1>0, <1>2, <2>1, <2>2 DEF HasVersion
<1>. QED
  BY <1>3, <1>4, <1>5 DEF Moved

\* A frame of this build comes after a version line.
LEMMA MovedReadRight ==
  ASSUME NEW d, NEW e, NEW l, d \in Disk, d.lines # <<>>, e \in Disk, Moved(d, e, l),
         NEW o, ReadRight(o, d), l.kind = "frame" => Upgraded(o, d)
  PROVE  ReadRight(o, e)
<1>. SUFFICES ASSUME o, Whole(e), NEW k \in DOMAIN e.lines,
                     e.lines[k].kind = "frame", e.lines[k].frame.new
              PROVE  \E j \in 1..(k - 1) : IsVersion(e.lines[j])
  BY DEF ReadRight
<1>0. e.lines # <<>> /\ Whole(d) /\ e.lines[k] # Junk
  BY MovedKeeps, MovedClean, NotFrames
<1>1. DOMAIN e.lines = 1..Len(e.lines) /\ Len(e.lines) \in Nat
  BY <1>0, StoredIs
<1>2. DOMAIN d.lines = 1..Len(d.lines) /\ Len(d.lines) \in Nat /\ Len(d.lines) >= 1
  BY StoredIs
<1>3. CASE k \in DOMAIN d.lines /\ e.lines[k] = d.lines[k]
  <2>1. PICK j \in 1..(k - 1) : IsVersion(d.lines[j])
    BY <1>0, <1>3 DEF ReadRight
  <2>2. e.lines[j] = d.lines[j]
    BY <1>2, <1>3, <2>1 DEF Moved, Spoilt, Extended
  <2>. QED
    BY <2>1, <2>2
<1>4. CASE Extended(d, e, l) /\ k = Len(d.lines) + 1 /\ e.lines[k] = l
  <2>1. HasVersion(d.lines)
    BY <1>0, <1>4 DEF Upgraded
  <2>2. ~EndsInJunk(d.lines)
    BY <1>0, <1>2, <1>4 DEF Whole, EndsInJunk, Extended
  <2>3. PICK j \in DOMAIN d.lines : IsVersion(d.lines[j])
    BY <2>1, <2>2 DEF HasVersion
  <2>4. j \in 1..(k - 1) /\ e.lines[j] = d.lines[j]
    BY <1>2, <1>4, <2>3 DEF Extended
  <2>. QED
    BY <2>3, <2>4
<1>. QED
  BY <1>0, <1>3, <1>4, MovedLines

\* The frames of a journal whose last line was spoilt.
LEMMA SpoiltFrames ==
  ASSUME NEW d, NEW e, Stored(d), e \in Disk, Spoilt(d, e)
  PROVE  /\ Framed(e.lines) = FramesTo(d.lines)[Len(d.lines) - 1]
         /\ \A k \in 0..(Len(d.lines) - 1) : FramesTo(e.lines)[k] = FramesTo(d.lines)[k]
         /\ Framed(d.lines) = Framed(e.lines) \/ Ahead(e.lines, Framed(d.lines))
         /\ \A s : Ahead(d.lines, s) => Ahead(e.lines, s)
         /\ \A m : AtMost(d.lines, m) => AtMost(e.lines, m)
<1>. DEFINE n == Len(d.lines)
<1>0. d \in Disk /\ d.lines # <<>> /\ Ordered(d.lines) /\ Moved(d, e, Junk)
  BY DEF Stored, Moved
<1>1. n \in Nat /\ n >= 1 /\ DOMAIN d.lines = 1..n /\ d.lines \in Seq(Line)
  BY <1>0, StoredIs
<1>2. /\ e.lines # <<>> /\ Len(e.lines) = n /\ DOMAIN e.lines = 1..n /\ e.lines \in Seq(Line)
      /\ \A k \in 1..(n - 1) : e.lines[k] = d.lines[k]
      /\ e.lines[n] = Junk
  BY <1>0, MovedKeeps, StoredIs DEF Spoilt
<1>3. \A k \in 0..(n - 1) : FramesTo(e.lines)[k] = FramesTo(d.lines)[k]
  <2>1. n - 1 \in Nat /\ n - 1 <= Len(e.lines) /\ n - 1 <= Len(d.lines)
    BY <1>1, <1>2
  <2>. QED
    BY <1>1, <1>2, <2>1, SameFrames
<1>4. n \in 1..Len(e.lines) /\ n \in 1..Len(d.lines) /\ n - 1 \in 0..(n - 1) /\ n - 1 \in 0..n
  BY <1>1, <1>2
<1>5. Framed(e.lines) = FramesTo(d.lines)[n - 1]
  BY <1>2, <1>3, <1>4, FramesToIs, NotFrames DEF Framed
<1>6. ASSUME NEW k \in DOMAIN e.lines, e.lines[k].kind = "frame"
      PROVE  k \in 1..(n - 1) /\ k \in DOMAIN d.lines /\ e.lines[k] = d.lines[k]
  <2>1. k # n
    BY <1>2, <1>6, NotFrames
  <2>. QED
    BY <1>1, <1>2, <2>1
<1>7. EndsInJunk(e.lines)
  BY <1>2 DEF EndsInJunk
<1>8. \A s : Ahead(d.lines, s) => Ahead(e.lines, s)
  BY <1>6, <1>7 DEF Ahead, Below
<1>9. \A m : AtMost(d.lines, m) => AtMost(e.lines, m)
  BY <1>6 DEF AtMost
<1>10. Framed(d.lines) = Framed(e.lines) \/ Ahead(e.lines, Framed(d.lines))
  <2>. DEFINE s == FramesTo(d.lines)[n - 1]
              f == d.lines[n].frame
              t == Framed(d.lines)
  <2>1. t = IF d.lines[n].kind = "frame" THEN Append(s, f) ELSE s
    BY <1>1, <1>4, FramesToIs DEF Framed
  <2>2. CASE d.lines[n].kind # "frame"
    BY <1>5, <2>1, <2>2
  <2>3. CASE d.lines[n].kind = "frame"
    <3>1. s \in Seq(Frame) /\ f \in Frame
      BY <1>1, <1>4, FramesToIs, LineIs
    <3>2. t = Append(s, f)
      BY <2>1, <2>3
    <3>3. LastSeq(t) = f.seq
      <4>. HIDE DEF s, f, t
      <4>1. Len(s) \in Nat
        BY <3>1, LenProperties
      <4>2. t # <<>> /\ Len(t) = Len(s) + 1 /\ t[Len(t)] = f
        BY <3>1, <3>2, <4>1, AppendProperties
      <4>. QED
        BY <4>2 DEF LastSeq, Last
    <3>4. Below(e.lines, f.seq)
      BY <1>0, <1>1, <1>4, <1>6, <2>3 DEF Below, Ordered
    <3>5. Ahead(e.lines, t)
      <4>. HIDE DEF t, f
      <4>. QED
        BY <1>7, <3>3, <3>4 DEF Ahead
    <3>. QED
      BY <3>5
  <2>. QED
    BY <2>2, <2>3
<1>. QED
  BY <1>3, <1>5, <1>8, <1>9, <1>10

\* The frames of a journal with one more line.
LEMMA ExtendedFrames ==
  ASSUME NEW d, NEW e, NEW l, d \in Disk, d.lines # <<>>, e \in Disk, Extended(d, e, l)
  PROVE  /\ \A k \in 0..Len(d.lines) : FramesTo(e.lines)[k] = FramesTo(d.lines)[k]
         /\ Framed(e.lines) = IF l.kind = "frame" THEN Append(Framed(d.lines), l.frame)
                              ELSE Framed(d.lines)
<1>. DEFINE n == Len(d.lines)
<1>0. Moved(d, e, l)
  BY DEF Moved
<1>1. n \in Nat /\ DOMAIN d.lines = 1..n /\ d.lines \in Seq(Line)
  BY StoredIs
<1>2. /\ e.lines # <<>> /\ Len(e.lines) = n + 1 /\ e.lines \in Seq(Line)
      /\ \A k \in 1..n : e.lines[k] = d.lines[k]
      /\ e.lines[n + 1] = l
  BY <1>0, MovedKeeps, StoredIs DEF Extended
<1>3. \A k \in 0..n : FramesTo(e.lines)[k] = FramesTo(d.lines)[k]
  <2>1. n <= Len(e.lines)
    BY <1>1, <1>2
  <2>. QED
    BY <1>1, <1>2, <2>1, SameFrames
<1>4. n + 1 \in 1..Len(e.lines) /\ (n + 1) - 1 = n /\ n \in 0..n
  BY <1>1, <1>2
<1>5. Framed(e.lines) = IF l.kind = "frame" THEN Append(FramesTo(e.lines)[n], l.frame)
                        ELSE FramesTo(e.lines)[n]
  BY <1>2, <1>4, FramesToIs DEF Framed
<1>. QED
  BY <1>3, <1>4, <1>5 DEF Framed

\* What a process once read stays what some lines of the journal hold.
LEMMA MovedPast ==
  ASSUME NEW d, NEW e, NEW l, Stored(d), e \in Disk, Moved(d, e, l), NEW s, Past(d.lines, s)
  PROVE  Past(e.lines, s)
<1>. DEFINE n == Len(d.lines)
<1>. SUFFICES ASSUME Clean(e.lines)
              PROVE  (\E k \in 0..Len(e.lines) : s = FramesTo(e.lines)[k]) \/ Ahead(e.lines, s)
  BY DEF Past
<1>0. d \in Disk /\ d.lines # <<>>
  BY DEF Stored
<1>1. n \in Nat /\ n >= 1 /\ DOMAIN d.lines = 1..n
  BY <1>0, StoredIs
<1>2. Clean(d.lines)
  BY <1>0, MovedClean
<1>3. (\E k \in 0..n : s = FramesTo(d.lines)[k]) \/ Ahead(d.lines, s)
  BY <1>2 DEF Past
<1>4. CASE e = d
  BY <1>3, <1>4
<1>5. CASE Spoilt(d, e)
  <2>1. Len(e.lines) = n /\ (Ahead(d.lines, s) => Ahead(e.lines, s))
    BY <1>5, SpoiltFrames DEF Spoilt
  <2>2. ASSUME NEW k \in 0..n, s = FramesTo(d.lines)[k]
        PROVE  (\E j \in 0..n : s = FramesTo(e.lines)[j]) \/ Ahead(e.lines, s)
    <3>1. CASE k \in 0..(n - 1)
      BY <1>5, <2>2, <3>1, SpoiltFrames
    <3>2. CASE k = n
      <4>1. s = Framed(d.lines)
        BY <2>2, <3>2 DEF Framed
      <4>2. s = Framed(e.lines) \/ Ahead(e.lines, s)
        BY <1>5, <4>1, SpoiltFrames
      <4>3. Framed(e.lines) = FramesTo(e.lines)[n] /\ n \in 0..n
        BY <1>1, <2>1 DEF Framed
      <4>. QED
        BY <4>2, <4>3
    <3>. QED
      BY <1>1, <3>1, <3>2
  <2>. QED
    BY <1>3, <2>1, <2>2
<1>6. CASE Extended(d, e, l)
  <2>1. ~Ahead(d.lines, s)
    <3>1. d.lines[n] # Junk
      BY <1>0, <1>1, <1>6, MovedClean
    <3>. QED
      BY <3>1 DEF Ahead, EndsInJunk
  <2>2. PICK k \in 0..n : s = FramesTo(d.lines)[k]
    BY <1>3, <2>1
  <2>3. s = FramesTo(e.lines)[k]
    BY <1>0, <1>6, <2>2, ExtendedFrames
  <2>4. k \in 0..Len(e.lines)
    BY <1>1, <1>6 DEF Extended
  <2>. QED
    BY <2>3, <2>4
<1>. QED
  BY <1>4, <1>5, <1>6 DEF Moved

\* A line that is no frame leaves the state of the process that appends what
\* it was.
LEMMA MovedCurrent ==
  ASSUME NEW d, NEW e, NEW l, Stored(d), e \in Disk, Moved(d, e, l), l.kind # "frame",
         NEW s, Current(d.lines, s)
  PROVE  Current(e.lines, s)
<1>. DEFINE n == Len(d.lines)
<1>0. d \in Disk /\ d.lines # <<>>
  BY DEF Stored
<1>1. n \in Nat /\ n >= 1 /\ DOMAIN d.lines = 1..n
  BY <1>0, StoredIs
<1>2. AtMost(e.lines, LastSeq(s))
  <2>. SUFFICES ASSUME NEW k \in DOMAIN e.lines, e.lines[k].kind = "frame"
                PROVE  e.lines[k].frame.seq <= LastSeq(s)
    BY DEF AtMost
  <2>1. k \in DOMAIN d.lines /\ e.lines[k] = d.lines[k]
    BY <1>0, MovedLines, NotFrames
  <2>. QED
    BY <2>1 DEF Current, AtMost
<1>3. ASSUME Clean(e.lines) PROVE s = Framed(e.lines) \/ Ahead(e.lines, s)
  <2>1. s = Framed(d.lines) \/ Ahead(d.lines, s)
    BY <1>0, <1>3, MovedClean DEF Current
  <2>2. CASE e = d
    BY <2>1, <2>2
  <2>3. CASE Spoilt(d, e)
    BY <2>1, <2>3, SpoiltFrames
  <2>4. CASE Extended(d, e, l)
    <3>1. d.lines[n] # Junk
      BY <1>0, <1>1, <1>3, <2>4, MovedClean
    <3>2. s = Framed(d.lines)
      BY <2>1, <3>1 DEF Ahead, EndsInJunk
    <3>. QED
      BY <1>0, <2>4, <3>2, ExtendedFrames
  <2>. QED
    BY <2>2, <2>3, <2>4 DEF Moved
<1>. QED
  BY <1>2, <1>3 DEF Current

\* A process that appends a frame is ahead of the journal if its line was
\* lost, and has the state of all the lines otherwise.
LEMMA AppendedCurrent ==
  ASSUME NEW d, NEW e, NEW s \in Seq(Frame), NEW f \in Frame, Stored(d), e \in Disk,
         Spoilt(d, e) \/ Extended(d, e, FrameLine(f)), f.seq = LastSeq(s) + 1, LastSeq(s) \in Nat,
         Current(d.lines, s)
  PROVE  Current(e.lines, Append(s, f))
<1>. DEFINE n == Len(d.lines)
            t == Append(s, f)
            l == FrameLine(f)
<1>0. d \in Disk /\ d.lines # <<>> /\ Moved(d, e, l) /\ d.lines \in Seq(Line)
  BY StoredIs DEF Stored, Moved
<1>1. n \in Nat /\ n >= 1 /\ DOMAIN d.lines = 1..n
  BY <1>0, StoredIs
<1>2. l.kind = "frame" /\ l.frame = f
  BY DEF FrameLine
<1>3. LastSeq(t) = f.seq
  <2>1. Len(s) \in Nat
    BY LenProperties
  <2>2. t # <<>> /\ Len(t) = Len(s) + 1 /\ t[Len(t)] = f
    BY <2>1, AppendProperties
  <2>. HIDE DEF t
  <2>. QED
    BY <2>2 DEF LastSeq, Last
<1>4. ASSUME NEW k \in DOMAIN d.lines, d.lines[k].kind = "frame" PROVE d.lines[k].frame.seq < f.seq
  <2>1. d.lines[k].frame.seq <= LastSeq(s)
    BY <1>4 DEF Current, AtMost
  <2>2. d.lines[k].frame.seq \in Nat
    BY <1>0, <1>1, LineIs
  <2>. QED
    BY <2>1, <2>2
<1>5. AtMost(e.lines, f.seq)
  <2>. SUFFICES ASSUME NEW k \in DOMAIN e.lines, e.lines[k].kind = "frame"
                PROVE  e.lines[k].frame.seq <= f.seq
    BY DEF AtMost
  <2>1. \/ k \in DOMAIN d.lines /\ e.lines[k] = d.lines[k]
        \/ e.lines[k] = l
    BY <1>0, MovedLines, NotFrames
  <2>2. CASE k \in DOMAIN d.lines /\ e.lines[k] = d.lines[k]
    <3>1. d.lines[k].frame.seq \in Nat /\ f.seq \in Nat
      BY <1>0, <1>1, <2>2, LineIs
    <3>. QED
      BY <1>4, <2>2, <3>1
  <2>3. CASE e.lines[k] = l
    BY <1>2, <2>3
  <2>. QED
    BY <2>1, <2>2, <2>3
<1>6. ASSUME Clean(e.lines) PROVE t = Framed(e.lines) \/ Ahead(e.lines, t)
  <2>1. s = Framed(d.lines) \/ Ahead(d.lines, s)
    BY <1>0, <1>6, MovedClean DEF Current
  <2>2. CASE Spoilt(d, e)
    <3>1. EndsInJunk(e.lines)
      BY <1>0, <2>2, MovedKeeps DEF Spoilt, EndsInJunk
    <3>2. Below(e.lines, f.seq)
      <4>. SUFFICES ASSUME NEW k \in DOMAIN e.lines, e.lines[k].kind = "frame"
                    PROVE  e.lines[k].frame.seq < f.seq
        BY DEF Below
      <4>1. ~Extended(d, e, l)
        BY <2>2 DEF Spoilt, Extended
      <4>2. k \in DOMAIN d.lines /\ e.lines[k] = d.lines[k]
        BY <1>0, <4>1, MovedLines, NotFrames
      <4>. QED
        BY <1>4, <4>2
    <3>. HIDE DEF t
    <3>. QED
      BY <1>3, <3>1, <3>2 DEF Ahead
  <2>3. CASE Extended(d, e, l)
    <3>1. d.lines[n] # Junk
      BY <1>0, <1>1, <1>6, <2>3, MovedClean
    <3>2. s = Framed(d.lines)
      BY <2>1, <3>1 DEF Ahead, EndsInJunk
    <3>. HIDE DEF l
    <3>3. Framed(e.lines) = IF l.kind = "frame" THEN Append(Framed(d.lines), l.frame)
                            ELSE Framed(d.lines)
      BY <1>0, <2>3, ExtendedFrames
    <3>. QED
      BY <1>2, <3>2, <3>3
  <2>. QED
    BY <2>2, <2>3
<1>. HIDE DEF t
<1>7. Current(e.lines, t)
  BY <1>3, <1>5, <1>6 DEF Current
<1>. QED
  BY <1>7 DEF t

-----------------------------------------------------------------------------
(* The store's own writes are such moves.                                  *)

LEMMA LinesAre ==
  /\ Junk \in Line /\ VersionLine \in Line
  /\ \A f \in Frame : FrameLine(f) \in Line /\ FrameLine(f) # Junk
  /\ VersionLine # Junk
<1>1. NoFrame \in Frame
  BY DEF NoFrame, Frame
<1>. QED
  BY <1>1 DEF Junk, VersionLine, FrameLine, Line

\* A line that is written to its end.
LEMMA Writes ==
  ASSUME NEW d, d \in Disk, d.lines # <<>>, NEW l \in Line, NEW o \in BOOLEAN, NEW e,
         e = [lines |-> WriteLine(d, l).lines, open |-> o], l = Junk => o
  PROVE  e \in Disk /\ e.open = o /\ (Spoilt(d, e) \/ Extended(d, e, l))
<1>. DEFINE n == Len(d.lines)
            w == IF d.open THEN ReplaceAt(d.lines, n, Junk) ELSE Append(d.lines, l)
<1>1. n \in Nat /\ n >= 1 /\ DOMAIN d.lines = 1..n /\ d.lines \in Seq(Line) /\ d.open \in BOOLEAN
  BY StoredIs
<1>2. e = [lines |-> w, open |-> o]
  BY DEF WriteLine
<1>3. CASE d.open
  <2>1. w = [d.lines EXCEPT ![n] = Junk]
    BY <1>3 DEF ReplaceAt
  <2>2. w \in Seq(Line) /\ Len(w) = n /\ w[n] = Junk /\ \A k \in 1..(n - 1) : w[k] = d.lines[k]
    BY <1>1, <2>1, LinesAre
  <2>. HIDE DEF w
  <2>3. e \in Disk
    <3>1. \A x \in Seq(Line), y \in BOOLEAN : [lines |-> x, open |-> y] \in Disk
      BY DEF Disk
    <3>. QED
      BY <1>2, <2>2, <3>1
  <2>4. Spoilt(d, e)
    BY <1>2, <1>3, <2>2 DEF Spoilt
  <2>. QED
    BY <1>2, <2>3, <2>4
<1>4. CASE ~d.open
  <2>1. w = Append(d.lines, l)
    BY <1>4
  <2>2. w \in Seq(Line) /\ Len(w) = n + 1 /\ w[n + 1] = l /\ \A k \in 1..n : w[k] = d.lines[k]
    BY <1>1, <2>1, AppendProperties, SMTT(30)
  <2>. HIDE DEF w
  <2>3. e \in Disk
    <3>1. \A x \in Seq(Line), y \in BOOLEAN : [lines |-> x, open |-> y] \in Disk
      BY DEF Disk
    <3>. QED
      BY <1>2, <2>2, <3>1
  <2>4. Extended(d, e, l)
    BY <1>2, <1>4, <2>2 DEF Extended
  <2>. QED
    BY <1>2, <2>3, <2>4
<1>. QED
  BY <1>1, <1>3, <1>4

LEMMA WritesLine ==
  ASSUME NEW d, d \in Disk, d.lines # <<>>, NEW l \in Line, l # Junk, NEW e, e = WriteLine(d, l)
  PROVE  e \in Disk /\ e.open = FALSE /\ (Spoilt(d, e) \/ Extended(d, e, l))
<1>1. WriteLine(d, l) = [lines |-> WriteLine(d, l).lines, open |-> FALSE]
  BY DEF WriteLine
<1>. QED
  BY <1>1, Writes

\* A write cut short leaves the line, a part of it, or nothing.
LEMMA Cuts ==
  ASSUME NEW d, d \in Disk, d.lines # <<>>, NEW l \in Line, l # Junk, NEW e \in CutShort(d, l)
  PROVE  e \in Disk /\ (Moved(d, e, l) \/ Moved(d, e, Junk))
<1>0. \A x : [WriteLine(d, x) EXCEPT !.open = TRUE] = [lines |-> WriteLine(d, x).lines, open |-> TRUE]
  <2>1. ASSUME NEW x, NEW o \in BOOLEAN
        PROVE  [WriteLine(d, x) EXCEPT !.open = o] = [lines |-> WriteLine(d, x).lines, open |-> o]
    BY DEF WriteLine
  <2>. QED
    BY <2>1
<1>1. CASE e = d
  BY <1>1 DEF Moved
<1>2. CASE e = WriteLine(d, l)
  BY <1>2, WritesLine DEF Moved
<1>3. CASE e = [WriteLine(d, l) EXCEPT !.open = TRUE]
  BY <1>0, <1>3, Writes DEF Moved
<1>4. CASE e = [WriteLine(d, Junk) EXCEPT !.open = TRUE]
  BY <1>0, <1>4, Writes, LinesAre DEF Moved
<1>. QED
  BY <1>1, <1>2, <1>3, <1>4 DEF CutShort

\* Preparing a journal is such a move, and leaves the version line in it.
LEMMA PrepareIs ==
  ASSUME NEW d, d \in Disk, d.lines # <<>>
  PROVE  /\ Prepare(d) \in Disk
         /\ Moved(d, Prepare(d), VersionLine)
         /\ Upgraded(old, Prepare(d))
<1>1. CASE ~NeedsVersion(d)
  <2>1. Prepare(d) = d
    BY <1>1 DEF Prepare
  <2>2. Upgraded(old, d)
    BY <1>1 DEF NeedsVersion, Upgraded, HasVersion
  <2>. QED
    BY <2>1, <2>2 DEF Moved
<1>2. CASE NeedsVersion(d)
  <2>. DEFINE e == WriteLine(d, VersionLine)
  <2>1. Prepare(d) = e
    BY <1>2 DEF Prepare
  <2>2. e \in Disk /\ e.open = FALSE /\ (Spoilt(d, e) \/ Extended(d, e, VersionLine))
    BY WritesLine, LinesAre
  <2>. HIDE DEF e
  <2>3. Moved(d, e, VersionLine)
    BY <2>2 DEF Moved
  <2>4. e.lines # <<>>
    BY <2>2, <2>3, MovedKeeps
  <2>5. DOMAIN e.lines = 1..Len(e.lines) /\ Len(d.lines) \in Nat /\ Len(d.lines) >= 1
    BY <2>2, <2>4, StoredIs
  <2>6. Upgraded(old, e)
    <3>1. CASE Spoilt(d, e)
      <4>1. Len(d.lines) \in DOMAIN e.lines /\ e.lines[Len(d.lines)] = Junk
        BY <2>5, <3>1 DEF Spoilt
      <4>2. ~Whole(e)
        BY <2>2, <4>1 DEF Whole
      <4>. QED
        BY <4>2 DEF Upgraded
    <3>2. CASE Extended(d, e, VersionLine)
      <4>1. Len(d.lines) + 1 \in DOMAIN e.lines /\ e.lines[Len(d.lines) + 1] = VersionLine
        BY <2>5, <3>2 DEF Extended
      <4>2. IsVersion(VersionLine)
        BY DEF IsVersion, VersionLine
      <4>. QED
        BY <4>1, <4>2 DEF Upgraded, HasVersion
    <3>. QED
      BY <2>2, <3>1, <3>2
  <2>. QED
    BY <2>1, <2>2, <2>3, <2>6
<1>. QED
  BY <1>1, <1>2

-----------------------------------------------------------------------------
(* Reading a journal back.                                                 *)

\* A checkpoint written at the line that has a state's last number covers that
\* state.
LEMMA Located ==
  ASSUME NEW d, Stored(d), NEW s, Past(d.lines, s), NEW k \in Locate(d, LastSeq(s)),
         NEW c, c.at = k, c.state = s
  PROVE  Covers(d, c)
<1>. SUFFICES ASSUME Clean(d.lines) PROVE k \in 1..Terminated(d) /\ s = FramesTo(d.lines)[k]
  BY DEF Covers
<1>0. d \in Disk /\ d.lines # <<>> /\ Ordered(d.lines)
  BY DEF Stored
<1>1. /\ d.lines \in Seq(Line) /\ Len(d.lines) \in Nat /\ DOMAIN d.lines = 1..Len(d.lines)
      /\ Terminated(d) \in Nat /\ Terminated(d) <= Len(d.lines)
  BY <1>0, StoredIs
<1>2. k \in 1..Terminated(d) /\ d.lines[k].kind = "frame" /\ d.lines[k].frame.seq = LastSeq(s)
  BY DEF Locate
<1>3. k \in DOMAIN d.lines
  BY <1>1, <1>2
<1>4. d.lines[k].frame.seq \in Nat /\ d.lines[k].frame.seq > 0
  BY <1>0, <1>1, <1>2, <1>3, LineIs DEF Ordered
<1>5. ~Ahead(d.lines, s)
  BY <1>2, <1>3, <1>4 DEF Ahead, Below
<1>6. PICK m \in 0..Len(d.lines) : s = FramesTo(d.lines)[m]
  BY <1>5 DEF Past
<1>7. s # <<>>
  BY <1>2, <1>4 DEF LastSeq
<1>8. PICK j \in 1..m : /\ d.lines[j].kind = "frame" /\ d.lines[j].frame.seq = LastSeq(s)
                        /\ s = FramesTo(d.lines)[j]
  BY <1>0, <1>1, <1>6, <1>7, FrameNumbers
<1>9. j \in DOMAIN d.lines /\ j \in Nat /\ k \in Nat
  BY <1>1, <1>2
<1>10. ~(j < k) /\ ~(k < j)
  <2>1. j < k => j \in 1..(k - 1)
    BY <1>1, <1>2
  <2>2. k < j => k \in 1..(j - 1)
    BY <1>1, <1>2
  <2>. QED
    BY <1>0, <1>2, <1>3, <1>4, <1>8, <1>9, <2>1, <2>2 DEF Ordered
<1>11. j = k
  BY <1>9, <1>10
<1>. QED
  BY <1>2, <1>8, <1>11

\* A replay that does not fail brings back all the frames.
LEMMA Replayed ==
  ASSUME NEW d, d \in Disk, d.lines # <<>>
  PROVE  /\ Replay(d).ok <=> Clean(d.lines)
         /\ Replay(d).ok => Replay(d).frames = Framed(d.lines)
         /\ Framed(d.lines) \in Seq(Frame)
         /\ Replay(d).frames \in Seq(Frame)
<1>1. /\ d.lines \in Seq(Line) /\ Len(d.lines) \in Nat /\ DOMAIN d.lines = 1..Len(d.lines)
  BY StoredIs
<1>2. Framed(d.lines) \in Seq(Frame) /\ <<>> \in Seq(Frame)
  BY <1>1, FramesToIs, EmptySeq DEF Framed
<1>3. Clean(d.lines) <=> ~(\E k \in DOMAIN d.lines : k < Len(d.lines) /\ d.lines[k] = Junk)
  BY <1>1 DEF Clean
<1>. QED
  BY <1>2, <1>3 DEF Replay, Frames

\* The last number of a journal's frames is the highest.
LEMMA FramedAtMost ==
  ASSUME NEW d, Stored(d)
  PROVE  AtMost(d.lines, LastSeq(Framed(d.lines)))
<1>0. d \in Disk /\ d.lines # <<>> /\ Ordered(d.lines)
  BY DEF Stored
<1>1. /\ d.lines \in Seq(Line) /\ Len(d.lines) \in Nat /\ DOMAIN d.lines = 1..Len(d.lines)
  BY <1>0, StoredIs
<1>2. Len(d.lines) \in 0..Len(d.lines)
  BY <1>1
<1>. QED
  BY <1>0, <1>1, <1>2, FrameNumbers DEF AtMost, Framed

LEMMA LastSeqIs ==
  ASSUME NEW s \in Seq(Frame)
  PROVE  LastSeq(s) \in Nat
<1>1. CASE s = <<>>
  BY <1>1 DEF LastSeq
<1>2. CASE s # <<>>
  <2>1. Len(s) \in Nat /\ Len(s) \in 1..Len(s)
    BY <1>2, LenProperties, EmptySeq
  <2>2. s[Len(s)] \in Frame
    BY <2>1, ElementOfSeq
  <2>. QED
    BY <1>2, <2>2 DEF LastSeq, Last, Frame
<1>. QED
  BY <1>1, <1>2

\* A checkpoint that checks and the lines after it end in the last number of
\* the journal, and are all of a clean one's frames.
LEMMA TailIs ==
  ASSUME NEW d, Stored(d), NEW c \in Checkpoint, Covers(d, c), Checks(d, c), TailOf(d, c.at).ok
  PROVE  /\ c.state \o TailOf(d, c.at).frames \in Seq(Frame)
         /\ AtMost(d.lines, LastSeq(c.state \o TailOf(d, c.at).frames))
         /\ Clean(d.lines) => c.state \o TailOf(d, c.at).frames = Framed(d.lines)
<1>. DEFINE n == Len(d.lines)
            at == c.at
            rest == SubSeq(d.lines, at + 1, n)
            tail == Framed(rest)
            all == c.state \o tail
<1>0. d \in Disk /\ d.lines # <<>> /\ Ordered(d.lines)
  BY DEF Stored
<1>1. /\ d.lines \in Seq(Line) /\ n \in Nat /\ DOMAIN d.lines = 1..n
      /\ Terminated(d) \in Nat /\ Terminated(d) <= n
  BY <1>0, StoredIs
<1>2. /\ c # NoCheckpoint /\ at \in 1..Terminated(d) /\ d.lines[at] = FrameLine(c.line)
      /\ c.line.seq = LastSeq(c.state)
  BY DEF Checks
<1>3. at \in 1..n /\ at \in 0..n /\ c.state \in Seq(Frame)
  BY <1>1, <1>2 DEF Checkpoint
<1>4. rest \in Seq(Line) /\ Len(rest) = n - at /\ \A j \in 1..Len(rest) : rest[j] = d.lines[at + j]
  BY <1>1, <1>3, SubSeqProperties, SMTT(30)
<1>5. TailOf(d, at).frames = tail
  BY DEF TailOf, TailLines, Frames
<1>6. tail \in Seq(Frame)
  <2>. HIDE DEF rest
  <2>1. Len(rest) \in Nat
    BY <1>4, LenProperties
  <2>2. Len(rest) \in 0..Len(rest)
    BY <2>1
  <2>. QED
    BY <1>4, <2>2, FramesToIs DEF Framed
<1>7. all \in Seq(Frame)
  BY <1>3, <1>6, ConcatProperties
<1>8. ASSUME Clean(d.lines) PROVE all = Framed(d.lines)
  <2>1. c.state = FramesTo(d.lines)[at]
    BY <1>2, <1>8 DEF Covers
  <2>2. FramesTo(d.lines)[at] \o Framed(rest) = Framed(d.lines)
    <3>. HIDE DEF rest, at
    <3>. QED
      BY <1>1, <1>3, <1>4, TailFrames
  <2>. QED
    BY <2>1, <2>2
<1>9. AtMost(d.lines, LastSeq(all))
  <2>1. \A j \in 1..n : d.lines[j] \in Line /\ d.lines[j].frame.seq \in Nat
    BY <1>1, LineIs
  <2>2. d.lines[at].kind = "frame" /\ d.lines[at].frame.seq = LastSeq(c.state)
    BY <1>2 DEF FrameLine
  <2>3. \A j \in 1..at : d.lines[j].kind = "frame" => d.lines[j].frame.seq <= d.lines[at].frame.seq
    <3>. SUFFICES ASSUME NEW j \in 1..at, d.lines[j].kind = "frame", j # at
                  PROVE  d.lines[j].frame.seq <= d.lines[at].frame.seq
      BY <1>3, <2>1
    <3>1. j \in 1..(at - 1) /\ j \in 1..n
      BY <1>1, <1>3
    <3>2. d.lines[j].frame.seq < d.lines[at].frame.seq
      BY <1>0, <1>1, <1>3, <2>2, <3>1 DEF Ordered
    <3>. QED
      BY <1>3, <2>1, <3>1, <3>2
  <2>4. Ordered(rest)
    <3>. SUFFICES ASSUME NEW k \in DOMAIN rest, rest[k].kind = "frame"
                  PROVE  /\ rest[k].frame.seq > 0
                         /\ \A j \in 1..(k - 1) : rest[j].kind = "frame" =>
                              rest[j].frame.seq < rest[k].frame.seq
      BY DEF Ordered
    <3>. HIDE DEF rest, at
    <3>1. Len(rest) \in Nat /\ DOMAIN rest = 1..Len(rest)
      BY <1>4, LenProperties
    <3>2. k \in 1..Len(rest) /\ at + k \in 1..n /\ rest[k] = d.lines[at + k]
      BY <1>1, <1>3, <1>4, <3>1, SMTT(30)
    <3>3. rest[k].frame.seq > 0
      BY <1>0, <1>1, <3>2 DEF Ordered
    <3>4. ASSUME NEW j \in 1..(k - 1), rest[j].kind = "frame" PROVE rest[j].frame.seq < rest[k].frame.seq
      <4>1. j \in 1..Len(rest) /\ at + j \in 1..((at + k) - 1)
        BY <1>1, <1>3, <3>1, <3>2
      <4>2. rest[j] = d.lines[at + j]
        BY <1>4, <4>1
      <4>. QED
        BY <1>0, <1>1, <3>2, <3>4, <4>1, <4>2 DEF Ordered
    <3>. QED
      BY <3>3, <3>4
  <2>5. CASE tail = <<>>
    <3>1. all = c.state
      BY <1>3, <2>5, ConcatEmptySeq
    <3>2. ASSUME NEW j \in 1..n, d.lines[j].kind = "frame" PROVE j \in 1..at
      <4>. SUFFICES ASSUME j \notin 1..at PROVE FALSE
        OBVIOUS
      <4>. HIDE DEF rest, at
      <4>0. Len(rest) \in Nat
        BY <1>4, LenProperties
      <4>1. j - at \in 1..Len(rest) /\ at + (j - at) = j /\ Len(rest) \in 0..Len(rest)
        BY <1>1, <1>3, <1>4, <4>0
      <4>2. rest[j - at] = d.lines[j]
        BY <1>4, <4>1
      <4>3. \E i \in DOMAIN FramesTo(rest)[Len(rest)] : FramesTo(rest)[Len(rest)][i] = rest[j - at].frame
        BY <1>4, <3>2, <4>1, <4>2, EachFrame
      <4>4. FramesTo(rest)[Len(rest)] = <<>>
        BY <2>5 DEF Framed
      <4>. QED
        BY <4>3, <4>4
    <3>. HIDE DEF all
    <3>. QED
      BY <1>1, <2>2, <2>3, <3>1, <3>2 DEF AtMost
  <2>6. CASE tail # <<>>
    <3>0. Len(tail) \in Nat /\ Len(tail) >= 1 /\ Len(c.state) \in Nat
      BY <1>3, <1>6, <2>6, LenProperties, EmptySeq
    <3>1. LastSeq(all) = LastSeq(tail)
      <4>. HIDE DEF tail
      <4>1. Len(all) = Len(c.state) + Len(tail) /\ all[Len(all)] = tail[Len(tail)] /\ all # <<>>
        BY <1>3, <1>6, <3>0, ConcatProperties
      <4>. HIDE DEF all
      <4>. QED
        BY <2>6, <4>1 DEF LastSeq, Last
    <3>. HIDE DEF rest, at, all
    <3>2. Len(rest) \in Nat /\ Len(rest) \in 0..Len(rest)
      BY <1>4, LenProperties
    <3>3. \A j \in 1..Len(rest) : rest[j].kind = "frame" => rest[j].frame.seq <= LastSeq(tail)
      BY <1>4, <2>4, <3>2, FrameNumbers DEF Framed
    <3>4. PICK m \in 1..Len(rest) : rest[m].kind = "frame" /\ rest[m].frame.seq = LastSeq(tail)
      BY <1>4, <2>4, <2>6, <3>2, FrameNumbers DEF Framed
    <3>5. at + m \in 1..n /\ rest[m] = d.lines[at + m]
      BY <1>1, <1>3, <1>4, <3>2
    <3>6. ASSUME NEW j \in 1..n, d.lines[j].kind = "frame" PROVE d.lines[j].frame.seq <= LastSeq(tail)
      <4>1. CASE j \in 1..at
        <5>1. j \in 1..((at + m) - 1)
          BY <1>1, <1>3, <3>2, <4>1
        <5>2. d.lines[j].frame.seq < d.lines[at + m].frame.seq
          BY <1>0, <1>1, <3>4, <3>5, <3>6, <5>1 DEF Ordered
        <5>3. d.lines[at + m].frame.seq = LastSeq(tail)
          BY <3>4, <3>5
        <5>4. d.lines[j].frame.seq \in Nat /\ d.lines[at + m].frame.seq \in Nat
          BY <2>1, <3>5
        <5>5. \A x, y \in Nat : x < y => x <= y
          OBVIOUS
        <5>. QED
          BY <5>2, <5>3, <5>4, <5>5, Zenon
      <4>2. CASE j \notin 1..at
        <5>1. j - at \in 1..Len(rest) /\ at + (j - at) = j
          BY <1>1, <1>3, <1>4, <3>2, <4>2
        <5>. QED
          BY <1>4, <3>3, <3>6, <5>1
      <4>. QED
        BY <4>1, <4>2
    <3>. QED
      BY <1>1, <3>1, <3>6 DEF AtMost
  <2>. QED
    BY <2>5, <2>6
<1>. QED
  BY <1>5, <1>7, <1>8, <1>9

\* What a resume brings back is the state of all the lines.
LEMMA ResumedIs ==
  ASSUME Stored(disk), checkpoint \in Checkpoint, Covers(disk, checkpoint), Resumed.ok
  PROVE  /\ Resumed.frames \in Seq(Frame)
         /\ AtMost(disk.lines, LastSeq(Resumed.frames))
         /\ Clean(disk.lines) => Resumed.frames = Framed(disk.lines)
<1>0. disk \in Disk /\ disk.lines # <<>>
  BY DEF Stored
<1>1. CASE FromCheckpoint
  <2>1. Checks(disk, checkpoint) /\ TailOf(disk, checkpoint.at).ok
    BY <1>1 DEF FromCheckpoint
  <2>2. Resumed.frames = checkpoint.state \o TailOf(disk, checkpoint.at).frames
    BY <2>1 DEF Resumed
  <2>. QED
    BY <2>1, <2>2, TailIs
<1>2. CASE ~FromCheckpoint
  <2>1. Resumed = Replay(disk)
    BY <1>2 DEF FromCheckpoint, Resumed
  <2>2. Resumed.frames = Framed(disk.lines) /\ Framed(disk.lines) \in Seq(Frame)
    BY <1>0, <2>1, Replayed
  <2>. QED
    BY <2>2, FramedAtMost
<1>. QED
  BY <1>1, <1>2

LEMMA CurrentIsPast ==
  ASSUME NEW d, d \in Disk, d.lines # <<>>, NEW s, Current(d.lines, s)
  PROVE  Past(d.lines, s)
<1>1. Len(d.lines) \in 0..Len(d.lines)
  BY StoredIs
<1>. QED
  BY <1>1 DEF Current, Past, Framed

-----------------------------------------------------------------------------
(* The invariant.                                                          *)

\* What a process holds, against the journal.
Known(d, o, r) ==
  /\ r.phase = "live" => Current(d.lines, r.state)
  /\ \A job \in r.jobs : Past(d.lines, job.state)
  /\ Past(d.lines, r.writing.state)
  /\ r.prepared => Upgraded(o, d)

\* The files of the directory, against each other and what was acknowledged.
Files(d, o, c, t, ids) ==
  /\ Stored(d)
  /\ Covers(d, c) /\ Covers(d, t)
  /\ c # NoCheckpoint => Upgraded(o, d)
  /\ t # NoCheckpoint => Upgraded(o, d)
  /\ Kept(d, ids)
  /\ ReadRight(o, d)

\* A process that has taken the session has its lock.
Locked == \A p \in Procs : proc[p].phase # "out" => owner = p

StoreInv ==
  /\ TypeOK /\ Locked
  /\ Files(disk, old, checkpoint, tmp, acked)
  /\ \A p \in Procs : Known(disk, old, proc[p])

LEMMA MovedFiles ==
  ASSUME NEW d, NEW e, NEW l, NEW o, NEW c, NEW t, NEW ids,
         Files(d, o, c, t, ids), e \in Disk, Moved(d, e, l), Continues(d, l),
         l.kind = "frame" => Upgraded(o, d)
  PROVE  Files(e, o, c, t, ids)
<1>1. Stored(d) /\ d \in Disk /\ d.lines # <<>>
  BY DEF Files, Stored
<1>2. Stored(e)
  BY <1>1, MovedOrdered
<1>3. Covers(e, c) /\ Covers(e, t)
  BY <1>1, MovedCovers DEF Files
<1>4. Upgraded(o, d) => Upgraded(o, e)
  BY <1>1, MovedUpgraded
<1>5. Kept(e, ids)
  BY <1>1, MovedKept DEF Files
<1>6. ReadRight(o, e)
  BY <1>1, MovedReadRight DEF Files
<1>. QED
  BY <1>2, <1>3, <1>4, <1>5, <1>6 DEF Files

LEMMA MovedKnown ==
  ASSUME NEW d, NEW e, NEW l, NEW o, NEW r,
         Stored(d), Known(d, o, r), e \in Disk, Moved(d, e, l),
         l.kind = "frame" => r.phase # "live"
  PROVE  Known(e, o, r)
<1>1. d \in Disk /\ d.lines # <<>>
  BY DEF Stored
<1>2. r.phase = "live" => Current(e.lines, r.state)
  BY MovedCurrent DEF Known
<1>3. \A job \in r.jobs : Past(e.lines, job.state)
  BY MovedPast DEF Known
<1>4. Past(e.lines, r.writing.state)
  BY MovedPast DEF Known
<1>5. r.prepared => Upgraded(o, e)
  BY <1>1, MovedUpgraded DEF Known
<1>. QED
  BY <1>2, <1>3, <1>4, <1>5 DEF Known

\* How the lock may go with a step of p that leaves it as r.
LockStep(p, r) ==
  \/ owner' = owner /\ (r.phase # "out" <=> proc[p].phase # "out")
  \/ owner = Nobody /\ owner' = p /\ r.phase # "out"
  \/ owner' = Free(p) /\ r.phase = "out"

\* A step of p: the files and the others agree with the journal, and so does p.
LEMMA Rebuilt ==
  ASSUME StoreInv, NEW p \in Procs, NEW r \in Proc, proc' = [proc EXCEPT ![p] = r], old' = old,
         Files(disk', old, checkpoint', tmp', acked'),
         \A q \in Procs \ {p} : Known(disk', old, proc[q]),
         Known(disk', old, r), LockStep(p, r),
         checkpoint' \in Checkpoint, tmp' \in Checkpoint,
         written' \in 1..MaxFrames, acked' \subseteq 1..written', collected' \in BOOLEAN
  PROVE  StoreInv'
<1>1. TypeOK /\ Locked
  BY DEF StoreInv
<1>2. proc \in [Procs -> Proc] /\ old \in BOOLEAN /\ owner \in Procs \cup {Nobody}
  BY <1>1 DEF TypeOK
<1>3. /\ proc' \in [Procs -> Proc] /\ proc'[p] = r
      /\ \A q \in Procs \ {p} : proc'[q] = proc[q]
  BY <1>2
<1>4. disk' \in Disk
  BY DEF Files, Stored
<1>5. owner' \in Procs \cup {Nobody}
  BY <1>2 DEF LockStep, Free
<1>6. owner' # Nobody => proc'[owner'].phase # "out"
  <2>1. owner # Nobody => proc[owner].phase # "out"
    BY <1>1 DEF TypeOK
  <2>. QED
    BY <1>2, <1>3, <1>5, <2>1 DEF LockStep, Free
<1>7. TypeOK'
  BY <1>2, <1>3, <1>4, <1>5, <1>6 DEF TypeOK
<1>8. Locked'
  <2>. SUFFICES ASSUME NEW q \in Procs, proc'[q].phase # "out" PROVE owner' = q
    BY DEF Locked
  <2>1. CASE q = p
    BY <1>1, <1>3, <2>1 DEF LockStep, Locked
  <2>2. CASE q # p
    <3>1. owner = q
      BY <1>1, <1>3, <2>2 DEF Locked
    <3>2. q # Nobody
      BY StoreAssumption
    <3>. QED
      BY <2>2, <3>1, <3>2 DEF LockStep, Free
  <2>. QED
    BY <2>1, <2>2
<1>9. \A q \in Procs : Known(disk', old, proc'[q])
  BY <1>3
<1>. QED
  BY <1>7, <1>8, <1>9 DEF StoreInv

\* The invariant's parts for one process.
LEMMA InvParts ==
  ASSUME StoreInv, NEW p \in Procs
  PROVE  /\ Stored(disk) /\ disk \in Disk /\ disk.lines # <<>>
         /\ Files(disk, old, checkpoint, tmp, acked)
         /\ proc \in [Procs -> Proc] /\ proc[p] \in Proc /\ Known(disk, old, proc[p])
         /\ checkpoint \in Checkpoint /\ tmp \in Checkpoint /\ old \in BOOLEAN
         /\ written \in 1..MaxFrames /\ acked \subseteq 1..written /\ collected \in BOOLEAN
         /\ proc[p].phase # "out" => owner = p
         /\ Covers(disk, checkpoint) /\ Covers(disk, tmp)
  BY DEF StoreInv, Files, Stored, TypeOK, Locked

\* A step that writes nothing.
LEMMA Quiet ==
  ASSUME StoreInv, NEW p \in Procs, NEW r \in Proc, proc' = [proc EXCEPT ![p] = r],
         UNCHANGED <<disk, old, checkpoint, tmp, written, acked>>, collected' \in BOOLEAN,
         Known(disk, old, r), LockStep(p, r)
  PROVE  StoreInv'
<1>1. Files(disk', old, checkpoint', tmp', acked')
  BY InvParts
<1>2. \A q \in Procs \ {p} : Known(disk', old, proc[q])
  BY DEF StoreInv
<1>. QED
  BY <1>1, <1>2, InvParts, Rebuilt

LEMMA AcquireStep ==
  ASSUME StoreInv, NEW p \in Procs, Acquire(p)
  PROVE  StoreInv'
<1>. DEFINE r == [proc[p] EXCEPT !.phase = "owner"]
<1>1. r \in Proc /\ r.phase = "owner"
  BY InvParts DEF Proc
<1>2. Known(disk, old, r)
  BY InvParts DEF Known, Proc
<1>3. proc' = [proc EXCEPT ![p] = r] /\ collected' \in BOOLEAN
  BY InvParts DEF Acquire, Present
<1>4. LockStep(p, r)
  BY <1>1 DEF LockStep, Acquire
<1>. HIDE DEF r
<1>. QED
  BY <1>1, <1>2, <1>3, <1>4, Quiet DEF Acquire

LEMMA ResumeFailedStep ==
  ASSUME StoreInv, NEW p \in Procs, ResumeFailed(p)
  PROVE  StoreInv'
<1>. DEFINE r == [proc[p] EXCEPT !.phase = "out", !.prepared = FALSE]
<1>1. r \in Proc /\ r.phase = "out"
  BY InvParts DEF Proc
<1>2. Known(disk, old, r)
  BY InvParts DEF Known, Proc
<1>3. proc' = [proc EXCEPT ![p] = r] /\ collected' \in BOOLEAN
  BY InvParts DEF ResumeFailed, Present
<1>4. LockStep(p, r)
  BY <1>1, InvParts DEF LockStep, ResumeFailed, Free
<1>. HIDE DEF r
<1>. QED
  BY <1>1, <1>2, <1>3, <1>4, Quiet DEF ResumeFailed

LEMMA ResumeStep ==
  ASSUME StoreInv, NEW p \in Procs, Resume(p)
  PROVE  StoreInv'
<1>. DEFINE s == Resumed.frames
            all == [state |-> s]
            r == IF FromCheckpoint
                 THEN [proc[p] EXCEPT !.phase = "live", !.state = s, !.prepared = TRUE]
                 ELSE [proc[p] EXCEPT !.phase = "live", !.state = s,
                                      !.jobs = {all}, !.stage = "repair", !.writing = all]
<1>0. /\ Resumed.ok /\ proc[p].phase = "owner"
      /\ proc' = [proc EXCEPT ![p] = r] /\ collected' \in BOOLEAN
      /\ UNCHANGED <<disk, old, checkpoint, tmp, owner, written, acked>>
  BY InvParts DEF Resume, Present
<1>1. s \in Seq(Frame) /\ Current(disk.lines, s)
  BY <1>0, InvParts, ResumedIs DEF Current
<1>2. Past(disk.lines, s)
  BY <1>1, InvParts, CurrentIsPast
<1>. HIDE DEF s
<1>3. all \in Snapshot /\ all.state = s
  BY <1>1 DEF Snapshot
<1>. HIDE DEF all
<1>4. CASE FromCheckpoint
  <2>1. r = [proc[p] EXCEPT !.phase = "live", !.state = s, !.prepared = TRUE]
    BY <1>4
  <2>. HIDE DEF r
  <2>2. r \in Proc /\ r.phase = "live" /\ r.state = s /\ r.jobs = proc[p].jobs /\ r.writing = proc[p].writing
    BY <2>1, <1>1, InvParts DEF Proc
  <2>3. Upgraded(old, disk)
    BY <1>4, InvParts DEF FromCheckpoint, Checks, Files
  <2>4. Known(disk, old, r)
    BY <1>1, <2>2, <2>3, InvParts DEF Known
  <2>5. LockStep(p, r)
    BY <1>0, <2>2 DEF LockStep
  <2>. QED
    BY <1>0, <2>2, <2>4, <2>5, Quiet
<1>5. CASE ~FromCheckpoint
  <2>1. r = [proc[p] EXCEPT !.phase = "live", !.state = s, !.jobs = {all}, !.stage = "repair", !.writing = all]
    BY <1>5
  <2>. HIDE DEF r
  <2>2. /\ r \in Proc /\ r.phase = "live" /\ r.state = s /\ r.jobs = {all} /\ r.writing = all
        /\ r.prepared = proc[p].prepared
    BY <2>1, <1>1, <1>3, InvParts DEF Proc
  <2>4. Known(disk, old, r)
    BY <1>1, <1>2, <1>3, <2>2, InvParts DEF Known
  <2>5. LockStep(p, r)
    BY <1>0, <2>2 DEF LockStep
  <2>. QED
    BY <1>0, <2>2, <2>4, <2>5, Quiet
<1>. QED
  BY <1>4, <1>5

LEMMA ProbeStep ==
  ASSUME StoreInv, NEW p \in Procs, Probe(p)
  PROVE  StoreInv'
<1>. DEFINE s == Resumed.frames
            all == [state |-> s]
<1>0. /\ Resumed.ok /\ collected' \in BOOLEAN
      /\ UNCHANGED <<disk, old, checkpoint, tmp, owner, written, acked>>
  BY InvParts DEF Probe, Present
<1>1. s \in Seq(Frame) /\ Current(disk.lines, s)
  BY <1>0, InvParts, ResumedIs DEF Current
<1>2. Past(disk.lines, s)
  BY <1>1, InvParts, CurrentIsPast
<1>3. all \in Snapshot /\ all.state = s
  BY <1>1 DEF Snapshot
<1>4. CASE FromCheckpoint
  <2>. DEFINE r == [proc[p] EXCEPT !.prepared = TRUE]
  <2>1. proc' = [proc EXCEPT ![p] = r]
    BY <1>4, InvParts DEF Probe
  <2>2. /\ r \in Proc /\ r.phase = proc[p].phase /\ r.state = proc[p].state
        /\ r.jobs = proc[p].jobs /\ r.writing = proc[p].writing
    BY InvParts DEF Proc
  <2>. HIDE DEF r
  <2>3. Upgraded(old, disk)
    BY <1>4, InvParts DEF FromCheckpoint, Checks, Files
  <2>4. Known(disk, old, r)
    BY <2>2, <2>3, InvParts DEF Known
  <2>5. LockStep(p, r)
    BY <1>0, <2>2 DEF LockStep
  <2>. QED
    BY <1>0, <2>1, <2>2, <2>4, <2>5, Quiet
<1>5. CASE ~FromCheckpoint
  <2>. DEFINE stage == IF s = <<>> THEN "idle" ELSE "repair"
              r == [proc[p] EXCEPT !.stage = stage, !.writing = all]
  <2>1. proc' = [proc EXCEPT ![p] = r]
    BY <1>5, InvParts DEF Probe
  <2>. HIDE DEF all, s
  <2>2. /\ r \in Proc /\ r.phase = proc[p].phase /\ r.state = proc[p].state
        /\ r.jobs = proc[p].jobs /\ r.writing = all /\ r.prepared = proc[p].prepared
    BY <1>3, InvParts DEF Proc
  <2>. HIDE DEF r
  <2>4. Known(disk, old, r)
    BY <1>2, <1>3, <2>2, InvParts DEF Known
  <2>5. LockStep(p, r)
    BY <1>0, <2>2 DEF LockStep
  <2>. QED
    BY <1>0, <2>1, <2>2, <2>4, <2>5, Quiet
<1>. QED
  BY <1>4, <1>5

\* A process that is not running knows nothing.
LEMMA NothingKnown ==
  ASSUME NEW d, d \in Disk, d.lines # <<>>, NEW o
  PROVE  NotRunning \in Proc /\ NotRunning.phase = "out" /\ Known(d, o, NotRunning)
<1>1. NoSnapshot \in Snapshot /\ NoSnapshot.state = <<>> /\ <<>> \in Seq(Frame)
  BY EmptySeq DEF Snapshot, NoSnapshot
<1>2. NotRunning \in Proc
  BY <1>1 DEF NotRunning, Proc
<1>3. Past(d.lines, <<>>)
  <2>1. 0 \in 0..Len(d.lines) /\ FramesTo(d.lines)[0] = <<>>
    BY StoredIs, FramesToIs
  <2>. QED
    BY <2>1 DEF Past
<1>. QED
  BY <1>1, <1>2, <1>3 DEF NotRunning, Known

LEMMA ExitStep ==
  ASSUME StoreInv, NEW p \in Procs, Exit(p)
  PROVE  StoreInv'
<1>1. NotRunning \in Proc /\ NotRunning.phase = "out" /\ Known(disk, old, NotRunning)
  BY InvParts, NothingKnown
<1>2. LockStep(p, NotRunning)
  BY <1>1 DEF LockStep, Exit
<1>3. collected' \in BOOLEAN
  BY InvParts DEF Exit
<1>. QED
  BY <1>1, <1>2, <1>3, Quiet DEF Exit

LEMMA CollectSteps ==
  ASSUME StoreInv, NEW p \in Procs, Condemn(p) \/ Collect(p) \/ AppendGone(p)
  PROVE  StoreInv'
<1>0. collected' \in BOOLEAN /\ UNCHANGED <<disk, old, checkpoint, tmp, owner, written, acked>>
  BY InvParts DEF Condemn, Collect, AppendGone, Present
<1>1. CASE Condemn(p) \/ Collect(p)
  <2>1. PICK stage \in {"idle", "collect"} : proc' = [proc EXCEPT ![p].stage = stage]
    BY <1>1 DEF Condemn, Collect
  <2>. DEFINE r == [proc[p] EXCEPT !.stage = stage]
  <2>2. proc' = [proc EXCEPT ![p] = r]
    BY <2>1, InvParts
  <2>3. /\ r \in Proc /\ r.phase = proc[p].phase /\ r.state = proc[p].state
        /\ r.jobs = proc[p].jobs /\ r.writing = proc[p].writing /\ r.prepared = proc[p].prepared
    BY InvParts DEF Proc
  <2>. HIDE DEF r
  <2>4. Known(disk, old, r)
    BY <2>3, InvParts DEF Known
  <2>5. LockStep(p, r)
    BY <1>0, <2>3 DEF LockStep
  <2>. QED
    BY <1>0, <2>2, <2>3, <2>4, <2>5, Quiet
<1>2. CASE AppendGone(p)
  <2>. DEFINE r == [proc[p] EXCEPT !.phase = "closed"]
  <2>2. proc' = [proc EXCEPT ![p] = r] /\ proc[p].phase = "live"
    BY <1>2, InvParts DEF AppendGone
  <2>3. /\ r \in Proc /\ r.phase = "closed"
        /\ r.jobs = proc[p].jobs /\ r.writing = proc[p].writing /\ r.prepared = proc[p].prepared
    BY InvParts DEF Proc
  <2>. HIDE DEF r
  <2>4. Known(disk, old, r)
    BY <2>3, InvParts DEF Known
  <2>5. LockStep(p, r)
    BY <1>0, <2>2, <2>3 DEF LockStep
  <2>. QED
    BY <1>0, <2>2, <2>3, <2>4, <2>5, Quiet
<1>. QED
  BY <1>1, <1>2

-----------------------------------------------------------------------------
(* The steps that write.                                                   *)

\* A line that is no frame disturbs nobody.
LEMMA NoFrameWritten ==
  ASSUME StoreInv, NEW e \in Disk, NEW l, Moved(disk, e, l), l.kind # "frame"
  PROVE  /\ Files(e, old, checkpoint, tmp, acked)
         /\ \A q \in Procs : Known(e, old, proc[q])
<1>0. Files(disk, old, checkpoint, tmp, acked) /\ Stored(disk)
  BY DEF StoreInv, Files
<1>1. Continues(disk, l)
  BY DEF Continues
<1>2. Files(e, old, checkpoint, tmp, acked)
  BY <1>0, <1>1, MovedFiles
<1>3. ASSUME NEW q \in Procs PROVE Known(e, old, proc[q])
  <2>1. Known(disk, old, proc[q])
    BY DEF StoreInv
  <2>. QED
    BY <1>0, <2>1, MovedKnown
<1>. QED
  BY <1>2, <1>3

\* The journal a Writer appends to, and what its processes know of it.
LEMMA PreparedIs ==
  ASSUME StoreInv, NEW p \in Procs
  PROVE  /\ Prepared(p) \in Disk /\ Stored(Prepared(p))
         /\ Moved(disk, Prepared(p), VersionLine)
         /\ Upgraded(old, Prepared(p))
         /\ Files(Prepared(p), old, checkpoint, tmp, acked)
         /\ \A q \in Procs : Known(Prepared(p), old, proc[q])
<1>1. Prepared(p) \in Disk /\ Moved(disk, Prepared(p), VersionLine) /\ Upgraded(old, Prepared(p))
  <2>1. CASE proc[p].prepared
    <3>1. Prepared(p) = disk
      BY <2>1 DEF Prepared
    <3>. QED
      BY <2>1, <3>1, InvParts DEF Known, Moved
  <2>2. CASE ~proc[p].prepared
    <3>1. Prepared(p) = Prepare(disk)
      BY <2>2 DEF Prepared
    <3>. QED
      BY <3>1, InvParts, PrepareIs
  <2>. QED
    BY <2>1, <2>2
<1>2. Files(Prepared(p), old, checkpoint, tmp, acked) /\ \A q \in Procs : Known(Prepared(p), old, proc[q])
  BY <1>1, NoFrameWritten, NotFrames
<1>. QED
  BY <1>1, <1>2 DEF Files

\* The frame a process appends to the state s.
LEMMA NewFrameIs ==
  ASSUME StoreInv, NEW s \in Seq(Frame), NEW d, d \in Disk, d.lines # <<>>, Current(d.lines, s)
  PROVE  /\ NewFrame(s) \in Frame /\ NewFrame(s).seq = LastSeq(s) + 1 /\ NewFrame(s).id = written + 1
         /\ LastSeq(s) \in Nat
         /\ FrameLine(NewFrame(s)) \in Line /\ FrameLine(NewFrame(s)) # Junk
         /\ FrameLine(NewFrame(s)).kind = "frame"
         /\ Continues(d, FrameLine(NewFrame(s)))
<1>1. LastSeq(s) \in Nat
  BY LastSeqIs
<1>2. MaxFrames \in Nat /\ written \in Nat
  BY StoreAssumption DEF StoreInv, TypeOK
<1>3. NewFrame(s) \in Frame /\ NewFrame(s).seq = LastSeq(s) + 1 /\ NewFrame(s).id = written + 1
  BY <1>1, <1>2 DEF NewFrame, Frame
<1>4. FrameLine(NewFrame(s)).kind = "frame" /\ FrameLine(NewFrame(s)).frame = NewFrame(s)
  BY DEF FrameLine
<1>5. Continues(d, FrameLine(NewFrame(s)))
  <2>1. ASSUME NEW k \in DOMAIN d.lines, d.lines[k].kind = "frame"
        PROVE  d.lines[k].frame.seq < LastSeq(s) + 1
    <3>1. d.lines[k].frame.seq <= LastSeq(s)
      BY <2>1 DEF Current, AtMost
    <3>2. d.lines[k].frame.seq \in Nat
      BY StoredIs, LineIs
    <3>. QED
      BY <1>1, <3>1, <3>2
  <2>2. Below(d.lines, LastSeq(s) + 1)
    BY <2>1 DEF Below
  <2>. QED
    BY <1>1, <1>3, <1>4, <2>2 DEF Continues
<1>. QED
  BY <1>1, <1>3, <1>4, <1>5, LinesAre

\* Another process does not run the session p runs, or nobody runs.
LEMMA NobodyElse ==
  ASSUME StoreInv, NEW p \in Procs, proc[p].phase # "out" \/ owner = Nobody, NEW q \in Procs \ {p}
  PROVE  proc[q].phase # "live"
<1>1. proc[q].phase = "live" => owner = q
  BY DEF StoreInv, Locked
<1>2. proc[p].phase # "out" => owner = p
  BY InvParts
<1>. QED
  BY <1>1, <1>2, StoreAssumption

\* After the frame, or what is left of it: all but the state of p.
LEMMA FrameWritten ==
  ASSUME StoreInv, NEW p \in Procs, proc[p].phase # "out" \/ owner = Nobody,
         NEW s \in Seq(Frame), Current(Prepared(p).lines, s), NEW e \in Disk,
         Moved(Prepared(p), e, FrameLine(NewFrame(s))) \/ Moved(Prepared(p), e, Junk)
  PROVE  /\ Files(e, old, checkpoint, tmp, acked) /\ Upgraded(old, e)
         /\ \A q \in Procs \ {p} : Known(e, old, proc[q])
         /\ \A r \in Proc : /\ r.phase # "live"
                            /\ r.jobs = proc[p].jobs
                            /\ r.writing = proc[p].writing
                            => Known(e, old, r)
<1>. DEFINE b == Prepared(p)
            l == IF Moved(b, e, Junk) THEN Junk ELSE FrameLine(NewFrame(s))
<1>1. /\ b \in Disk /\ b.lines # <<>> /\ Stored(b) /\ Upgraded(old, b)
      /\ Files(b, old, checkpoint, tmp, acked)
      /\ \A q \in Procs : Known(b, old, proc[q])
  BY PreparedIs DEF Stored
<1>. HIDE DEF b
<1>2. Moved(b, e, l) /\ Continues(b, l)
  <2>1. CASE Moved(b, e, Junk)
    BY <2>1, NotFrames DEF Continues
  <2>2. CASE ~Moved(b, e, Junk)
    BY <1>1, <2>2, NewFrameIs DEF b
  <2>. QED
    BY <2>1, <2>2
<1>. HIDE DEF l
<1>3. Files(e, old, checkpoint, tmp, acked)
  BY <1>1, <1>2, MovedFiles
<1>4. Upgraded(old, e)
  BY <1>1, <1>2, MovedUpgraded
<1>5. ASSUME NEW q \in Procs \ {p} PROVE Known(e, old, proc[q])
  <2>1. proc[q].phase # "live" /\ Known(b, old, proc[q])
    BY <1>1, NobodyElse
  <2>. QED
    BY <1>1, <1>2, <2>1, MovedKnown
<1>6. ASSUME NEW r \in Proc, r.phase # "live", r.jobs = proc[p].jobs, r.writing = proc[p].writing
      PROVE  Known(e, old, r)
  <2>1. Known(b, old, r)
    BY <1>1, <1>6 DEF Known
  <2>. QED
    BY <1>1, <1>2, <1>6, <2>1, MovedKnown
<1>. QED
  BY <1>3, <1>4, <1>5, <1>6

\* The frame of an append that returns has a complete line, or the journal is
\* no longer whole.
LEMMA NowKept ==
  ASSUME NEW d, d \in Disk, d.lines # <<>>, NEW f, NEW e \in Disk, e.open = FALSE,
         Spoilt(d, e) \/ Extended(d, e, FrameLine(f)), NEW ids, Kept(e, ids)
  PROVE  Kept(e, ids \cup {f.id})
<1>0. e.lines # <<>>
  BY MovedKeeps DEF Moved
<1>1. DOMAIN e.lines = 1..Len(e.lines) /\ Terminated(e) = Len(e.lines)
  BY <1>0, StoredIs
<1>2. Len(d.lines) \in Nat /\ Len(d.lines) >= 1
  BY StoredIs
<1>3. CASE Spoilt(d, e)
  <2>1. Len(d.lines) \in DOMAIN e.lines /\ e.lines[Len(d.lines)] = Junk
    BY <1>1, <1>2, <1>3 DEF Spoilt
  <2>2. ~Whole(e)
    BY <2>1 DEF Whole
  <2>. QED
    BY <2>2 DEF Kept
<1>4. CASE Extended(d, e, FrameLine(f))
  <2>1. Len(d.lines) + 1 \in 1..Terminated(e) /\ e.lines[Len(d.lines) + 1] = FrameLine(f)
    BY <1>1, <1>2, <1>4 DEF Extended
  <2>2. FrameLine(f).kind = "frame" /\ FrameLine(f).frame.id = f.id
    BY DEF FrameLine
  <2>. QED
    BY <2>1, <2>2 DEF Kept
<1>. QED
  BY <1>3, <1>4

LEMMA AppendFrameStep ==
  ASSUME StoreInv, NEW p \in Procs, NEW phase \in {"live", "closed"}, NEW snap \in BOOLEAN,
         AppendFrame(p, phase, snap)
  PROVE  StoreInv'
<1>. DEFINE s == proc[p].state
            f == NewFrame(s)
            t == Append(s, f)
            b == Prepared(p)
            l == FrameLine(f)
            jobs == IF snap THEN proc[p].jobs \cup {[state |-> t]} ELSE proc[p].jobs
            r == [proc[p] EXCEPT !.phase = phase, !.prepared = TRUE, !.state = t, !.jobs = jobs]
            r0 == [proc[p] EXCEPT !.phase = "closed"]
<1>0. /\ proc[p].phase = "live" /\ written < MaxFrames
      /\ disk' = WriteLine(b, l) /\ proc' = [proc EXCEPT ![p] = r]
      /\ written' = written + 1 /\ acked' = acked \cup {f.id}
      /\ old' = old /\ checkpoint' = checkpoint /\ tmp' = tmp /\ owner' = owner
      /\ collected' \in BOOLEAN
  BY InvParts DEF AppendFrame, Present
<1>1. /\ b \in Disk /\ b.lines # <<>> /\ Stored(b) /\ Current(b.lines, s)
  BY <1>0, PreparedIs DEF Stored, Known
<1>2. s \in Seq(Frame)
  BY InvParts DEF Proc
<1>3. /\ f \in Frame /\ f.seq = LastSeq(s) + 1 /\ f.id = written + 1 /\ LastSeq(s) \in Nat
      /\ l \in Line /\ l # Junk
  BY <1>1, <1>2, NewFrameIs
<1>4. disk' \in Disk /\ disk'.open = FALSE /\ (Spoilt(b, disk') \/ Extended(b, disk', l))
  BY <1>0, <1>1, <1>3, WritesLine
<1>5. r0 \in Proc /\ r0.phase # "live" /\ r0.jobs = proc[p].jobs /\ r0.writing = proc[p].writing
  BY InvParts DEF Proc
<1>6. /\ Files(disk', old, checkpoint, tmp, acked) /\ Upgraded(old, disk')
      /\ \A q \in Procs \ {p} : Known(disk', old, proc[q])
      /\ Known(disk', old, r0)
  <2>1. Moved(b, disk', l)
    BY <1>4 DEF Moved
  <2>. HIDE DEF r0
  <2>. QED
    BY <1>0, <1>1, <1>2, <1>4, <1>5, <2>1, FrameWritten
<1>7. Current(disk'.lines, t)
  <2>. HIDE DEF s, f, b
  <2>. QED
    BY <1>1, <1>2, <1>3, <1>4, AppendedCurrent
<1>8. disk'.lines # <<>> /\ Past(disk'.lines, t)
  BY <1>4, <1>6, <1>7, CurrentIsPast DEF Files, Stored
<1>9. Files(disk', old, checkpoint', tmp', acked')
  <2>1. Kept(disk', acked)
    BY <1>6 DEF Files
  <2>2. Kept(disk', acked \cup {f.id})
    <3>. HIDE DEF f, b
    <3>. QED
      BY <1>1, <1>4, <2>1, NowKept
  <2>. QED
    BY <1>0, <1>6, <2>2 DEF Files
<1>10. t \in Seq(Frame)
  BY <1>2, <1>3, AppendProperties
<1>. HIDE DEF t, f, b, l
<1>11. jobs \subseteq Snapshot /\ \A job \in jobs : Past(disk'.lines, job.state)
  <2>1. proc[p].jobs \subseteq Snapshot /\ \A job \in proc[p].jobs : Past(disk'.lines, job.state)
    BY <1>5, <1>6, InvParts DEF Known, Proc
  <2>2. [state |-> t] \in Snapshot /\ [state |-> t].state = t
    BY <1>10 DEF Snapshot
  <2>. QED
    BY <1>8, <2>1, <2>2
<1>. HIDE DEF jobs
<1>12. /\ r \in Proc /\ r.phase = phase /\ r.state = t /\ r.jobs = jobs
       /\ r.writing = proc[p].writing
  BY <1>10, <1>11, InvParts DEF Proc
<1>13. Known(disk', old, r)
  <2>1. Past(disk'.lines, proc[p].writing.state)
    BY <1>5, <1>6 DEF Known
  <2>. HIDE DEF r
  <2>. QED
    BY <1>6, <1>7, <1>11, <1>12, <2>1 DEF Known
<1>. HIDE DEF r
<1>14. LockStep(p, r)
  BY <1>0, <1>12 DEF LockStep
<1>15. written' \in 1..MaxFrames /\ acked' \subseteq 1..written'
  <2>1. written \in 1..MaxFrames /\ acked \subseteq 1..written /\ MaxFrames \in Nat
    BY InvParts, StoreAssumption
  <2>. QED
    BY <1>0, <1>3, <2>1
<1>. QED
  BY <1>0, <1>6, <1>9, <1>12, <1>13, <1>14, <1>15, InvParts, Rebuilt

\* The frames a rename continues are those of the journal it appends to.
LEMMA RenamedFrom ==
  ASSUME StoreInv, NEW p \in Procs, Replay(disk).ok
  PROVE  /\ Replay(disk).frames \in Seq(Frame)
         /\ Current(disk.lines, Replay(disk).frames)
         /\ Current(Prepared(p).lines, Replay(disk).frames)
<1>1. Stored(disk) /\ disk \in Disk /\ disk.lines # <<>>
  BY InvParts
<1>2. Replay(disk).frames \in Seq(Frame) /\ Replay(disk).frames = Framed(disk.lines)
  BY <1>1, Replayed
<1>3. Current(disk.lines, Replay(disk).frames)
  BY <1>1, <1>2, FramedAtMost DEF Current
<1>4. Prepared(p) \in Disk /\ Moved(disk, Prepared(p), VersionLine) /\ VersionLine.kind # "frame"
  BY PreparedIs, NotFrames
<1>. QED
  BY <1>1, <1>2, <1>3, <1>4, MovedCurrent

LEMMA RenameStep ==
  ASSUME StoreInv, NEW p \in Procs, Rename(p)
  PROVE  StoreInv'
<1>. DEFINE s == Replay(disk).frames
            f == NewFrame(s)
            b == Prepared(p)
            l == FrameLine(f)
            r == [proc[p] EXCEPT !.prepared = FALSE]
<1>0. /\ proc[p].phase = "out" /\ owner = Nobody /\ written < MaxFrames /\ Replay(disk).ok
      /\ disk' = WriteLine(b, l) /\ proc' = [proc EXCEPT ![p] = r]
      /\ written' = written + 1 /\ acked' = acked \cup {f.id}
      /\ old' = old /\ checkpoint' = checkpoint /\ tmp' = tmp /\ owner' = owner
      /\ collected' \in BOOLEAN
  BY InvParts DEF Rename, Present
<1>1. b \in Disk /\ b.lines # <<>> /\ Stored(b)
  BY PreparedIs DEF Stored
<1>2. s \in Seq(Frame) /\ Current(b.lines, s)
  BY <1>0, RenamedFrom
<1>3. f \in Frame /\ f.id = written + 1 /\ l \in Line /\ l # Junk
  BY <1>1, <1>2, NewFrameIs
<1>4. disk' \in Disk /\ disk'.open = FALSE /\ (Spoilt(b, disk') \/ Extended(b, disk', l))
  BY <1>0, <1>1, <1>3, WritesLine
<1>5. r \in Proc /\ r.phase = "out" /\ r.jobs = proc[p].jobs /\ r.writing = proc[p].writing
  BY <1>0, InvParts DEF Proc
<1>. HIDE DEF r
<1>6. /\ Files(disk', old, checkpoint, tmp, acked)
      /\ \A q \in Procs \ {p} : Known(disk', old, proc[q])
      /\ Known(disk', old, r)
  <2>1. Moved(b, disk', l)
    BY <1>4 DEF Moved
  <2>2. r.phase # "live"
    BY <1>5
  <2>. HIDE DEF s
  <2>. QED
    BY <1>0, <1>2, <1>4, <1>5, <2>1, <2>2, FrameWritten
<1>7. Files(disk', old, checkpoint', tmp', acked')
  <2>1. Kept(disk', acked)
    BY <1>6 DEF Files
  <2>2. Kept(disk', acked \cup {f.id})
    <3>. HIDE DEF f, b
    <3>. QED
      BY <1>1, <1>4, <2>1, NowKept
  <2>. QED
    BY <1>0, <1>6, <2>2 DEF Files
<1>8. LockStep(p, r)
  BY <1>0, <1>5 DEF LockStep
<1>. HIDE DEF f, b, l
<1>9. written' \in 1..MaxFrames /\ acked' \subseteq 1..written'
  <2>1. written \in 1..MaxFrames /\ acked \subseteq 1..written /\ MaxFrames \in Nat
    BY InvParts, StoreAssumption
  <2>. QED
    BY <1>0, <1>3, <2>1
<1>. QED
  BY <1>0, <1>5, <1>6, <1>7, <1>8, <1>9, InvParts, Rebuilt

\* An append cut short, at the frame or at the version line before it.
LEMMA CutWritten ==
  ASSUME StoreInv, NEW p \in Procs, proc[p].phase # "out" \/ owner = Nobody,
         NEW s \in Seq(Frame), Current(Prepared(p).lines, s),
         NEW cut \in Cut(p, FrameLine(NewFrame(s)))
  PROVE  /\ cut.disk \in Disk /\ cut.prepared \in BOOLEAN
         /\ Files(cut.disk, old, checkpoint, tmp, acked)
         /\ \A q \in Procs \ {p} : Known(cut.disk, old, proc[q])
         /\ \A r \in Proc : /\ r.phase # "live"
                            /\ r.jobs = proc[p].jobs
                            /\ r.writing = proc[p].writing
                            /\ r.prepared => cut.prepared
                            => Known(cut.disk, old, r)
<1>. DEFINE b == Prepared(p)
            l == FrameLine(NewFrame(s))
            e == cut.disk
<1>1. \/ e \in CutShort(b, l) /\ cut.prepared = TRUE
      \/ e \in CutShort(disk, VersionLine) /\ cut.prepared = FALSE
  BY DEF Cut
<1>2. b \in Disk /\ b.lines # <<>>
  BY PreparedIs DEF Stored
<1>3. l \in Line /\ l # Junk
  BY <1>2, NewFrameIs
<1>4. disk \in Disk /\ disk.lines # <<>>
  BY InvParts
<1>. HIDE DEF e
<1>5. CASE e \in CutShort(b, l) /\ cut.prepared = TRUE
  <2>1. e \in Disk /\ (Moved(b, e, l) \/ Moved(b, e, Junk))
    BY <1>2, <1>3, <1>5, Cuts
  <2>2. /\ Files(e, old, checkpoint, tmp, acked)
        /\ \A q \in Procs \ {p} : Known(e, old, proc[q])
        /\ \A r \in Proc : /\ r.phase # "live"
                           /\ r.jobs = proc[p].jobs
                           /\ r.writing = proc[p].writing
                           => Known(e, old, r)
    BY <2>1, FrameWritten
  <2>. QED
    BY <1>5, <2>1, <2>2 DEF e
<1>6. CASE e \in CutShort(disk, VersionLine) /\ cut.prepared = FALSE
  <2>1. e \in Disk /\ (Moved(disk, e, VersionLine) \/ Moved(disk, e, Junk))
    BY <1>4, <1>6, Cuts, LinesAre
  <2>2. Files(e, old, checkpoint, tmp, acked) /\ \A q \in Procs : Known(e, old, proc[q])
    BY <2>1, NoFrameWritten, NotFrames
  <2>3. ASSUME NEW r \in Proc, r.phase # "live", r.jobs = proc[p].jobs, r.writing = proc[p].writing,
               r.prepared => cut.prepared
        PROVE  Known(e, old, r)
    BY <1>6, <2>2, <2>3 DEF Known
  <2>. QED
    BY <1>6, <2>1, <2>2, <2>3 DEF e
<1>. QED
  BY <1>1, <1>5, <1>6 DEF e

LEMMA AppendCutStep ==
  ASSUME StoreInv, NEW p \in Procs, NEW gone \in BOOLEAN, AppendCut(p, gone)
  PROVE  StoreInv'
<1>. DEFINE s == proc[p].state
<1>0. /\ proc[p].phase = "live" /\ written < MaxFrames /\ written' = written + 1
      /\ owner' = IF gone THEN Free(p) ELSE owner
      /\ old' = old /\ checkpoint' = checkpoint /\ tmp' = tmp /\ acked' = acked
      /\ collected' \in BOOLEAN
  BY InvParts DEF AppendCut, Present
<1>1. PICK cut \in Cut(p, FrameLine(NewFrame(s))) :
        /\ disk' = cut.disk
        /\ proc' = [proc EXCEPT ![p] =
             IF gone THEN NotRunning
             ELSE [@ EXCEPT !.phase = "closed", !.prepared = cut.prepared]]
  BY DEF AppendCut
<1>2. s \in Seq(Frame) /\ Current(Prepared(p).lines, s)
  BY <1>0, InvParts, PreparedIs DEF Proc, Known
<1>3. /\ cut.disk \in Disk /\ cut.prepared \in BOOLEAN
      /\ Files(cut.disk, old, checkpoint, tmp, acked)
      /\ \A q \in Procs \ {p} : Known(cut.disk, old, proc[q])
      /\ \A r \in Proc : /\ r.phase # "live"
                         /\ r.jobs = proc[p].jobs
                         /\ r.writing = proc[p].writing
                         /\ r.prepared => cut.prepared
                         => Known(cut.disk, old, r)
  <2>. HIDE DEF s
  <2>. QED
    BY <1>0, <1>2, CutWritten
<1>4. written' \in 1..MaxFrames /\ acked' \subseteq 1..written'
  <2>1. written \in 1..MaxFrames /\ acked \subseteq 1..written /\ MaxFrames \in Nat
    BY InvParts, StoreAssumption
  <2>. QED
    BY <1>0, <2>1
<1>5. CASE gone
  <2>1. proc' = [proc EXCEPT ![p] = NotRunning] /\ owner' = Free(p)
    BY <1>0, <1>1, <1>5
  <2>2. NotRunning \in Proc /\ NotRunning.phase = "out" /\ Known(cut.disk, old, NotRunning)
    BY <1>3, NothingKnown DEF Files, Stored
  <2>3. LockStep(p, NotRunning)
    BY <2>1, <2>2 DEF LockStep
  <2>. QED
    BY <1>0, <1>1, <1>3, <1>4, <2>1, <2>2, <2>3, InvParts, Rebuilt
<1>6. CASE ~gone
  <2>. DEFINE r == [proc[p] EXCEPT !.phase = "closed", !.prepared = cut.prepared]
  <2>1. proc' = [proc EXCEPT ![p] = r] /\ owner' = owner
    BY <1>0, <1>1, <1>6
  <2>2. /\ r \in Proc /\ r.phase = "closed" /\ r.jobs = proc[p].jobs
        /\ r.writing = proc[p].writing /\ r.prepared = cut.prepared
    BY <1>3, InvParts DEF Proc
  <2>. HIDE DEF r
  <2>3. Known(cut.disk, old, r)
    <3>1. r.phase # "live" /\ (r.prepared => cut.prepared)
      BY <2>2
    <3>. QED
      BY <1>3, <2>2, <3>1
  <2>4. LockStep(p, r)
    BY <1>0, <2>1, <2>2 DEF LockStep
  <2>. QED
    BY <1>0, <1>1, <1>3, <1>4, <2>1, <2>2, <2>3, <2>4, InvParts, Rebuilt
<1>. QED
  BY <1>5, <1>6

LEMMA RenameCutStep ==
  ASSUME StoreInv, NEW p \in Procs, RenameCut(p)
  PROVE  StoreInv'
<1>. DEFINE s == Replay(disk).frames
            r == [proc[p] EXCEPT !.prepared = FALSE]
<1>0. /\ proc[p].phase = "out" /\ owner = Nobody /\ written < MaxFrames /\ Replay(disk).ok
      /\ proc' = [proc EXCEPT ![p] = r] /\ written' = written + 1
      /\ old' = old /\ checkpoint' = checkpoint /\ tmp' = tmp /\ owner' = owner /\ acked' = acked
      /\ collected' \in BOOLEAN
  BY InvParts DEF RenameCut, Present
<1>1. PICK cut \in Cut(p, FrameLine(NewFrame(s))) : disk' = cut.disk
  BY DEF RenameCut
<1>2. s \in Seq(Frame) /\ Current(Prepared(p).lines, s)
  BY <1>0, RenamedFrom
<1>3. /\ r \in Proc /\ r.phase = "out" /\ r.jobs = proc[p].jobs
      /\ r.writing = proc[p].writing /\ r.prepared = FALSE
  BY <1>0, InvParts DEF Proc
<1>. HIDE DEF r
<1>4. /\ cut.disk \in Disk
      /\ Files(cut.disk, old, checkpoint, tmp, acked)
      /\ \A q \in Procs \ {p} : Known(cut.disk, old, proc[q])
      /\ Known(cut.disk, old, r)
  <2>1. r.phase # "live" /\ (r.prepared => cut.prepared)
    BY <1>3
  <2>. HIDE DEF s
  <2>. QED
    BY <1>0, <1>2, <1>3, <2>1, CutWritten
<1>5. LockStep(p, r)
  BY <1>0, <1>3 DEF LockStep
<1>6. written' \in 1..MaxFrames /\ acked' \subseteq 1..written'
  <2>1. written \in 1..MaxFrames /\ acked \subseteq 1..written /\ MaxFrames \in Nat
    BY InvParts, StoreAssumption
  <2>. QED
    BY <1>0, <2>1
<1>. QED
  BY <1>0, <1>1, <1>3, <1>4, <1>5, <1>6, InvParts, Rebuilt

\* A temporary file that is written covers the state it was given.
LEMMA TmpWritten ==
  ASSUME StoreInv, NEW p \in Procs, NEW base, NEW d, NEW job \in Snapshot,
         Files(d, old, checkpoint, tmp, acked), Upgraded(old, d), Past(d.lines, job.state),
         WriteTmp(p, base, d, job)
  PROVE  /\ tmp' \in Checkpoint /\ Files(d, old, checkpoint, tmp', acked)
         /\ \E stage \in {"idle", "rename"} :
              proc' = [base EXCEPT ![p].stage = stage, ![p].writing = NoSnapshot]
<1>1. tmp \in Checkpoint
  BY InvParts
<1>2. CASE tmp' = tmp /\ proc' = [base EXCEPT ![p].stage = "idle", ![p].writing = NoSnapshot]
  BY <1>1, <1>2
<1>3. CASE /\ proc' = [base EXCEPT ![p].stage = "rename", ![p].writing = NoSnapshot]
           /\ \E k \in Locate(d, LastSeq(job.state)) :
                tmp' = [at |-> k, line |-> d.lines[k].frame, state |-> job.state]
  <2>1. PICK k \in Locate(d, LastSeq(job.state)) :
          tmp' = [at |-> k, line |-> d.lines[k].frame, state |-> job.state]
    BY <1>3
  <2>2. Stored(d) /\ d \in Disk /\ d.lines # <<>>
    BY DEF Files, Stored
  <2>3. k \in 1..Terminated(d) /\ Terminated(d) \in Nat /\ Terminated(d) <= Len(d.lines)
    BY <2>2, StoredIs DEF Locate
  <2>4. k \in 1..Len(d.lines) /\ k \in Nat /\ d.lines \in Seq(Line)
    BY <2>2, <2>3, StoredIs
  <2>5. d.lines[k].frame \in Frame /\ job.state \in Seq(Frame)
    BY <2>4, LineIs DEF Snapshot
  <2>6. tmp' \in Checkpoint /\ tmp'.at = k /\ tmp'.state = job.state
    BY <2>1, <2>4, <2>5 DEF Checkpoint
  <2>7. Covers(d, tmp')
    BY <2>2, <2>6, Located
  <2>. QED
    BY <1>3, <2>6, <2>7 DEF Files
<1>. QED
  BY <1>2, <1>3 DEF WriteTmp

LEMMA WriteCheckpointStep ==
  ASSUME StoreInv, NEW p \in Procs, NEW job \in proc[p].jobs, WriteCheckpoint(p, job)
  PROVE  StoreInv'
<1>. DEFINE base == [proc EXCEPT ![p].jobs = @ \ {job}, ![p].prepared = TRUE]
<1>0. /\ disk' = Prepared(p) /\ WriteTmp(p, base, disk', job)
      /\ old' = old /\ checkpoint' = checkpoint /\ owner' = owner /\ written' = written /\ acked' = acked
      /\ collected' \in BOOLEAN
  BY InvParts DEF WriteCheckpoint, Present
<1>1. /\ Upgraded(old, disk') /\ Files(disk', old, checkpoint, tmp, acked)
      /\ \A q \in Procs : Known(disk', old, proc[q])
  BY <1>0, PreparedIs
<1>2. job \in Snapshot /\ Past(disk'.lines, job.state)
  BY <1>1, InvParts DEF Known, Proc
<1>3. /\ tmp' \in Checkpoint /\ Files(disk', old, checkpoint, tmp', acked)
      /\ \E stage \in {"idle", "rename"} :
           proc' = [base EXCEPT ![p].stage = stage, ![p].writing = NoSnapshot]
  <2>. HIDE DEF base
  <2>. QED
    BY <1>0, <1>1, <1>2, TmpWritten
<1>4. PICK stage \in {"idle", "rename"} :
        proc' = [base EXCEPT ![p].stage = stage, ![p].writing = NoSnapshot]
  BY <1>3
<1>. DEFINE r == [proc[p] EXCEPT !.jobs = @ \ {job}, !.prepared = TRUE,
                                 !.stage = stage, !.writing = NoSnapshot]
<1>5. proc' = [proc EXCEPT ![p] = r]
  BY <1>4, InvParts DEF Proc
<1>6. NoSnapshot \in Snapshot /\ NoSnapshot.state = <<>> /\ Past(disk'.lines, <<>>)
  <2>1. disk' \in Disk /\ disk'.lines # <<>>
    BY <1>1 DEF Files, Stored
  <2>2. Known(disk', old, NotRunning)
    BY <2>1, NothingKnown
  <2>. QED
    BY <2>2, EmptySeq DEF Known, NotRunning, NoSnapshot, Snapshot
<1>7. /\ r \in Proc /\ r.phase = proc[p].phase /\ r.state = proc[p].state
      /\ r.jobs = proc[p].jobs \ {job} /\ r.writing = NoSnapshot
  BY <1>6, InvParts DEF Proc
<1>. HIDE DEF r
<1>8. Known(disk', old, r)
  BY <1>1, <1>6, <1>7 DEF Known
<1>9. LockStep(p, r)
  BY <1>0, <1>7 DEF LockStep
<1>. QED
  BY <1>0, <1>1, <1>3, <1>5, <1>7, <1>8, <1>9, InvParts, Rebuilt

LEMMA RepairStep ==
  ASSUME StoreInv, NEW p \in Procs, Repair(p)
  PROVE  StoreInv'
<1>0. /\ disk' = Prepare(disk) /\ WriteTmp(p, proc, disk', proc[p].writing)
      /\ old' = old /\ checkpoint' = checkpoint /\ owner' = owner /\ written' = written /\ acked' = acked
      /\ collected' \in BOOLEAN
  BY InvParts DEF Repair, Present
<1>1. disk' \in Disk /\ Moved(disk, disk', VersionLine) /\ Upgraded(old, disk')
  BY <1>0, InvParts, PrepareIs
<1>2. Files(disk', old, checkpoint, tmp, acked) /\ \A q \in Procs : Known(disk', old, proc[q])
  BY <1>1, NoFrameWritten, NotFrames
<1>3. proc[p].writing \in Snapshot /\ Past(disk'.lines, proc[p].writing.state)
  BY <1>2, InvParts DEF Known, Proc
<1>4. /\ tmp' \in Checkpoint /\ Files(disk', old, checkpoint, tmp', acked)
      /\ \E stage \in {"idle", "rename"} :
           proc' = [proc EXCEPT ![p].stage = stage, ![p].writing = NoSnapshot]
  BY <1>0, <1>1, <1>2, <1>3, TmpWritten
<1>5. PICK stage \in {"idle", "rename"} :
        proc' = [proc EXCEPT ![p].stage = stage, ![p].writing = NoSnapshot]
  BY <1>4
<1>. DEFINE r == [proc[p] EXCEPT !.stage = stage, !.writing = NoSnapshot]
<1>6. proc' = [proc EXCEPT ![p] = r]
  BY <1>5, InvParts DEF Proc
<1>7. NoSnapshot \in Snapshot /\ NoSnapshot.state = <<>> /\ Past(disk'.lines, <<>>)
  <2>1. disk' \in Disk /\ disk'.lines # <<>>
    BY <1>2 DEF Files, Stored
  <2>2. Known(disk', old, NotRunning)
    BY <2>1, NothingKnown
  <2>. QED
    BY <2>2, EmptySeq DEF Known, NotRunning, NoSnapshot, Snapshot
<1>8. /\ r \in Proc /\ r.phase = proc[p].phase /\ r.state = proc[p].state
      /\ r.jobs = proc[p].jobs /\ r.writing = NoSnapshot /\ r.prepared = proc[p].prepared
  BY <1>7, InvParts DEF Proc
<1>. HIDE DEF r
<1>9. Known(disk', old, r)
  BY <1>2, <1>7, <1>8 DEF Known
<1>10. LockStep(p, r)
  BY <1>0, <1>8 DEF LockStep
<1>. QED
  BY <1>0, <1>2, <1>4, <1>6, <1>8, <1>9, <1>10, InvParts, Rebuilt

LEMMA InstallCheckpointStep ==
  ASSUME StoreInv, NEW p \in Procs, InstallCheckpoint(p)
  PROVE  StoreInv'
<1>. DEFINE r == [proc[p] EXCEPT !.stage = "idle"]
<1>0. /\ checkpoint' \in {checkpoint, tmp, NoCheckpoint} /\ tmp' = NoCheckpoint
      /\ proc' = [proc EXCEPT ![p] = r]
      /\ disk' = disk /\ old' = old /\ owner' = owner /\ written' = written /\ acked' = acked
      /\ collected' \in BOOLEAN
  BY InvParts DEF InstallCheckpoint, Present
<1>1. NoCheckpoint \in Checkpoint
  BY EmptySeq DEF NoCheckpoint, Checkpoint, NoFrame, Frame
<1>2. Covers(disk, NoCheckpoint)
  BY DEF Covers
<1>3. checkpoint' \in Checkpoint /\ tmp' \in Checkpoint
  BY <1>0, <1>1, InvParts
<1>4. Files(disk', old, checkpoint', tmp', acked')
  BY <1>0, <1>2, InvParts DEF Files
<1>5. /\ r \in Proc /\ r.phase = proc[p].phase /\ r.state = proc[p].state
      /\ r.jobs = proc[p].jobs /\ r.writing = proc[p].writing /\ r.prepared = proc[p].prepared
  BY InvParts DEF Proc
<1>. HIDE DEF r
<1>6. \A q \in Procs : Known(disk', old, proc[q])
  BY <1>0 DEF StoreInv
<1>7. Known(disk', old, r)
  BY <1>5, <1>6 DEF Known
<1>8. LockStep(p, r)
  BY <1>0, <1>5 DEF LockStep
<1>. QED
  BY <1>0, <1>3, <1>4, <1>5, <1>6, <1>7, <1>8, InvParts, Rebuilt

\* A version line cut short, whatever process goes on from it.
LEMMA VersionCutStep ==
  ASSUME StoreInv, NEW p \in Procs, NEW gone \in BOOLEAN, NEW rest \in Proc,
         VersionCut(p, gone, rest), rest.phase = proc[p].phase, rest.state = proc[p].state,
         rest.jobs \subseteq proc[p].jobs, rest.prepared => proc[p].prepared,
         rest.writing \in {proc[p].writing, NoSnapshot}
  PROVE  StoreInv'
<1>0. /\ disk' \in CutShort(disk, VersionLine)
      /\ proc' = [proc EXCEPT ![p] = IF gone THEN NotRunning ELSE rest]
      /\ owner' = IF gone THEN Free(p) ELSE owner
      /\ old' = old /\ checkpoint' = checkpoint /\ tmp' = tmp /\ written' = written /\ acked' = acked
      /\ collected' \in BOOLEAN
  BY InvParts DEF VersionCut, Present
<1>1. disk' \in Disk /\ (Moved(disk, disk', VersionLine) \/ Moved(disk, disk', Junk))
  BY <1>0, InvParts, Cuts, LinesAre
<1>2. Files(disk', old, checkpoint, tmp, acked) /\ \A q \in Procs : Known(disk', old, proc[q])
  BY <1>1, NoFrameWritten, NotFrames
<1>3. disk'.lines # <<>>
  BY <1>2 DEF Files, Stored
<1>4. NotRunning \in Proc /\ NotRunning.phase = "out" /\ Known(disk', old, NotRunning)
  BY <1>1, <1>3, NothingKnown
<1>5. CASE gone
  <2>1. proc' = [proc EXCEPT ![p] = NotRunning] /\ LockStep(p, NotRunning)
    BY <1>0, <1>4, <1>5 DEF LockStep
  <2>. QED
    BY <1>0, <1>2, <1>4, <2>1, InvParts, Rebuilt
<1>6. CASE ~gone
  <2>1. proc' = [proc EXCEPT ![p] = rest] /\ LockStep(p, rest)
    BY <1>0, <1>6 DEF LockStep
  <2>2. Past(disk'.lines, NoSnapshot.state)
    BY <1>4 DEF Known, NotRunning
  <2>3. Known(disk', old, rest)
    BY <1>2, <2>2 DEF Known
  <2>. QED
    BY <1>0, <1>2, <2>1, <2>3, InvParts, Rebuilt
<1>. QED
  BY <1>5, <1>6

LEMMA CutSteps ==
  ASSUME StoreInv, NEW p \in Procs, NEW gone \in BOOLEAN
  PROVE  /\ RepairCut(p, gone) => StoreInv'
         /\ \A job \in proc[p].jobs : CheckpointCut(p, gone, job) => StoreInv'
<1>1. ASSUME RepairCut(p, gone) PROVE StoreInv'
  <2>. DEFINE r == [proc[p] EXCEPT !.stage = "idle", !.writing = NoSnapshot]
  <2>1. VersionCut(p, gone, r)
    BY <1>1 DEF RepairCut
  <2>2. NoSnapshot \in Snapshot
    BY EmptySeq DEF NoSnapshot, Snapshot
  <2>3. /\ r \in Proc /\ r.phase = proc[p].phase /\ r.state = proc[p].state
        /\ r.jobs = proc[p].jobs /\ r.writing = NoSnapshot /\ r.prepared = proc[p].prepared
    BY <2>2, InvParts DEF Proc
  <2>. HIDE DEF r
  <2>. QED
    BY <2>1, <2>3, VersionCutStep
<1>2. ASSUME NEW job \in proc[p].jobs, CheckpointCut(p, gone, job) PROVE StoreInv'
  <2>. DEFINE r == [proc[p] EXCEPT !.jobs = @ \ {job}]
  <2>1. VersionCut(p, gone, r)
    BY <1>2 DEF CheckpointCut
  <2>3. /\ r \in Proc /\ r.phase = proc[p].phase /\ r.state = proc[p].state
        /\ r.jobs \subseteq proc[p].jobs /\ r.writing = proc[p].writing /\ r.prepared = proc[p].prepared
    BY InvParts DEF Proc
  <2>. HIDE DEF r
  <2>. QED
    BY <2>1, <2>3, VersionCutStep
<1>. QED
  BY <1>1, <1>2

-----------------------------------------------------------------------------
(* The invariant holds, and what follows from it.                          *)

LEMMA StoreInit == Init => StoreInv
<1>. SUFFICES ASSUME Init PROVE StoreInv
  OBVIOUS
<1>. DEFINE f == [seq |-> 1, id |-> 1, new |-> ~old]
            head == FrameLine(f)
<1>0. old \in BOOLEAN
  BY DEF Init
<1>1. PICK torn \in BOOLEAN :
        disk = [lines |-> IF torn THEN <<head, Junk>> ELSE <<head>>, open |-> torn]
  BY DEF Init
<1>2. f \in Frame /\ f.seq = 1 /\ f.id = 1 /\ f.new = ~old
  BY <1>0 DEF Frame
<1>3. head \in Line /\ head # Junk /\ head.kind = "frame" /\ head.frame = f /\ Junk \in Line
  BY <1>2, LinesAre DEF FrameLine
<1>. HIDE DEF f, head
<1>4. /\ disk.lines \in Seq(Line) /\ disk.lines # <<>> /\ disk.lines[1] = head
      /\ disk.open = torn
      /\ Len(disk.lines) = (IF torn THEN 2 ELSE 1)
      /\ torn => disk.lines[2] = Junk
  BY <1>1, <1>3
<1>5. disk \in Disk
  <2>1. \A x \in Seq(Line), y \in BOOLEAN : [lines |-> x, open |-> y] \in Disk
    BY DEF Disk
  <2>. QED
    BY <1>1, <1>4, <2>1
<1>6. /\ DOMAIN disk.lines = 1..Len(disk.lines)
      /\ Terminated(disk) = 1
      /\ \A k \in DOMAIN disk.lines : k = 1 \/ (disk.lines[k] = Junk /\ k = Len(disk.lines) /\ disk.open)
  BY <1>4, <1>5, StoredIs
<1>7. \A k \in DOMAIN disk.lines : disk.lines[k].kind = "frame" => k = 1
  BY <1>6, NotFrames
<1>8. Stored(disk)
  <2>1. Ordered(disk.lines)
    BY <1>2, <1>3, <1>4, <1>7 DEF Ordered
  <2>. QED
    BY <1>4, <1>5, <2>1 DEF Stored
<1>9. Kept(disk, acked)
  <2>1. acked = {1} /\ 1 \in 1..Terminated(disk)
    BY <1>6 DEF Init
  <2>. QED
    BY <1>2, <1>3, <1>4, <2>1 DEF Kept
<1>10. ReadRight(old, disk)
  <2>. SUFFICES ASSUME old, NEW k \in DOMAIN disk.lines,
                       disk.lines[k].kind = "frame", disk.lines[k].frame.new
                PROVE  FALSE
    BY DEF ReadRight
  <2>1. disk.lines[k].frame = f
    BY <1>3, <1>4, <1>7
  <2>. QED
    BY <1>2, <2>1
<1>11. Files(disk, old, checkpoint, tmp, acked)
  BY <1>8, <1>9, <1>10 DEF Files, Covers, Init
<1>12. \A p \in Procs : proc[p] = NotRunning
  BY DEF Init
<1>13. NotRunning \in Proc /\ NotRunning.phase = "out" /\ Known(disk, old, NotRunning)
  BY <1>4, <1>5, NothingKnown
<1>14. Locked
  BY <1>12, <1>13 DEF Locked
<1>15. TypeOK
  <2>1. proc \in [Procs -> Proc]
    BY <1>13 DEF Init
  <2>2. NoCheckpoint \in Checkpoint
    BY EmptySeq DEF NoCheckpoint, Checkpoint, NoFrame, Frame
  <2>3. written \in 1..MaxFrames /\ acked \subseteq 1..written
    BY StoreAssumption DEF Init
  <2>. QED
    BY <1>0, <1>5, <2>1, <2>2, <2>3 DEF TypeOK, Init
<1>. QED
  BY <1>11, <1>12, <1>13, <1>14, <1>15 DEF StoreInv

LEMMA StoreStep == StoreInv /\ [Next]_vars => StoreInv'
<1>. SUFFICES ASSUME StoreInv, [Next]_vars PROVE StoreInv'
  OBVIOUS
<1>1. CASE UNCHANGED vars
  BY <1>1 DEF vars, StoreInv, TypeOK, Locked
<1>2. CASE Next
  <2>1. PICK p \in Procs :
    \/ Acquire(p)
    \/ Resume(p)
    \/ ResumeFailed(p)
    \/ Probe(p)
    \/ \E phase \in {"live", "closed"}, snap \in BOOLEAN : AppendFrame(p, phase, snap)
    \/ Rename(p)
    \/ \E job \in proc[p].jobs : WriteCheckpoint(p, job)
    \/ Repair(p)
    \/ InstallCheckpoint(p)
    \/ Exit(p)
    \/ \E gone \in BOOLEAN : AppendCut(p, gone)
    \/ RenameCut(p)
    \/ \E gone \in BOOLEAN : RepairCut(p, gone)
    \/ \E gone \in BOOLEAN, job \in proc[p].jobs : CheckpointCut(p, gone, job)
    \/ Condemn(p)
    \/ Collect(p)
    \/ AppendGone(p)
    BY <1>2 DEF Next
  <2>2. CASE Acquire(p) \/ Resume(p) \/ ResumeFailed(p) \/ Probe(p) \/ Exit(p)
    BY <2>2, AcquireStep, ResumeStep, ResumeFailedStep, ProbeStep, ExitStep
  <2>3. CASE Condemn(p) \/ Collect(p) \/ AppendGone(p)
    BY <2>3, CollectSteps
  <2>4. CASE \E phase \in {"live", "closed"}, snap \in BOOLEAN : AppendFrame(p, phase, snap)
    BY <2>4, AppendFrameStep
  <2>5. CASE Rename(p) \/ RenameCut(p) \/ \E gone \in BOOLEAN : AppendCut(p, gone)
    BY <2>5, RenameStep, RenameCutStep, AppendCutStep
  <2>6. CASE (\E job \in proc[p].jobs : WriteCheckpoint(p, job)) \/ Repair(p) \/ InstallCheckpoint(p)
    BY <2>6, WriteCheckpointStep, RepairStep, InstallCheckpointStep
  <2>7. CASE \/ \E gone \in BOOLEAN : RepairCut(p, gone)
             \/ \E gone \in BOOLEAN, job \in proc[p].jobs : CheckpointCut(p, gone, job)
    BY <2>7, CutSteps
  <2>. QED
    BY <2>1, <2>2, <2>3, <2>4, <2>5, <2>6, <2>7
<1>. QED
  BY <1>1, <1>2

\* The directory, the lock and what the processes hold agree in every state:
\* the invariant that everything below follows from.
THEOREM StoreInduction == Spec => []StoreInv
<1>. QED
  BY StoreInit, StoreStep, PTL DEF Spec

\* Every variable has its type, and the lock is never left with a process that
\* has gone or given the session back.
THEOREM StoreTypes == Spec => []TypeOK
<1>1. StoreInv => TypeOK
  BY DEF StoreInv
<1>. QED
  BY <1>1, StoreInduction, PTL

\* Whatever processes wrote them, and however they ended, the frames of a
\* journal are numbered upward: the fold, the rename and the lock agree on who
\* continues the numbers.
THEOREM FramesInOrder == Spec => []SeqOrder
<1>1. ASSUME StoreInv PROVE SeqOrder
  <2>1. disk \in Disk /\ disk.lines # <<>> /\ Ordered(disk.lines)
    BY <1>1 DEF StoreInv, Files, Stored
  <2>2. disk.lines \in Seq(Line) /\ Len(disk.lines) \in 0..Len(disk.lines)
    BY <2>1, StoredIs
  <2>. QED
    BY <2>1, <2>2, FrameNumbers DEF SeqOrder, Framed
<1>. QED
  BY <1>1, StoreInduction, PTL

\* A resume from a checkpoint and the lines after it folds the frames a replay
\* of the whole journal would, each once and in their order.
THEOREM CheckpointAgrees == Spec => []ResumeAgrees
<1>1. ASSUME StoreInv, FromCheckpoint, Replay(disk).ok
      PROVE  Resumed.frames = Replay(disk).frames
  <2>1. Stored(disk) /\ disk \in Disk /\ disk.lines # <<>>
    BY <1>1 DEF StoreInv, Files, Stored
  <2>2. checkpoint \in Checkpoint /\ Covers(disk, checkpoint)
    BY <1>1 DEF StoreInv, Files, TypeOK
  <2>3. Resumed.ok
    BY <1>1 DEF FromCheckpoint, Resumed
  <2>4. Clean(disk.lines) /\ Replay(disk).frames = Framed(disk.lines)
    BY <1>1, <2>1, Replayed
  <2>. QED
    BY <2>1, <2>2, <2>3, <2>4, ResumedIs
<1>2. StoreInv => ResumeAgrees
  BY <1>1 DEF ResumeAgrees
<1>. QED
  BY <1>2, StoreInduction, PTL

\* As long as nobody has written behind a line that a crash cut, the session
\* can be resumed and every frame whose append returned comes back.
THEOREM AckedIsDurable == Spec => []Durable
<1>1. ASSUME StoreInv, Undamaged
      PROVE  /\ Resumed.ok
             /\ acked \subseteq {Resumed.frames[k].id : k \in DOMAIN Resumed.frames}
  <2>1. Stored(disk) /\ disk \in Disk /\ disk.lines # <<>> /\ Whole(disk)
    BY <1>1 DEF StoreInv, Files, Stored, Undamaged, Whole
  <2>2. checkpoint \in Checkpoint /\ Covers(disk, checkpoint) /\ Kept(disk, acked)
    BY <1>1 DEF StoreInv, Files, TypeOK
  <2>3. Clean(disk.lines)
    BY <2>1 DEF Whole, Clean
  <2>4. Resumed.ok
    <3>1. Replay(disk).ok
      BY <2>1, <2>3, Replayed
    <3>. QED
      BY <3>1 DEF Resumed
  <2>5. Resumed.frames = Framed(disk.lines)
    BY <2>1, <2>2, <2>3, <2>4, ResumedIs
  <2>6. ASSUME NEW i \in acked PROVE \E k \in DOMAIN Resumed.frames : Resumed.frames[k].id = i
    <3>1. PICK k \in 1..Terminated(disk) : disk.lines[k].kind = "frame" /\ disk.lines[k].frame.id = i
      BY <2>1, <2>2 DEF Kept
    <3>2. disk.lines \in Seq(Line) /\ k \in 1..Len(disk.lines) /\ Len(disk.lines) \in 0..Len(disk.lines)
      BY <2>1, StoredIs
    <3>3. \E j \in DOMAIN FramesTo(disk.lines)[Len(disk.lines)] :
            FramesTo(disk.lines)[Len(disk.lines)][j] = disk.lines[k].frame
      BY <3>1, <3>2, EachFrame
    <3>. QED
      BY <2>5, <3>1, <3>3 DEF Framed
  <2>. QED
    BY <2>4, <2>6
<1>2. StoreInv => Durable
  BY <1>1 DEF Durable
<1>. QED
  BY <1>2, StoreInduction, PTL

\* A replay reads each frame in the format it was written in: in an older
\* journal the version line comes before every frame of this build.
THEOREM FormatKnown == Spec => []ReplayedAsWritten
<1>1. ASSUME StoreInv, Undamaged, NEW k \in DOMAIN disk.lines,
             disk.lines[k].kind = "frame" /\ disk.lines[k].frame.new
      PROVE  ReadAsNew(disk.lines, k)
  <2>1. Whole(disk) /\ ReadRight(old, disk)
    BY <1>1 DEF StoreInv, Files, Undamaged, Whole
  <2>. QED
    BY <1>1, <2>1 DEF ReadRight, ReadAsNew
<1>2. StoreInv => ReplayedAsWritten
  BY <1>1 DEF ReplayedAsWritten
<1>. QED
  BY <1>2, StoreInduction, PTL
=============================================================================
