--------------------------- MODULE ScheduleProofs ---------------------------
(***************************************************************************)
(* Schedules are run by one process at a time and say an occurrence once,  *)
(* for any number of processes, entries, faults and edits.  The claim      *)
(* (Claimed) makes one process the runner; a stamp the disk does not have  *)
(* is one the runner still remembers (Known), so that what it finds due    *)
(* comes after everything that was said (Ready).                           *)
(***************************************************************************)
EXTENDS Schedule, TLAPS

\* The lock file is published once, whoever runs holds it, and only the one that
\* runs has fires and remembers stamps.
Claimed ==
    /\ inode \in {0, 1}
    /\ \A p \in Procs :
        /\ proc[p].at \in {"locking", "running"} => proc[p].fd = 1 /\ inode = 1
        /\ proc[p].at = "running" => locked[1] = p
        /\ \A id \in Ids : /\ fire[p]["timer"][id].at # "idle" => proc[p].at = "running"
                           /\ proc[p].spent[id] # 0 => proc[p].at = "running"

\* What a fire of the loop carries at each of its places; stamps are of the past.
Carries(p, id) ==
    LET f == fire[p]["timer"][id]
    IN  /\ f.end = "spent" => f.at = "done"
        /\ f.at \in {"opening", "open"} => f.stamp = 0
        /\ f.at = "done" /\ f.end \notin {"spent", "panicked"} => f.stamp = 0
        /\ f.at \in {"read", "spent"} \/ f.end = "spent" =>
             f.stamp \in 1..now /\ proc[p].spent[id] <= f.stamp
        /\ proc[p].spent[id] <= now

\* An entry nobody added has no history, and an edit in flight is of a file.
Untouched(id) ==
    disk[id] = Unborn =>
        /\ said[id] = {}
        /\ \A p \in Procs, w \in Who : fire[p][w][id].at \notin {"read", "spent"}
        /\ edit # NoEdit => edit.id # id

Edited == edit # NoEdit => edit.entry.file

\* Whoever holds a copy of an entry holds its spec.
SameSpec(id) ==
    id \notin lost /\ disk[id].file =>
        /\ \A s \in said[id] : s.spec = disk[id].spec
        /\ \A p \in Procs, w \in Who :
             fire[p][w][id].at \in {"read", "spent"} => fire[p][w][id].entry.spec = disk[id].spec
        /\ edit # NoEdit /\ edit.id = id => edit.entry.spec = disk[id].spec

\* The disk or a process still has a stamp no earlier than what was said.
Vouched(id, at) ==
    \/ at <= disk[id].last
    \/ \E p \in Procs : at <= proc[p].spent[id] \/ at <= InFlight(p, id)

Known(id) == id \notin lost /\ disk[id].file => \A s \in said[id] : Vouched(id, s.at)

Past(id) == \A s \in said[id] : s.at \in 1..now

\* A fire of the loop comes after everything that was said.
Ready(p, id) ==
    id \notin lost =>
        \A s \in said[id] :
            /\ fire[p]["timer"][id].at \in {"opening", "open"} => SpecNext(s.spec, s.at) <= now
            /\ fire[p]["timer"][id].at \in {"read", "spent"} =>
                 s.at <= fire[p]["timer"][id].stamp /\ SpecNext(s.spec, s.at) <= fire[p]["timer"][id].stamp

History(id) == Untouched(id) /\ SameSpec(id) /\ Known(id) /\ Past(id)

ScheduleInv ==
    /\ TypeOK /\ Claimed /\ Edited /\ now \in Nat \ {0}
    /\ \A p \in Procs, id \in Ids : Carries(p, id) /\ Ready(p, id)
    /\ \A id \in Ids : History(id)
    /\ SaidOnce

-----------------------------------------------------------------------------
(* What the state is made of. *)

\* Entries: those that are no file, those that were just written, those that fired.
LEMMA Entries ==
  /\ Unborn \in Entry /\ Unborn.file = FALSE /\ Unborn.last = 0
  /\ Gone \in Entry /\ Gone.file = FALSE /\ Gone.last = 0 /\ Gone # Unborn
  /\ \A spec \in Specs, at \in Times :
       /\ Written(spec, at) \in Entry /\ Written(spec, at).file = TRUE /\ Written(spec, at).last = 0
       /\ Written(spec, at).spec = spec
<1>1. (CHOOSE spec \in Specs : TRUE) \in Specs
  BY ScheduleAssumption
<1>2. 0 \in Times /\ MaxTime \in Times /\ MaxTime # 0
  BY ScheduleAssumption DEF Times
<1>. DEFINE some == CHOOSE spec \in Specs : TRUE
<1>3. Unborn = [spec |-> some, enabled |-> FALSE, created |-> 0, last |-> 0, file |-> FALSE]
  BY DEF Unborn
<1>. HIDE DEF some
<1>4. some \in Specs
  BY <1>1 DEF some
<1>5. Unborn \in Entry /\ Unborn.file = FALSE /\ Unborn.last = 0 /\ Unborn.created = 0
  BY <1>2, <1>3, <1>4 DEF Entry
<1>6. Gone \in Entry /\ Gone.file = FALSE /\ Gone.last = 0 /\ Gone.created = MaxTime
  BY <1>2, <1>5 DEF Gone, Entry
<1>7. Gone # Unborn
  BY <1>2, <1>5, <1>6
<1>8. ASSUME NEW spec \in Specs, NEW at \in Times
      PROVE  /\ Written(spec, at) \in Entry /\ Written(spec, at).file = TRUE
             /\ Written(spec, at).last = 0 /\ Written(spec, at).spec = spec
  BY <1>2 DEF Written, Entry
<1>. QED
  BY <1>5, <1>6, <1>7, <1>8

LEMMA FiredIs ==
  ASSUME NEW e \in Entry, NEW at \in Times
  PROVE  /\ FiredAt(e, at) \in Entry /\ FiredAt(e, at).last = at
         /\ FiredAt(e, at).spec = e.spec /\ FiredAt(e, at).file = e.file
BY DEF FiredAt, Entry

\* Processes and fires to begin with.
LEMMA Beginnings ==
  /\ Fresh \in Proc /\ Fresh.at = "down" /\ \A id \in Ids : Fresh.spent[id] = 0
  /\ Idle \in Fire /\ Idle.at = "idle" /\ Idle.stamp = 0 /\ Idle.end = "none"
  /\ NoEdit \in [by : Procs \cup {Nobody}, id : Ids, entry : Entry]
<1>1. 0 \in Times
  BY ScheduleAssumption DEF Times
<1>2. Fresh \in Proc /\ Fresh.at = "down" /\ \A id \in Ids : Fresh.spent[id] = 0
  BY <1>1 DEF Fresh, Proc
<1>3. Idle \in Fire /\ Idle.at = "idle" /\ Idle.stamp = 0 /\ Idle.end = "none"
  BY <1>1, Entries DEF Idle, Fire
<1>4. (CHOOSE id \in Ids : TRUE) \in Ids
  BY ScheduleAssumption
<1>5. NoEdit \in [by : Procs \cup {Nobody}, id : Ids, entry : Entry]
  BY <1>4, Entries DEF NoEdit
<1>. QED
  BY <1>2, <1>3, <1>5

\* A fire's fields.
LEMMA FireFields ==
  ASSUME TypeOK, NEW p \in Procs, NEW w \in Who, NEW id \in Ids
  PROVE  /\ fire[p][w][id] \in Fire
         /\ fire[p][w][id].at \in {"idle", "opening", "open", "read", "spent", "done"}
         /\ fire[p][w][id].stamp \in Times /\ fire[p][w][id].entry \in Entry
         /\ fire[p][w][id].end \in {"none", "unopened", "skipped", "spent", "panicked"}
         /\ fire[p][w][id].at \in {"read", "spent"} =>
              fire[p][w][id].entry.file /\ fire[p][w][id].entry.enabled
BY DEF TypeOK, Fire

\* One fire becomes another.
LEMMA BecomesIs ==
  ASSUME TypeOK, NEW p \in Procs, NEW w \in Who, NEW id \in Ids, NEW f \in Fire,
         Becomes(p, w, id, f)
  PROVE  /\ fire' \in [Procs -> [Who -> [Ids -> Fire]]]
         /\ fire'[p][w][id] = f
         /\ \A q \in Procs, v \in Who, j \in Ids :
              q # p \/ v # w \/ j # id => fire'[q][v][j] = fire[q][v][j]
<1>1. fire \in [Procs -> [Who -> [Ids -> Fire]]]
  BY DEF TypeOK
<1>2. fire' = [fire EXCEPT ![p][w][id] = f]
  BY DEF Becomes
<1>3. fire' \in [Procs -> [Who -> [Ids -> Fire]]]
  BY <1>1, <1>2
<1>4. fire'[p] = [fire[p] EXCEPT ![w][id] = f] /\ \A q \in Procs : q # p => fire'[q] = fire[q]
  BY <1>1, <1>2
<1>5. fire'[p][w][id] = f
  BY <1>1, <1>4
<1>6. \A v \in Who, j \in Ids : v # w \/ j # id => fire'[p][v][j] = fire[p][v][j]
  BY <1>1, <1>4
<1>. QED
  BY <1>3, <1>4, <1>5, <1>6

\* A product that grows with its first factor.
LEMMA Grows ==
  ASSUME NEW a \in Nat, NEW b \in Nat, NEW k \in Nat, a <= b
  PROVE  a * k <= b * k
OBVIOUS

\* Whole days.
LEMMA Days ==
  ASSUME NEW a \in Nat, NEW b \in Nat, NEW k \in Nat \ {0}, a <= b
  PROVE  a \div k \in Nat /\ b \div k \in Nat /\ a \div k <= b \div k
OBVIOUS

\* A spec has its next fire no earlier after a later moment.
LEMMA SpecNextGrows ==
  ASSUME NEW spec \in Specs, NEW a \in Times, NEW b \in Times, a <= b
  PROVE  /\ SpecNext(spec, a) \in Nat /\ SpecNext(spec, b) \in Nat
         /\ SpecNext(spec, a) <= SpecNext(spec, b)
<1>1. a \in Nat /\ b \in Nat /\ Period \in Nat \ {0} /\ OnceTime \in Nat /\ MaxTime \in Nat
  BY ScheduleAssumption DEF Times
<1>2. CASE spec = "every"
  BY <1>1, <1>2 DEF SpecNext
<1>3. CASE spec = "once"
  BY <1>1, <1>3 DEF SpecNext, Never
<1>4. CASE spec = "daily"
  <2>. DEFINE x == a \div Period
              y == b \div Period
  <2>1. x \in Nat /\ y \in Nat /\ x <= y
    BY <1>1, Days
  <2>2. SpecNext(spec, a) = (x + 1) * Period /\ SpecNext(spec, b) = (y + 1) * Period
    BY <1>4 DEF SpecNext
  <2>. HIDE DEF x, y
  <2>3. (x + 1) * Period <= (y + 1) * Period
    BY <1>1, <2>1, Grows
  <2>4. (x + 1) * Period \in Nat /\ (y + 1) * Period \in Nat
    BY <1>1, <2>1
  <2>. QED
    BY <2>2, <2>3, <2>4
<1>. QED
  BY <1>2, <1>3, <1>4, ScheduleAssumption

-----------------------------------------------------------------------------
(* The state keeps its type. *)

Scalars ==
    /\ now \in Times
    /\ disk \in [Ids -> Entry]
    /\ inode \in 0..2
    /\ locked \in [1..2 -> Procs \cup {Nobody}]
    /\ session \in [Ids -> Procs \cup {Nobody}]
    /\ said \in [Ids -> SUBSET [spec : Specs, at : Times]] /\ lost \subseteq Ids
    /\ faults \in 0..MaxFaults /\ asks \in 0..MaxAsks
    /\ edit \in [by : Procs \cup {Nobody}, id : Ids, entry : Entry]
    /\ proc \in [Procs -> Proc]

FiresOK ==
    /\ fire \in [Procs -> [Who -> [Ids -> Fire]]]
    /\ \A p \in Procs, w \in Who, id \in Ids :
        fire[p][w][id].at \in {"read", "spent"} =>
            fire[p][w][id].entry.file /\ fire[p][w][id].entry.enabled

\* Only the fire of w for id in p changes.
Turned(p, w, id) ==
    /\ fire' \in [Procs -> [Who -> [Ids -> Fire]]]
    /\ \A q \in Procs, v \in Who, j \in Ids :
         q # p \/ v # w \/ j # id => fire'[q][v][j] = fire[q][v][j]

LEMMA TurnTypes ==
  ASSUME TypeOK, NEW p \in Procs, NEW w \in Who, NEW id \in Ids, Turned(p, w, id),
         fire'[p][w][id].at \in {"read", "spent"} =>
           fire'[p][w][id].entry.file /\ fire'[p][w][id].entry.enabled
  PROVE  FiresOK'
<1>1. ASSUME NEW q \in Procs, NEW v \in Who, NEW j \in Ids
      PROVE  fire'[q][v][j].at \in {"read", "spent"} =>
               fire'[q][v][j].entry.file /\ fire'[q][v][j].entry.enabled
  <2>1. CASE q = p /\ v = w /\ j = id
    BY <2>1
  <2>2. CASE ~(q = p /\ v = w /\ j = id)
    BY <2>2, FireFields, SMTT(30) DEF Turned
  <2>. QED
    BY <2>1, <2>2
<1>. QED
  BY <1>1 DEF FiresOK, Turned

\* A fire that is over: the person's is forgotten, the loop's is joined later.
LEMMA DoneIs ==
  ASSUME TypeOK, NEW p \in Procs, NEW w \in Who, NEW id \in Ids,
         NEW end \in {"unopened", "skipped", "spent"}, Done(p, w, id, end)
  PROVE  /\ Turned(p, w, id)
         /\ fire'[p][w][id].at \in {"idle", "done"}
         /\ w = "person" => fire'[p][w][id] = Idle
         /\ w = "timer" => /\ fire'[p][w][id].at = "done" /\ fire'[p][w][id].end = end
                           /\ fire'[p][w][id].stamp = fire[p][w][id].stamp
<1>. DEFINE g == [fire[p][w][id] EXCEPT !.at = "done", !.end = end, !.anchor = 0, !.entry = Unborn]
            f == IF w = "person" THEN Idle ELSE g
<1>1. g \in Fire /\ g.at = "done" /\ g.end = end /\ g.stamp = fire[p][w][id].stamp
  <2>1. fire[p][w][id] \in Fire /\ 0 \in Times /\ Unborn \in Entry
    BY FireFields, Entries, ScheduleAssumption DEF Times
  <2>. QED
    BY <2>1 DEF Fire
<1>2. Becomes(p, w, id, f)
  BY DEF Done
<1>. HIDE DEF g
<1>3. f \in Fire
  BY <1>1, Beginnings
<1>. HIDE DEF f
<1>4. Turned(p, w, id) /\ fire'[p][w][id] = f
  BY <1>2, <1>3, BecomesIs DEF Turned
<1>. QED
  BY <1>1, <1>4, Beginnings DEF f, Who

\* A process that goes to another place keeps what it remembers.
LEMMA AtIs ==
  ASSUME TypeOK, NEW p \in Procs,
         NEW place \in {"down", "opening", "staging", "locking", "running", "left"}, At(p, place)
  PROVE  /\ proc' \in [Procs -> Proc] /\ proc'[p].at = place
         /\ proc'[p].fd = proc[p].fd /\ proc'[p].cancel = proc[p].cancel /\ proc'[p].spent = proc[p].spent
         /\ \A q \in Procs : q # p => proc'[q] = proc[q]
BY ZenonT(40) DEF TypeOK, At, Proc

\* A process that finds the lock held gives the file back.
LEMMA StandsByIs ==
  ASSUME TypeOK, NEW p \in Procs, proc' = [proc EXCEPT ![p].at = "opening", ![p].fd = 0]
  PROVE  /\ proc' \in [Procs -> Proc] /\ proc'[p].at = "opening" /\ proc'[p].spent = proc[p].spent
         /\ \A q \in Procs : q # p => proc'[q] = proc[q]
<1>. DEFINE r == [proc[p] EXCEPT !.at = "opening", !.fd = 0]
<1>1. r \in Proc /\ r.at = "opening" /\ r.spent = proc[p].spent
  <2>1. proc[p] \in Proc /\ 0 \in 0..2
    BY DEF TypeOK
  <2>. QED
    BY <2>1, ZenonT(40) DEF Proc
<1>2. proc' = [proc EXCEPT ![p] = r] /\ proc \in [Procs -> Proc]
  BY DEF TypeOK
<1>. HIDE DEF r
<1>. QED
  BY <1>1, <1>2

\* A process that ends or leaves starts over, and holds no lock.
LEMMA UnlockIs ==
  ASSUME TypeOK, NEW p \in Procs, Unlock(p)
  PROVE  /\ locked' \in [1..2 -> Procs \cup {Nobody}]
         /\ locked'[1] = IF locked[1] = p THEN Nobody ELSE locked[1]
<1>1. locked \in [1..2 -> Procs \cup {Nobody}] /\ DOMAIN locked = 1..2 /\ 1 \in 1..2
  BY DEF TypeOK
<1>2. locked' = [i \in 1..2 |-> IF locked[i] = p THEN Nobody ELSE locked[i]]
  BY <1>1 DEF Unlock
<1>. QED
  BY <1>1, <1>2

\* Stamps, and what only one process has of them.
LEMMA Stamps ==
  ASSUME TypeOK, NEW p \in Procs, NEW id \in Ids
  PROVE  /\ proc[p].spent[id] \in Times /\ InFlight(p, id) \in Times /\ Retained(p, id) \in Times
         /\ disk[id] \in Entry /\ disk[id].last \in Times /\ disk[id].spec \in Specs
         /\ proc[p].spent \in [Ids -> Times]
<1>1. /\ proc[p].spent \in [Ids -> Times] /\ disk[id] \in Entry /\ disk[id].last \in Times /\ disk[id].spec \in Specs
      /\ 0 \in Times
  BY ScheduleAssumption DEF TypeOK, Proc, Entry, Times
<1>2. fire[p]["timer"][id].stamp \in Times
  BY FireFields DEF Who
<1>. QED
  BY <1>1, <1>2 DEF InFlight, Retained

\* The steps of a process: its place, its fires and what it remembers.
LEMMA TypesOfSupervising ==
  ASSUME TypeOK, NEW p \in Procs,
         \/ Start(p) \/ OpenClaim(p) \/ Publish(p) \/ TryLock(p) \/ Stop(p) \/ Leave(p) \/ Crash(p)
  PROVE  TypeOK'
<1>. USE DEF store, claim, record, budget
<1>1. CASE Start(p)
  <2>1. proc' \in [Procs -> Proc]
    BY <1>1, AtIs DEF Start
  <2>. QED
    BY <1>1, <2>1 DEF Start, TypeOK
<1>2. CASE OpenClaim(p)
  <2>1. proc' \in [Procs -> Proc]
    <3>1. CASE At(p, "staging")
      BY <3>1, AtIs
    <3>2. CASE proc' = [proc EXCEPT ![p].at = "locking", ![p].fd = inode]
      <4>. DEFINE r == [proc[p] EXCEPT !.at = "locking", !.fd = inode]
      <4>1. r \in Proc
        BY ZenonT(40) DEF TypeOK, Proc
      <4>2. proc' = [proc EXCEPT ![p] = r]
        BY <3>2 DEF TypeOK
      <4>. QED
        BY <4>1, <4>2 DEF TypeOK
    <3>. QED
      BY <1>2, <3>1, <3>2 DEF OpenClaim
  <2>. QED
    BY <1>2, <2>1 DEF OpenClaim, TypeOK
<1>3. CASE Publish(p)
  <2>1. proc' \in [Procs -> Proc]
    BY <1>3, AtIs DEF Publish
  <2>. QED
    BY <1>3, <2>1 DEF Publish, TypeOK
<1>4. CASE TryLock(p)
  <2>1. proc' \in [Procs -> Proc]
    BY <1>4, AtIs, StandsByIs DEF TryLock
  <2>2. locked' \in [1..2 -> Procs \cup {Nobody}]
    BY <1>4 DEF TryLock, TypeOK
  <2>. QED
    BY <1>4, <2>1, <2>2 DEF TryLock, TypeOK
<1>5. CASE Stop(p)
  <2>1. proc' \in [Procs -> Proc]
    BY <1>5, ZenonT(40) DEF Stop, TypeOK, Proc
  <2>. QED
    BY <1>5, <2>1 DEF Stop, TypeOK
<1>6. CASE Leave(p)
  <2>1. proc' \in [Procs -> Proc]
    BY <1>6, Beginnings DEF Leave, TypeOK, Proc
  <2>2. locked' \in [1..2 -> Procs \cup {Nobody}]
    BY <1>6, UnlockIs DEF Leave
  <2>3. lost' \subseteq Ids
    BY <1>6 DEF Leave, TypeOK, Unwritten
  <2>. QED
    BY <1>6, <2>1, <2>2, <2>3 DEF Leave, TypeOK
<1>7. CASE Crash(p)
  <2>1. proc' \in [Procs -> Proc]
    BY <1>7, Beginnings DEF Crash, Ends, TypeOK, Proc
  <2>2. locked' \in [1..2 -> Procs \cup {Nobody}]
    BY <1>7, UnlockIs DEF Crash, Ends
  <2>3. lost' \subseteq Ids
    BY <1>7 DEF Crash, Ends, TypeOK, Unwritten
  <2>4. FiresOK'
    <3>1. fire \in [Procs -> [Who -> [Ids -> Fire]]] /\ fire' = [fire EXCEPT ![p] = [w \in Who |-> [id \in Ids |-> Idle]]]
      BY <1>7 DEF Crash, Ends, TypeOK
    <3>2. [w \in Who |-> [id \in Ids |-> Idle]] \in [Who -> [Ids -> Fire]]
      BY Beginnings
    <3>3. fire' \in [Procs -> [Who -> [Ids -> Fire]]]
      BY <3>1, <3>2
    <3>4. ASSUME NEW q \in Procs, NEW w \in Who, NEW id \in Ids
          PROVE  fire'[q][w][id].at \in {"read", "spent"} =>
                   fire'[q][w][id].entry.file /\ fire'[q][w][id].entry.enabled
      <4>1. fire'[q][w][id] = fire[q][w][id] \/ fire'[q][w][id] = Idle
        BY <3>1
      <4>. QED
        BY <4>1, FireFields, Beginnings
    <3>. QED
      BY <3>3, <3>4 DEF FiresOK
  <2>5. session' \in [Ids -> Procs \cup {Nobody}]
    BY <1>7 DEF Crash, Ends, TypeOK
  <2>6. edit' \in [by : Procs \cup {Nobody}, id : Ids, entry : Entry]
    BY <1>7, Beginnings DEF Crash, Ends, TypeOK
  <2>. QED
    BY <1>7, <2>1, <2>2, <2>3, <2>4, <2>5, <2>6 DEF Crash, Ends, TypeOK, FiresOK
<1>. QED
  BY <1>1, <1>2, <1>3, <1>4, <1>5, <1>6, <1>7

\* What a pass of the loop starts, field by field.
LEMMA PassIs ==
  ASSUME TypeOK, NEW p \in Procs, NEW unread \in SUBSET Ids, Pass(p, unread)
  PROVE  /\ proc' \in [Procs -> Proc] /\ fire' \in [Procs -> [Who -> [Ids -> Fire]]]
         /\ \A q \in Procs : /\ proc'[q].at = proc[q].at /\ proc'[q].fd = proc[q].fd
                             /\ q # p => proc'[q] = proc[q] /\ fire'[q] = fire[q]
         /\ \A id \in Ids : /\ proc'[p].spent[id] = IF id \in unread THEN 0 ELSE Retained(p, id)
                            /\ fire'[p]["person"][id] = fire[p]["person"][id]
                            /\ \/ fire'[p]["timer"][id] = fire[p]["timer"][id]
                               \/ /\ DueFor(p, id) /\ ~Busy(p, id)
                                  /\ fire'[p]["timer"][id].at = "opening"
                                  /\ fire'[p]["timer"][id].stamp = 0 /\ fire'[p]["timer"][id].end = "none"
<1>. DEFINE kept == [id \in Ids |-> IF id \in unread THEN 0 ELSE Retained(p, id)]
            due == {id \in Ids \ unread : DueFor(p, id) /\ ~Busy(p, id)}
            new(id) == [Idle EXCEPT !.at = "opening", !.anchor = Remembered(p, id).last]
            fires == [id \in Ids |-> IF id \in due THEN new(id) ELSE fire[p]["timer"][id]]
<1>1. kept \in [Ids -> Times] /\ \A id \in Ids : kept[id] = IF id \in unread THEN 0 ELSE Retained(p, id)
  BY Stamps, ScheduleAssumption DEF Times
<1>2. \A id \in Ids : Remembered(p, id).last \in Times
  BY Stamps DEF Remembered, Entry
<1>3. \A id \in Ids : new(id) \in Fire /\ new(id).at = "opening" /\ new(id).stamp = 0 /\ new(id).end = "none"
  BY <1>2, Beginnings DEF Fire
<1>4. /\ proc' = [proc EXCEPT ![p].spent = kept]
      /\ fire' = [fire EXCEPT ![p]["timer"] = fires]
  BY DEF Pass
<1>. HIDE DEF kept, due, new
<1>5. fires \in [Ids -> Fire] /\ \A id \in Ids : fires[id] = IF id \in due THEN new(id) ELSE fire[p]["timer"][id]
  BY <1>3, FireFields DEF Who
<1>. HIDE DEF fires
<1>6. /\ proc' \in [Procs -> Proc] /\ proc'[p].spent = kept
      /\ \A q \in Procs : /\ proc'[q].at = proc[q].at /\ proc'[q].fd = proc[q].fd
                          /\ q # p => proc'[q] = proc[q]
  <2>. DEFINE r == [proc[p] EXCEPT !.spent = kept]
  <2>1. proc[p] \in Proc /\ proc \in [Procs -> Proc]
    BY DEF TypeOK
  <2>2. r \in Proc /\ r.at = proc[p].at /\ r.fd = proc[p].fd /\ r.spent = kept
    BY <1>1, <2>1 DEF Proc
  <2>3. proc' = [proc EXCEPT ![p] = r]
    BY <1>4, <2>1
  <2>. HIDE DEF r
  <2>. QED
    BY <2>1, <2>2, <2>3
<1>7. /\ fire' \in [Procs -> [Who -> [Ids -> Fire]]] /\ fire'[p]["timer"] = fires
      /\ fire'[p]["person"] = fire[p]["person"]
      /\ \A q \in Procs : q # p => fire'[q] = fire[q]
  <2>1. fire \in [Procs -> [Who -> [Ids -> Fire]]] /\ "timer" \in Who /\ "person" \in Who
    BY DEF TypeOK, Who
  <2>. QED
    BY <1>4, <1>5, <2>1
<1>8. \A id \in due : DueFor(p, id) /\ ~Busy(p, id)
  BY DEF due
<1>. QED
  BY <1>1, <1>3, <1>5, <1>6, <1>7, <1>8

\* A pass that read everything, or missed some files.
LEMMA PassHas ==
  ASSUME TypeOK, NEW p \in Procs, Launch(p) \/ Misread(p)
  PROVE  /\ \E unread \in SUBSET Ids : Pass(p, unread)
         /\ faults' \in 0..MaxFaults
<1>1. CASE Launch(p)
  BY <1>1 DEF Launch, TypeOK
<1>2. CASE Misread(p)
  <2>1. \E unread \in SUBSET Ids : Pass(p, unread)
    BY <1>2 DEF Misread
  <2>2. faults' \in 0..MaxFaults
    BY <1>2, ScheduleAssumption DEF Misread, Fault, TypeOK
  <2>. QED
    BY <2>1, <2>2
<1>. QED
  BY <1>1, <1>2

LEMMA TypesOfLaunch ==
  ASSUME TypeOK, NEW p \in Procs, Launch(p) \/ Misread(p)
  PROVE  TypeOK'
<1>. PICK unread \in SUBSET Ids : Pass(p, unread)
  BY PassHas
<1>1. proc' \in [Procs -> Proc] /\ fire' \in [Procs -> [Who -> [Ids -> Fire]]]
  BY PassIs
<1>2. ASSUME NEW q \in Procs, NEW w \in Who, NEW id \in Ids
      PROVE  fire'[q][w][id].at \in {"read", "spent"} =>
               fire'[q][w][id].entry.file /\ fire'[q][w][id].entry.enabled
  <2>1. fire'[q][w][id] = fire[q][w][id] \/ fire'[q][w][id].at = "opening"
    BY PassIs DEF Who
  <2>. QED
    BY <2>1, FireFields
<1>3. UNCHANGED <<now, disk, inode, locked, edit, session, said, asks>> /\ lost' \subseteq Ids
  BY DEF Pass, store, claim, TypeOK
<1>4. faults' \in 0..MaxFaults
  BY PassHas
<1>. QED
  BY <1>1, <1>2, <1>3, <1>4 DEF TypeOK

\* A fire opens its session, or is over.
LEMMA OpenIs ==
  ASSUME TypeOK, NEW p \in Procs, NEW w \in Who, NEW id \in Ids,
         Open(p, w, id) \/ OpenRefused(p, w, id) \/ OpenFails(p, w, id)
  PROVE  /\ Turned(p, w, id) /\ fire[p][w][id].at = "opening"
         /\ fire'[p][w][id].at \in {"open", "idle", "done"}
         /\ fire'[p][w][id].stamp \in {fire[p][w][id].stamp, 0}
         /\ w = "timer" => /\ fire'[p][w][id].at \in {"open", "done"}
                           /\ fire'[p][w][id].stamp = fire[p][w][id].stamp
                           /\ fire'[p][w][id].at = "open" => fire'[p][w][id].end = fire[p][w][id].end
                           /\ fire'[p][w][id].at = "done" => fire'[p][w][id].end = "unopened"
         /\ UNCHANGED <<now, disk, inode, locked, proc, edit, said, lost, asks>>
         /\ session' \in [Ids -> Procs \cup {Nobody}] /\ faults' \in 0..MaxFaults
<1>1. /\ fire[p][w][id].at = "opening" /\ UNCHANGED <<now, disk, inode, locked, proc, edit, said, lost, asks>>
      /\ session' = session \/ session' = [session EXCEPT ![id] = p]
      /\ faults' = faults \/ Fault
      /\ \/ Done(p, w, id, "unopened")
         \/ Becomes(p, w, id, [fire[p][w][id] EXCEPT !.at = "open"])
  BY DEF Open, OpenRefused, OpenFails, Now, store, claim, record, budget
<1>2. session' \in [Ids -> Procs \cup {Nobody}] /\ faults' \in 0..MaxFaults
  <2>1. session' \in [Ids -> Procs \cup {Nobody}]
    BY <1>1 DEF TypeOK
  <2>2. faults' \in 0..MaxFaults
    BY <1>1, ScheduleAssumption DEF TypeOK, Fault
  <2>. QED
    BY <2>1, <2>2
<1>3. CASE Done(p, w, id, "unopened")
  BY <1>1, <1>2, <1>3, DoneIs, Beginnings DEF Who
<1>4. CASE Becomes(p, w, id, [fire[p][w][id] EXCEPT !.at = "open"])
  <2>. DEFINE f == [fire[p][w][id] EXCEPT !.at = "open"]
  <2>1. f \in Fire /\ f.at = "open" /\ f.stamp = fire[p][w][id].stamp /\ f.end = fire[p][w][id].end
    BY FireFields DEF Fire
  <2>. HIDE DEF f
  <2>2. Turned(p, w, id) /\ fire'[p][w][id] = f
    BY <1>4, <2>1, BecomesIs DEF Turned, f
  <2>. QED
    BY <1>1, <1>2, <2>1, <2>2
<1>. QED
  BY <1>1, <1>3, <1>4

\* A fire rereads its entry, which stands, or is over.
LEMMA RereadIs ==
  ASSUME TypeOK, NEW p \in Procs, NEW w \in Who, NEW id \in Ids, Reread(p, w, id) \/ RereadFails(p, w, id)
  PROVE  /\ Turned(p, w, id) /\ fire[p][w][id].at = "open"
         /\ \/ /\ disk[id].file /\ disk[id].enabled
               /\ fire'[p][w][id].at = "read" /\ fire'[p][w][id].entry = disk[id]
               /\ fire'[p][w][id].stamp = now /\ fire'[p][w][id].end = fire[p][w][id].end
            \/ /\ fire'[p][w][id].at \in {"idle", "done"}
               /\ w = "timer" => /\ fire'[p][w][id].at = "done" /\ fire'[p][w][id].end = "skipped"
                                 /\ fire'[p][w][id].stamp = fire[p][w][id].stamp
         /\ UNCHANGED <<disk, inode, locked, proc, edit, session, said, lost, asks>>
         /\ now' \in Times /\ now <= now' /\ faults' \in 0..MaxFaults
<1>. DEFINE stands == disk[id].file /\ disk[id].enabled /\ disk[id].last <= fire[p][w][id].anchor
            f == [fire[p][w][id] EXCEPT !.at = "read", !.anchor = 0, !.entry = disk[id], !.stamp = now]
<1>1. /\ fire[p][w][id].at = "open" /\ UNCHANGED <<disk, inode, locked, proc, edit, session, said, lost, asks>>
      /\ now' \in {now, now + 1} /\ (now' = now + 1 => now < MaxTime)
      /\ (stands /\ Becomes(p, w, id, f)) \/ Done(p, w, id, "skipped")
  <2>1. CASE Reread(p, w, id)
    <3>1. now' = IF stands /\ now < MaxTime THEN now + 1 ELSE now
      BY <2>1 DEF Reread
    <3>2. now' \in {now, now + 1} /\ (now' = now + 1 => now < MaxTime)
      BY <3>1 DEF TypeOK, Times
    <3>. QED
      BY <2>1, <3>2 DEF Reread, claim, record, budget
  <2>2. CASE RereadFails(p, w, id)
    <3>1. now' = now /\ now' # now + 1
      BY <2>2 DEF RereadFails, store, TypeOK, Times
    <3>. QED
      BY <2>2, <3>1 DEF RereadFails, Now, store, claim, record
  <2>. QED
    BY <2>1, <2>2
<1>0. faults' \in 0..MaxFaults
  <2>1. CASE Reread(p, w, id)
    BY <2>1 DEF Reread, budget, TypeOK
  <2>2. CASE RereadFails(p, w, id)
    BY <2>2, ScheduleAssumption DEF RereadFails, Fault, TypeOK
  <2>. QED
    BY <2>1, <2>2
<1>2. stands => disk[id].file /\ disk[id].enabled
  OBVIOUS
<1>. HIDE DEF stands
<1>3. now' \in Times /\ now <= now'
  BY <1>1, ScheduleAssumption DEF TypeOK, Times
<1>4. CASE Done(p, w, id, "skipped")
  BY <1>0, <1>1, <1>3, <1>4, DoneIs
<1>5. CASE stands /\ Becomes(p, w, id, f)
  <2>1. /\ f \in Fire /\ f.at = "read" /\ f.stamp = now /\ f.entry = disk[id]
        /\ f.end = fire[p][w][id].end
    <3>1. fire[p][w][id] \in Fire /\ disk[id] \in Entry /\ now \in Times /\ 0 \in Times
      BY FireFields, ScheduleAssumption DEF TypeOK, Times
    <3>. QED
      BY <3>1 DEF Fire
  <2>. HIDE DEF f
  <2>2. Turned(p, w, id) /\ fire'[p][w][id] = f
    BY <1>1, <1>5, <2>1, BecomesIs DEF Turned
  <2>. QED
    BY <1>0, <1>1, <1>2, <1>3, <1>5, <2>1, <2>2
<1>. QED
  BY <1>1, <1>4, <1>5

\* A fire stamps its entry, or the disk refuses.
LEMMA StampIs ==
  ASSUME TypeOK, NEW p \in Procs, NEW w \in Who, NEW id \in Ids, Stamp(p, w, id)
  PROVE  /\ Turned(p, w, id) /\ fire[p][w][id].at = "read" /\ fire'[p][w][id].at = "spent"
         /\ fire'[p][w][id].stamp = fire[p][w][id].stamp /\ fire'[p][w][id].entry = fire[p][w][id].entry
         /\ fire'[p][w][id].end = fire[p][w][id].end
         /\ UNCHANGED <<now, inode, locked, proc, edit, session, said, asks>> /\ faults' \in 0..MaxFaults
         /\ disk' \in [Ids -> Entry]
         /\ \/ /\ disk' = [disk EXCEPT ![id] = FiredAt(fire[p][w][id].entry, fire[p][w][id].stamp)]
               /\ lost' = IF Overwrites(id, fire[p][w][id].stamp) THEN lost \cup {id} ELSE lost
            \/ UNCHANGED <<disk, lost>>
<1>. DEFINE f == [fire[p][w][id] EXCEPT !.at = "spent"]
<1>1. /\ f \in Fire /\ f.at = "spent" /\ f.stamp = fire[p][w][id].stamp /\ f.entry = fire[p][w][id].entry
      /\ f.end = fire[p][w][id].end
  <2>1. fire[p][w][id] \in Fire
    BY FireFields
  <2>. QED
    BY <2>1 DEF Fire
<1>2. /\ fire[p][w][id].at = "read" /\ UNCHANGED <<now, inode, locked, proc, edit, session, said, asks>>
      /\ \/ /\ disk' = [disk EXCEPT ![id] = FiredAt(fire[p][w][id].entry, fire[p][w][id].stamp)]
            /\ lost' = IF Overwrites(id, fire[p][w][id].stamp) THEN lost \cup {id} ELSE lost
            /\ faults' = faults
         \/ Fault /\ UNCHANGED <<disk, lost>>
      /\ Becomes(p, w, id, f)
  BY DEF Stamp, claim
<1>. HIDE DEF f
<1>3. faults' \in 0..MaxFaults
  BY <1>2, ScheduleAssumption DEF Fault, TypeOK
<1>4. disk' \in [Ids -> Entry]
  <2>1. FiredAt(fire[p][w][id].entry, fire[p][w][id].stamp) \in Entry
    BY FireFields, FiredIs
  <2>. QED
    BY <1>2, <2>1 DEF TypeOK
<1>5. Turned(p, w, id) /\ fire'[p][w][id] = f
  BY <1>1, <1>2, BecomesIs DEF Turned
<1>. QED
  BY <1>1, <1>2, <1>3, <1>4, <1>5

\* A fire submits its line, and the loop's is kept as said.
LEMMA SayIs ==
  ASSUME TypeOK, NEW p \in Procs, NEW w \in Who, NEW id \in Ids, Say(p, w, id)
  PROVE  /\ Turned(p, w, id) /\ fire[p][w][id].at = "spent"
         /\ fire'[p][w][id].at \in {"idle", "done"}
         /\ w = "timer" => /\ fire'[p][w][id].at = "done" /\ fire'[p][w][id].end = "spent"
                           /\ fire'[p][w][id].stamp = fire[p][w][id].stamp
         /\ UNCHANGED <<now, disk, inode, locked, proc, edit, session, lost, faults, asks>>
         /\ said' \in [Ids -> SUBSET [spec : Specs, at : Times]]
         /\ \A j \in Ids : \A s \in said'[j] :
              \/ s \in said[j]
              \/ w = "timer" /\ j = id /\ s.at = fire[p][w][id].stamp /\ s.spec = fire[p][w][id].entry.spec
         /\ w = "person" => said' = said
<1>. DEFINE new == [spec |-> fire[p][w][id].entry.spec, at |-> fire[p][w][id].stamp]
<1>1. /\ fire[p][w][id].at = "spent" /\ Done(p, w, id, "spent")
      /\ UNCHANGED <<now, disk, inode, locked, proc, edit, session, lost, faults, asks>>
      /\ said' = IF w = "timer" THEN [said EXCEPT ![id] = @ \cup {new}] ELSE said
  BY DEF Say, store, claim, budget
<1>2. new \in [spec : Specs, at : Times] /\ new.at = fire[p][w][id].stamp /\ new.spec = fire[p][w][id].entry.spec
  BY FireFields DEF Entry
<1>. HIDE DEF new
<1>3. said \in [Ids -> SUBSET [spec : Specs, at : Times]]
  BY DEF TypeOK
<1>4. /\ Turned(p, w, id) /\ fire'[p][w][id].at \in {"idle", "done"}
      /\ w = "timer" => /\ fire'[p][w][id].at = "done" /\ fire'[p][w][id].end = "spent"
                        /\ fire'[p][w][id].stamp = fire[p][w][id].stamp
  BY <1>1, DoneIs
<1>5. CASE w = "timer"
  <2>1. said' = [said EXCEPT ![id] = said[id] \cup {new}]
    BY <1>1, <1>5
  <2>2. said' \in [Ids -> SUBSET [spec : Specs, at : Times]]
    BY <1>2, <1>3, <2>1
  <2>3. \A j \in Ids : \A s \in said'[j] : s \in said[j] \/ (j = id /\ s = new)
    BY <1>3, <2>1
  <2>. QED
    BY <1>1, <1>2, <1>4, <1>5, <2>2, <2>3
<1>6. CASE w # "timer"
  BY <1>1, <1>3, <1>4, <1>6
<1>. QED
  BY <1>5, <1>6

\* A fire of the loop panics.
LEMMA PanicsIs ==
  ASSUME TypeOK, NEW p \in Procs, NEW id \in Ids, Panics(p, id)
  PROVE  /\ Turned(p, "timer", id)
         /\ fire[p]["timer"][id].at \in {"opening", "open", "read", "spent"} \/ fire[p]["timer"][id].end = "spent"
         /\ fire'[p]["timer"][id].at = "done" /\ fire'[p]["timer"][id].end = "panicked"
         /\ fire'[p]["timer"][id].stamp =
              IF fire[p]["timer"][id].at \in {"spent", "done"} THEN fire[p]["timer"][id].stamp ELSE 0
         /\ UNCHANGED <<now, disk, inode, locked, proc, edit, session, said, lost, asks>> /\ faults' \in 0..MaxFaults
<1>. DEFINE at == fire[p]["timer"][id].at
            stamp == IF at \in {"spent", "done"} THEN fire[p]["timer"][id].stamp ELSE 0
            f == [fire[p]["timer"][id] EXCEPT !.at = "done", !.end = "panicked", !.anchor = 0, !.entry = Unborn,
                                              !.stamp = stamp]
<1>1. /\ at \in {"opening", "open", "read", "spent"} \/ fire[p]["timer"][id].end = "spent"
      /\ Fault /\ Becomes(p, "timer", id, f)
      /\ UNCHANGED <<now, disk, inode, locked, proc, edit, session, said, lost, asks>>
  BY DEF Panics, store, claim, record
<1>2. "timer" \in Who /\ fire[p]["timer"][id] \in Fire /\ 0 \in Times /\ stamp \in Times
  BY FireFields, ScheduleAssumption DEF Who, Times
<1>. HIDE DEF stamp
<1>3. f \in Fire /\ f.at = "done" /\ f.end = "panicked" /\ f.stamp = stamp
  BY <1>2, Entries DEF Fire
<1>. HIDE DEF f
<1>4. Turned(p, "timer", id) /\ fire'[p]["timer"][id] = f
  BY <1>1, <1>2, <1>3, BecomesIs DEF Turned
<1>5. faults' \in 0..MaxFaults
  BY <1>1, ScheduleAssumption DEF Fault, TypeOK
<1>. QED
  BY <1>1, <1>3, <1>4, <1>5 DEF stamp

\* The loop joins a fire: what was spent is remembered.
LEMMA LandedIs ==
  ASSUME TypeOK, NEW p \in Procs, NEW id \in Ids, Landed(p, id)
  PROVE  /\ Turned(p, "timer", id) /\ fire[p]["timer"][id].at = "done" /\ fire'[p]["timer"][id] = Idle
         /\ UNCHANGED <<now, disk, inode, locked, edit, session, said, faults, asks>>
         /\ proc' \in [Procs -> Proc]
         /\ \A q \in Procs : /\ proc'[q].at = proc[q].at /\ proc'[q].fd = proc[q].fd
                             /\ q # p => proc'[q] = proc[q]
         /\ \A j \in Ids :
              proc'[p].spent[j] = IF j = id /\ ~proc[p].cancel /\ fire[p]["timer"][id].end = "spent"
                                  THEN fire[p]["timer"][id].stamp ELSE proc[p].spent[j]
         /\ lost' = IF /\ fire[p]["timer"][id].stamp > disk[id].last
                       /\ proc[p].cancel \/ fire[p]["timer"][id].end = "panicked"
                    THEN lost \cup {id} ELSE lost
<1>. DEFINE f == fire[p]["timer"][id]
<1>1. /\ f.at = "done" /\ Becomes(p, "timer", id, Idle)
      /\ UNCHANGED <<now, disk, inode, locked, edit, session, said, faults, asks>>
      /\ lost' = IF f.stamp > disk[id].last /\ (proc[p].cancel \/ f.end = "panicked")
                 THEN lost \cup {id} ELSE lost
      /\ proc' = IF proc[p].cancel THEN proc
                 ELSE IF f.end = "spent" THEN [proc EXCEPT ![p].spent[id] = f.stamp]
                 ELSE IF f.end \in {"unopened", "panicked"} THEN [proc EXCEPT ![p].retry = @ \cup {id}]
                 ELSE proc
  BY DEF Landed, store, claim, budget
<1>2. "timer" \in Who /\ f.stamp \in Times /\ Idle \in Fire
  BY FireFields, Beginnings DEF Who
<1>3. Turned(p, "timer", id) /\ fire'[p]["timer"][id] = Idle
  BY <1>1, <1>2, BecomesIs DEF Turned
<1>. HIDE DEF f
<1>4. proc \in [Procs -> Proc] /\ proc[p] \in Proc /\ proc[p].spent \in [Ids -> Times] /\ proc[p].retry \subseteq Ids
  BY DEF TypeOK, Proc
<1>5. /\ proc' \in [Procs -> Proc]
      /\ \A q \in Procs : /\ proc'[q].at = proc[q].at /\ proc'[q].fd = proc[q].fd
                          /\ q # p => proc'[q] = proc[q]
      /\ \A j \in Ids :
           proc'[p].spent[j] = IF j = id /\ ~proc[p].cancel /\ f.end = "spent"
                               THEN f.stamp ELSE proc[p].spent[j]
  <2>1. CASE proc' = proc /\ (proc[p].cancel \/ f.end # "spent")
    BY <1>4, <2>1
  <2>2. CASE ~proc[p].cancel /\ f.end = "spent" /\ proc' = [proc EXCEPT ![p].spent[id] = f.stamp]
    <3>. DEFINE r == [proc[p] EXCEPT !.spent = [proc[p].spent EXCEPT ![id] = f.stamp]]
    <3>1. proc' = [proc EXCEPT ![p] = r]
      BY <1>4, <2>2
    <3>2. [proc[p].spent EXCEPT ![id] = f.stamp] \in [Ids -> Times]
      BY <1>2, <1>4
    <3>3. /\ r \in Proc /\ r.at = proc[p].at /\ r.fd = proc[p].fd
          /\ r.spent = [proc[p].spent EXCEPT ![id] = f.stamp]
      BY <1>4, <3>2 DEF Proc
    <3>. HIDE DEF r
    <3>. QED
      BY <1>4, <2>2, <3>1, <3>3
  <2>3. CASE ~proc[p].cancel /\ f.end # "spent" /\ proc' = [proc EXCEPT ![p].retry = @ \cup {id}]
    <3>. DEFINE r == [proc[p] EXCEPT !.retry = proc[p].retry \cup {id}]
    <3>1. proc' = [proc EXCEPT ![p] = r]
      BY <1>4, <2>3
    <3>2. proc[p].retry \cup {id} \in SUBSET Ids
      BY <1>4
    <3>3. r \in Proc /\ r.at = proc[p].at /\ r.fd = proc[p].fd /\ r.spent = proc[p].spent
      BY <1>4, <3>2 DEF Proc
    <3>. HIDE DEF r
    <3>. QED
      BY <1>4, <2>3, <3>1, <3>3
  <2>. QED
    BY <1>1, <2>1, <2>2, <2>3
<1>. QED
  BY <1>1, <1>3, <1>5 DEF f

\* The person fires an entry that is a file.
LEMMA RunNowIs ==
  ASSUME TypeOK, NEW p \in Procs, NEW id \in Ids, RunNow(p, id)
  PROVE  /\ Turned(p, "person", id) /\ fire'[p]["person"][id].at = "opening"
         /\ UNCHANGED <<now, disk, inode, locked, proc, edit, session, said, lost, faults>>
         /\ asks' \in 0..MaxAsks
<1>. DEFINE f == [Idle EXCEPT !.at = "opening", !.anchor = disk[id].last]
<1>1. /\ Becomes(p, "person", id, f) /\ Asks
      /\ UNCHANGED <<now, disk, inode, locked, proc, edit, session, said, lost, faults>>
  BY DEF RunNow, store, claim, record
<1>2. "person" \in Who /\ disk[id].last \in Times
  BY DEF Who, TypeOK, Entry
<1>3. f \in Fire /\ f.at = "opening"
  BY <1>2, Beginnings DEF Fire
<1>. HIDE DEF f
<1>4. asks' \in 0..MaxAsks
  BY <1>1, ScheduleAssumption DEF Asks, TypeOK
<1>. QED
  BY <1>1, <1>2, <1>3, <1>4, BecomesIs DEF Turned

\* An edit is read from a file, and written over whatever is there.
LEMMA EditIs ==
  ASSUME TypeOK
  PROVE  /\ \A p \in Procs, id \in Ids, enabled \in BOOLEAN :
              EditRead(p, id, enabled) =>
                /\ edit' \in [by : Procs \cup {Nobody}, id : Ids, entry : Entry]
                /\ disk[id].file /\ edit'.id = id /\ edit'.entry.spec = disk[id].spec /\ edit'.entry.file
                /\ UNCHANGED <<now, disk, inode, locked, proc, fire, session, said, lost, faults>>
                /\ asks' \in 0..MaxAsks
         /\ EditWrite =>
              /\ edit # NoEdit /\ edit' = NoEdit
              /\ UNCHANGED <<now, inode, locked, proc, fire, session, said, asks>> /\ faults' \in 0..MaxFaults
              /\ \/ /\ disk' = [disk EXCEPT ![edit.id] = edit.entry]
                    /\ lost' = IF Overwrites(edit.id, edit.entry.last) THEN lost \cup {edit.id} ELSE lost
                 \/ UNCHANGED <<disk, lost>>
<1>1. ASSUME NEW p \in Procs, NEW id \in Ids, NEW enabled \in BOOLEAN, EditRead(p, id, enabled)
      PROVE  /\ edit' \in [by : Procs \cup {Nobody}, id : Ids, entry : Entry]
             /\ disk[id].file /\ edit'.id = id /\ edit'.entry.spec = disk[id].spec /\ edit'.entry.file
             /\ UNCHANGED <<now, disk, inode, locked, proc, fire, session, said, lost, faults>>
             /\ asks' \in 0..MaxAsks
  <2>. DEFINE e == [disk[id] EXCEPT !.enabled = enabled]
  <2>1. /\ Asks /\ disk[id].file /\ edit' = [by |-> p, id |-> id, entry |-> e]
        /\ UNCHANGED <<now, disk, inode, locked, proc, fire, session, said, lost, faults>>
    BY <1>1 DEF EditRead, store, claim, record
  <2>2. disk[id] \in Entry
    BY DEF TypeOK
  <2>3. e \in Entry /\ e.spec = disk[id].spec /\ e.file = disk[id].file
    BY <2>2 DEF Entry
  <2>. HIDE DEF e
  <2>4. asks' \in 0..MaxAsks
    BY <2>1, ScheduleAssumption DEF Asks, TypeOK
  <2>. QED
    BY <2>1, <2>3, <2>4
<1>2. ASSUME EditWrite
      PROVE  faults' \in 0..MaxFaults
  BY <1>2, ScheduleAssumption DEF EditWrite, Fault, TypeOK
<1>. QED
  BY <1>1, <1>2 DEF EditWrite, claim

\* The fires keep their type when the rest does.
LEMMA TypesOfFires ==
  ASSUME TypeOK, NEW p \in Procs, NEW id \in Ids,
         \/ Landed(p, id) \/ Panics(p, id) \/ RunNow(p, id)
         \/ \E w \in Who : Firing(p, w, id) \/ OpenFails(p, w, id) \/ RereadFails(p, w, id)
  PROVE  TypeOK'
<1>1. ASSUME NEW w \in Who, Turned(p, w, id),
             fire'[p][w][id].at \in {"read", "spent"} =>
               fire'[p][w][id].entry.file /\ fire'[p][w][id].entry.enabled
      PROVE  FiresOK'
  BY <1>1, TurnTypes
<1>t. "timer" \in Who /\ "person" \in Who
  BY DEF Who
<1>2. CASE Landed(p, id)
  <2>1. FiresOK'
    BY <1>1, <1>2, <1>t, LandedIs, Beginnings
  <2>2. lost' \subseteq Ids
    <3>1. lost' = lost \cup {id} \/ lost' = lost
      BY <1>2, LandedIs
    <3>. QED
      BY <3>1 DEF TypeOK
  <2>. QED
    BY <1>2, <2>1, <2>2, LandedIs DEF TypeOK, FiresOK
<1>3. CASE Panics(p, id)
  <2>1. FiresOK'
    BY <1>1, <1>3, <1>t, PanicsIs
  <2>. QED
    BY <1>3, <2>1, PanicsIs DEF TypeOK, FiresOK
<1>4. CASE RunNow(p, id)
  <2>1. FiresOK'
    BY <1>1, <1>4, <1>t, RunNowIs
  <2>. QED
    BY <1>4, <2>1, RunNowIs DEF TypeOK, FiresOK
<1>5. ASSUME NEW w \in Who, Open(p, w, id) \/ OpenRefused(p, w, id) \/ OpenFails(p, w, id)
      PROVE  TypeOK'
  <2>1. FiresOK'
    BY <1>1, <1>5, OpenIs
  <2>. QED
    BY <1>5, <2>1, OpenIs DEF TypeOK, FiresOK
<1>6. ASSUME NEW w \in Who, Reread(p, w, id) \/ RereadFails(p, w, id)
      PROVE  TypeOK'
  <2>1. FiresOK'
    BY <1>1, <1>6, RereadIs
  <2>. QED
    BY <1>6, <2>1, RereadIs DEF TypeOK, FiresOK
<1>7. ASSUME NEW w \in Who, Stamp(p, w, id)
      PROVE  TypeOK'
  <2>1. fire[p][w][id].entry.file /\ fire[p][w][id].entry.enabled
    BY <1>7, StampIs, FireFields
  <2>2. FiresOK'
    BY <1>1, <1>7, <2>1, StampIs
  <2>3. lost' \subseteq Ids
    <3>1. lost' = lost \cup {id} \/ lost' = lost
      BY <1>7, StampIs
    <3>. QED
      BY <3>1 DEF TypeOK
  <2>. QED
    BY <1>7, <2>2, <2>3, StampIs DEF TypeOK, FiresOK
<1>8. ASSUME NEW w \in Who, Say(p, w, id)
      PROVE  TypeOK'
  <2>1. FiresOK'
    BY <1>1, <1>8, SayIs
  <2>. QED
    BY <1>8, <2>1, SayIs DEF TypeOK, FiresOK
<1>. QED
  BY <1>2, <1>3, <1>4, <1>5, <1>6, <1>7, <1>8 DEF Firing

\* A rescan lets an entry be tried again.
LEMMA RescanIs ==
  ASSUME TypeOK, NEW p \in Procs, NEW id \in Ids, Rescan(p, id)
  PROVE  /\ proc' \in [Procs -> Proc]
         /\ \A q \in Procs : proc'[q].at = proc[q].at /\ proc'[q].fd = proc[q].fd /\ proc'[q].spent = proc[q].spent
         /\ UNCHANGED <<now, disk, inode, locked, fire, edit, session, said, lost, faults, asks>>
<1>. DEFINE r == [proc[p] EXCEPT !.retry = proc[p].retry \ {id}]
<1>1. proc \in [Procs -> Proc] /\ proc[p] \in Proc /\ proc[p].retry \ {id} \in SUBSET Ids
  BY DEF TypeOK, Proc
<1>2. r \in Proc /\ r.at = proc[p].at /\ r.fd = proc[p].fd /\ r.spent = proc[p].spent
  BY <1>1 DEF Proc
<1>3. proc' = [proc EXCEPT ![p] = r]
  BY <1>1 DEF Rescan
<1>. HIDE DEF r
<1>4. UNCHANGED <<now, disk, inode, locked, fire, edit, session, said, lost, faults, asks>>
  BY DEF Rescan, store, claim, record, budget
<1>. QED
  BY <1>1, <1>2, <1>3, <1>4

\* What is left: the clock, the person's edits and the sessions.
LEMMA TypesOfRest ==
  ASSUME TypeOK,
         \/ Tick \/ EditWrite
         \/ \E p \in Procs, id \in Ids :
              \/ Rescan(p, id) \/ CloseSession(p, id) \/ Forget(p, id)
              \/ \E spec \in Specs : Add(p, id, spec)
              \/ \E enabled \in BOOLEAN : EditRead(p, id, enabled)
  PROVE  TypeOK'
<1>1. CASE Tick
  <2>1. now' \in Times
    BY <1>1, ScheduleAssumption DEF Tick, TypeOK, Times
  <2>. QED
    BY <1>1, <2>1 DEF Tick, TypeOK, claim, record, budget
<1>2. CASE EditWrite
  <2>1. disk' \in [Ids -> Entry]
    <3>1. edit.id \in Ids /\ edit.entry \in Entry /\ disk \in [Ids -> Entry]
      BY DEF TypeOK
    <3>2. disk' = [disk EXCEPT ![edit.id] = edit.entry] \/ disk' = disk
      BY <1>2, EditIs
    <3>. QED
      BY <3>1, <3>2
  <2>2. lost' \subseteq Ids
    <3>1. lost' = lost \cup {edit.id} \/ lost' = lost
      BY <1>2, EditIs
    <3>. QED
      BY <3>1 DEF TypeOK
  <2>3. edit' \in [by : Procs \cup {Nobody}, id : Ids, entry : Entry]
    BY <1>2, EditIs, Beginnings
  <2>. QED
    BY <1>2, <2>1, <2>2, <2>3, EditIs DEF TypeOK
<1>3. ASSUME NEW p \in Procs, NEW id \in Ids, Rescan(p, id)
      PROVE  TypeOK'
  <2>1. proc' \in [Procs -> Proc]
    BY <1>3, RescanIs
  <2>. QED
    BY <1>3, <2>1 DEF Rescan, TypeOK, store, claim, record, budget
<1>4. ASSUME NEW p \in Procs, NEW id \in Ids, CloseSession(p, id)
      PROVE  TypeOK'
  BY <1>4 DEF CloseSession, TypeOK, store, claim, record, budget
<1>5. ASSUME NEW p \in Procs, NEW id \in Ids,
             Forget(p, id) \/ \E spec \in Specs : Add(p, id, spec)
      PROVE  TypeOK'
  <2>1. /\ UNCHANGED <<now, inode, locked, proc, fire, edit, session, said, lost, faults>> /\ Asks
        /\ disk' = [disk EXCEPT ![id] = Gone] \/ \E spec \in Specs : disk' = [disk EXCEPT ![id] = Written(spec, now)]
    BY <1>5 DEF Forget, Add, claim, record
  <2>2. disk' \in [Ids -> Entry]
    <3>1. now \in Times /\ disk \in [Ids -> Entry]
      BY DEF TypeOK
    <3>2. PICK e \in Entry : disk' = [disk EXCEPT ![id] = e]
      BY <2>1, <3>1, Entries
    <3>. QED
      BY <3>1, <3>2
  <2>3. asks' \in 0..MaxAsks
    BY <2>1, ScheduleAssumption DEF Asks, TypeOK
  <2>. QED
    BY <2>1, <2>2, <2>3 DEF TypeOK
<1>6. ASSUME NEW p \in Procs, NEW id \in Ids, NEW enabled \in BOOLEAN, EditRead(p, id, enabled)
      PROVE  TypeOK'
  BY <1>6, EditIs DEF TypeOK
<1>. QED
  BY <1>1, <1>2, <1>3, <1>4, <1>5, <1>6

LEMMA TypesKept ==
  ASSUME TypeOK, [Next]_vars
  PROVE  TypeOK'
<1>1. CASE Next
  BY <1>1, TypesOfSupervising, TypesOfLaunch, TypesOfFires, TypesOfRest DEF Next, Supervising
<1>2. CASE UNCHANGED vars
  BY <1>2 DEF vars, TypeOK
<1>. QED
  BY <1>1, <1>2

LEMMA TypesBegin ==
  ASSUME Init
  PROVE  TypeOK
<1>1. Period \in Times /\ 0 \in Times
  BY ScheduleAssumption DEF Times
<1>2. disk \in [Ids -> Entry]
  <2>1. \A spec \in Specs : Written(spec, 0) \in Entry
    BY <1>1, Entries
  <2>. QED
    BY <2>1, Entries DEF Init
<1>3. proc \in [Procs -> Proc] /\ fire \in [Procs -> [Who -> [Ids -> Fire]]]
  BY Beginnings DEF Init
<1>4. \A p \in Procs, w \in Who, id \in Ids : fire[p][w][id].at = "idle"
  BY Beginnings DEF Init
<1>5. /\ locked \in [1..2 -> Procs \cup {Nobody}] /\ session \in [Ids -> Procs \cup {Nobody}]
      /\ said \in [Ids -> SUBSET [spec : Specs, at : Times]]
  BY DEF Init
<1>6. edit \in [by : Procs \cup {Nobody}, id : Ids, entry : Entry]
  BY Beginnings DEF Init
<1>7. now \in Times /\ inode \in 0..2 /\ lost \subseteq Ids /\ faults \in 0..MaxFaults /\ asks \in 0..MaxAsks
  BY <1>1, ScheduleAssumption DEF Init
<1>. QED
  BY <1>2, <1>3, <1>4, <1>5, <1>6, <1>7 DEF TypeOK

-----------------------------------------------------------------------------
(* One runner. *)

\* A step that moves no process's claim: only the loop of one that runs has fires
\* and stamps to remember.
LEMMA ClaimedStep ==
  ASSUME TypeOK, Claimed, UNCHANGED <<inode, locked>>,
         \A p \in Procs : proc'[p].at = proc[p].at /\ proc'[p].fd = proc[p].fd,
         \A p \in Procs, id \in Ids :
           fire'[p]["timer"][id].at # "idle" => fire[p]["timer"][id].at # "idle" \/ proc[p].at = "running",
         \A p \in Procs, id \in Ids :
           proc'[p].spent[id] # 0 => proc[p].spent[id] # 0 \/ proc[p].at = "running"
  PROVE  Claimed'
BY DEF Claimed

\* The lock file is published once and its lock is the OS's to give: a process that
\* gets to run found nobody that holds it.
LEMMA ClaimedKept ==
  ASSUME TypeOK, Claimed, \A p \in Procs, id \in Ids : Carries(p, id), [Next]_vars
  PROVE  Claimed'
<1>t. "timer" \in Who /\ "person" \in Who
  BY DEF Who
<1>1. ASSUME NEW p \in Procs, NEW id \in Ids, NEW w \in Who, Turned(p, w, id),
             w = "timer" /\ fire'[p][w][id].at # "idle" => fire[p][w][id].at # "idle",
             UNCHANGED <<inode, locked, proc>>
      PROVE  Claimed'
  <2>1. \A q \in Procs, j \in Ids : fire'[q]["timer"][j].at # "idle" => fire[q]["timer"][j].at # "idle"
    BY <1>1, <1>t DEF Turned
  <2>. QED
    BY <1>1, <2>1, ClaimedStep

<1>2. ASSUME NEW p \in Procs, proc' \in [Procs -> Proc], fire' = fire, proc'[p].spent = proc[p].spent,
             \A q \in Procs : q # p => proc'[q] = proc[q],
             proc[p].at # "running", inode' \in {0, 1}, inode = 1 => inode' = 1,
             \A q \in Procs : q # p /\ locked[1] = q => locked'[1] = q,
             proc'[p].at \in {"locking", "running"} => proc'[p].fd = 1 /\ inode' = 1,
             proc'[p].at = "running" => locked'[1] = p
      PROVE  Claimed'
  <2>1. \A id \in Ids : fire[p]["timer"][id].at = "idle" /\ proc[p].spent[id] = 0
    BY <1>2 DEF Claimed
  <2>2. ASSUME NEW q \in Procs, q # p
        PROVE  /\ proc'[q].at \in {"locking", "running"} => proc'[q].fd = 1 /\ inode' = 1
               /\ proc'[q].at = "running" => locked'[1] = q
               /\ \A id \in Ids : /\ fire'[q]["timer"][id].at # "idle" => proc'[q].at = "running"
                                  /\ proc'[q].spent[id] # 0 => proc'[q].at = "running"
    BY <1>2, <2>2 DEF Claimed
  <2>. QED
    BY <1>2, <2>1, <2>2 DEF Claimed
<1>3. ASSUME NEW p \in Procs, Start(p)
      PROVE  Claimed'
  BY <1>3, <1>2, AtIs DEF Start, claim, Claimed
<1>4. ASSUME NEW p \in Procs, OpenClaim(p)
      PROVE  Claimed'
  <2>1. proc[p].at = "opening" /\ UNCHANGED <<inode, locked, fire>> /\ inode \in {0, 1}
    BY <1>4 DEF OpenClaim, claim, Claimed
  <2>2. CASE At(p, "staging")
    BY <2>1, <2>2, <1>2, AtIs
  <2>3. CASE inode # 0 /\ proc' = [proc EXCEPT ![p].at = "locking", ![p].fd = inode]
    <3>. DEFINE r == [proc[p] EXCEPT !.at = "locking", !.fd = inode]
    <3>1. r \in Proc /\ r.at = "locking" /\ r.fd = inode /\ r.spent = proc[p].spent
      BY DEF TypeOK, Proc
    <3>2. proc' = [proc EXCEPT ![p] = r] /\ proc \in [Procs -> Proc]
      BY <2>3 DEF TypeOK
    <3>. HIDE DEF r
    <3>3. proc' \in [Procs -> Proc] /\ proc'[p] = r /\ \A q \in Procs : q # p => proc'[q] = proc[q]
      BY <3>1, <3>2
    <3>. QED
      BY <2>1, <2>3, <3>1, <3>3, <1>2
  <2>. QED
    BY <1>4, <2>2, <2>3 DEF OpenClaim
<1>5. ASSUME NEW p \in Procs, Publish(p)
      PROVE  Claimed'
  BY <1>5, <1>2, AtIs DEF Publish, Claimed
<1>6. ASSUME NEW p \in Procs, TryLock(p)
      PROVE  Claimed'
  <2>1. proc[p].at = "locking" /\ UNCHANGED <<inode, fire>> /\ inode = 1 /\ proc[p].fd = 1
    BY <1>6 DEF TryLock, Claimed
  <2>2. locked \in [1..2 -> Procs \cup {Nobody}] /\ 1 \in 1..2 /\ Nobody \notin Procs
    BY ScheduleAssumption DEF TypeOK
  <2>3. CASE locked[1] = Nobody /\ locked' = [locked EXCEPT ![1] = p] /\ At(p, "running")
    <3>1. locked'[1] = p
      BY <2>2, <2>3
    <3>. QED
      BY <2>1, <2>2, <2>3, <3>1, <1>2, AtIs
  <2>4. CASE locked' = locked /\ proc' = [proc EXCEPT ![p].at = "opening", ![p].fd = 0]
    BY <2>1, <2>4, <1>2, StandsByIs DEF Claimed
  <2>. QED
    BY <1>6, <2>1, <2>3, <2>4 DEF TryLock
<1>7. ASSUME NEW p \in Procs, proc' \in [Procs -> Proc], inode' = inode, Unlock(p),
             proc'[p].at \in {"down", "left"}, \A id \in Ids : proc'[p].spent[id] = 0,
             \A q \in Procs : q # p => proc'[q] = proc[q] /\ fire'[q] = fire[q],
             \A id \in Ids : fire'[p]["timer"][id].at = "idle"
      PROVE  Claimed'
  <2>1. locked'[1] = IF locked[1] = p THEN Nobody ELSE locked[1]
    BY <1>7, UnlockIs
  <2>2. ASSUME NEW q \in Procs, q # p
        PROVE  /\ proc'[q].at \in {"locking", "running"} => proc'[q].fd = 1 /\ inode' = 1
               /\ proc'[q].at = "running" => locked'[1] = q
               /\ \A id \in Ids : /\ fire'[q]["timer"][id].at # "idle" => proc'[q].at = "running"
                                  /\ proc'[q].spent[id] # 0 => proc'[q].at = "running"
    BY <1>7, <2>1, <2>2 DEF Claimed
  <2>. QED
    BY <1>7, <2>2 DEF Claimed
<1>8. ASSUME NEW p \in Procs, Leave(p)
      PROVE  Claimed'
  <2>1. /\ inode' = inode /\ Unlock(p) /\ fire' = fire /\ Flying(p) = {}
        /\ proc' = [proc EXCEPT ![p] = [Fresh EXCEPT !.at = "left", !.cancel = TRUE]]
    BY <1>8 DEF Leave
  <2>2. \A id \in Ids : fire[p]["timer"][id].at = "idle"
    BY <2>1 DEF Flying
  <2>3. /\ proc' \in [Procs -> Proc] /\ proc'[p].at = "left" /\ \A id \in Ids : proc'[p].spent[id] = 0
        /\ \A q \in Procs : q # p => proc'[q] = proc[q]
    <3>. DEFINE r == [Fresh EXCEPT !.at = "left", !.cancel = TRUE]
    <3>1. r \in Proc /\ r.at = "left" /\ r.spent = Fresh.spent
      BY Beginnings DEF Proc
    <3>2. proc' = [proc EXCEPT ![p] = r] /\ proc \in [Procs -> Proc]
      BY <2>1 DEF TypeOK
    <3>. HIDE DEF r
    <3>. QED
      BY <3>1, <3>2, Beginnings
  <2>. QED
    BY <2>1, <2>2, <2>3, <1>7
<1>9. ASSUME NEW p \in Procs, Crash(p)
      PROVE  Claimed'
  <2>1. /\ inode' = inode /\ Unlock(p) /\ fire' = [fire EXCEPT ![p] = [w \in Who |-> [id \in Ids |-> Idle]]]
        /\ proc' = [proc EXCEPT ![p] = [Fresh EXCEPT !.cancel = TRUE]]
    BY <1>9 DEF Crash, Ends
  <2>2. /\ \A id \in Ids : fire'[p]["timer"][id].at = "idle"
        /\ \A q \in Procs : q # p => fire'[q] = fire[q]
    BY <2>1, <1>t, Beginnings DEF TypeOK
  <2>3. /\ proc' \in [Procs -> Proc] /\ proc'[p].at = "down" /\ \A id \in Ids : proc'[p].spent[id] = 0
        /\ \A q \in Procs : q # p => proc'[q] = proc[q]
    <3>. DEFINE r == [Fresh EXCEPT !.cancel = TRUE]
    <3>1. r \in Proc /\ r.at = "down" /\ r.spent = Fresh.spent
      BY Beginnings DEF Proc
    <3>2. proc' = [proc EXCEPT ![p] = r] /\ proc \in [Procs -> Proc]
      BY <2>1 DEF TypeOK
    <3>. HIDE DEF r
    <3>. QED
      BY <3>1, <3>2, Beginnings
  <2>. QED
    BY <2>1, <2>2, <2>3, <1>7
<1>10. ASSUME NEW p \in Procs, Launch(p) \/ Misread(p)
       PROVE  Claimed'
  <2>. PICK unread \in SUBSET Ids : Pass(p, unread)
    BY <1>10, PassHas
  <2>1. proc[p].at = "running" /\ UNCHANGED <<inode, locked>>
    BY DEF Pass, claim
  <2>2. ASSUME NEW q \in Procs
        PROVE  /\ proc'[q].at = proc[q].at /\ proc'[q].fd = proc[q].fd
               /\ q # p => fire'[q] = fire[q] /\ proc'[q] = proc[q]
    BY PassIs
  <2>. QED
    BY <2>1, <2>2, ClaimedStep
<1>11. ASSUME NEW p \in Procs, NEW id \in Ids, Landed(p, id)
       PROVE  Claimed'
  <2>1. proc[p].at = "running"
    BY <1>11, LandedIs DEF Claimed
  <2>2. \A q \in Procs, j \in Ids : fire'[q]["timer"][j].at # "idle" => fire[q]["timer"][j].at # "idle"
    BY <1>11, <1>t, LandedIs, Beginnings DEF Turned
  <2>3. /\ UNCHANGED <<inode, locked>>
        /\ \A q \in Procs : /\ proc'[q].at = proc[q].at /\ proc'[q].fd = proc[q].fd
                            /\ q # p => proc'[q] = proc[q]
    BY <1>11, LandedIs
  <2>. QED
    BY <2>1, <2>2, <2>3, ClaimedStep
<1>12. ASSUME NEW p \in Procs, NEW id \in Ids, Panics(p, id)
       PROVE  Claimed'
  <2>1. fire[p]["timer"][id].at # "idle"
    BY <1>12, PanicsIs DEF Carries
  <2>. QED
    BY <1>1, <1>12, <1>t, <2>1, PanicsIs
<1>13. ASSUME NEW p \in Procs, NEW id \in Ids, RunNow(p, id)
       PROVE  Claimed'
  BY <1>1, <1>13, <1>t, RunNowIs
<1>14. ASSUME NEW p \in Procs, NEW id \in Ids, NEW w \in Who,
              Open(p, w, id) \/ OpenRefused(p, w, id) \/ OpenFails(p, w, id)
       PROVE  Claimed'
  BY <1>1, <1>14, OpenIs
<1>15. ASSUME NEW p \in Procs, NEW id \in Ids, NEW w \in Who,
              Reread(p, w, id) \/ RereadFails(p, w, id) \/ Stamp(p, w, id) \/ Say(p, w, id)
       PROVE  Claimed'
  BY <1>1, <1>15, RereadIs, StampIs, SayIs
<1>16. ASSUME NEW p \in Procs, Stop(p) \/ \E id \in Ids : Rescan(p, id)
       PROVE  Claimed'
  <2>1. /\ UNCHANGED <<inode, locked, fire>>
        /\ \A q \in Procs : proc'[q].at = proc[q].at /\ proc'[q].fd = proc[q].fd /\ proc'[q].spent = proc[q].spent
    <3>1. CASE Stop(p)
      BY <3>1 DEF Stop, claim, TypeOK, Proc
    <3>2. CASE \E id \in Ids : Rescan(p, id)
      BY <3>2, RescanIs
    <3>. QED
      BY <1>16, <3>1, <3>2
  <2>. QED
    BY <2>1, ClaimedStep
<1>17. ASSUME UNCHANGED <<inode, locked, fire, proc>>
       PROVE  Claimed'
  BY <1>17, ClaimedStep
<1>18. CASE UNCHANGED vars
  BY <1>17, <1>18 DEF vars
<1>19. CASE Tick \/ EditWrite
  BY <1>17, <1>19 DEF Tick, EditWrite, claim
<1>20. ASSUME NEW p \in Procs, NEW id \in Ids,
              \/ CloseSession(p, id) \/ Forget(p, id)
              \/ \E spec \in Specs : Add(p, id, spec)
              \/ \E enabled \in BOOLEAN : EditRead(p, id, enabled)
       PROVE  Claimed'
  BY <1>17, <1>20 DEF CloseSession, Forget, Add, EditRead, claim
<1>. QED
  BY <1>3, <1>4, <1>5, <1>6, <1>8, <1>9, <1>10, <1>11, <1>12, <1>13, <1>14, <1>15, <1>16, <1>18, <1>19, <1>20
     DEF Next, Supervising, Firing

\* Two that run would both hold the one lock.
LEMMA ClaimedIsOne ==
  ASSUME Claimed
  PROVE  OneRunner
<1>1. \A p \in Procs : Runs(p) => proc[p].at = "running"
  BY DEF Claimed, Runs, Flying
<1>. QED
  BY <1>1 DEF Claimed, OneRunner

-----------------------------------------------------------------------------
(* What was said, part by part. *)

\* What was said is typed.
LEMMA SaidFields ==
  ASSUME ScheduleInv, NEW id \in Ids, NEW s \in said[id]
  PROVE  /\ s.spec \in Specs /\ s.at \in Times /\ s.at \in Nat \ {0} /\ s.at <= now
         /\ SpecNext(s.spec, s.at) \in Nat
<1>1. s \in [spec : Specs, at : Times]
  BY DEF ScheduleInv, TypeOK
<1>2. s.at \in 1..now /\ now \in Nat
  BY DEF ScheduleInv, History, Past
<1>3. SpecNext(s.spec, s.at) \in Nat
  BY <1>1, <1>2, SpecNextGrows
<1>. QED
  BY <1>1, <1>2, <1>3

\* A fire of the loop that does not move keeps what it carries.
LEMMA CarriesKept ==
  ASSUME ScheduleInv, NEW p \in Procs, NEW id \in Ids,
         fire'[p]["timer"][id] = fire[p]["timer"][id], now' \in Nat, now <= now',
         proc'[p].spent[id] = proc[p].spent[id] \/ proc'[p].spent[id] = 0
  PROVE  Carries(p, id)'
<1>1. /\ Carries(p, id) /\ now \in Nat /\ proc[p].spent[id] \in Nat
      /\ fire[p]["timer"][id].stamp \in Nat
  BY Stamps, FireFields DEF ScheduleInv, Times, Who
<1>. QED
  BY <1>1 DEF Carries

\* Nor does it come too early when nothing is said meanwhile.
LEMMA ReadyKept ==
  ASSUME ScheduleInv, NEW p \in Procs, NEW id \in Ids,
         fire'[p]["timer"][id] = fire[p]["timer"][id], now' \in Nat, now <= now',
         said'[id] = said[id], id \in lost => id \in lost'
  PROVE  Ready(p, id)'
<1>1. Ready(p, id) /\ now \in Nat
  BY DEF ScheduleInv
<1>2. \A s \in said[id] : SpecNext(s.spec, s.at) \in Nat
  BY SaidFields
<1>3. \A s \in said[id] : SpecNext(s.spec, s.at) <= now => SpecNext(s.spec, s.at) <= now'
  BY <1>1, <1>2
<1>. QED
  BY <1>1, <1>3 DEF Ready

\* The history of an entry of which nothing is said.
LEMMA HistoryKept ==
  ASSUME ScheduleInv, NEW id \in Ids, now' \in Nat, now <= now',
         said'[id] = said[id], id \in lost => id \in lost',
         disk'[id] = Unborn => disk[id] = Unborn,
         disk'[id].file /\ id \notin lost' => disk[id].file /\ disk'[id].spec = disk[id].spec,
         \A p \in Procs, w \in Who :
           fire'[p][w][id].at \in {"read", "spent"} =>
             \/ fire[p][w][id].at \in {"read", "spent"} /\ fire'[p][w][id].entry.spec = fire[p][w][id].entry.spec
             \/ fire'[p][w][id].entry.spec = disk[id].spec /\ disk[id].file,
         \/ edit' = edit \/ edit' = NoEdit
         \/ edit'.id # id
         \/ edit'.entry.spec = disk[id].spec /\ disk[id].file,
         \A at \in Nat \ {0} : disk[id].file /\ id \notin lost' /\ Vouched(id, at) => Vouched(id, at)'
  PROVE  History(id)'
<1>1. Untouched(id) /\ SameSpec(id) /\ Known(id) /\ Past(id) /\ now \in Nat
  BY DEF ScheduleInv, History
<1>2. Unborn.file = FALSE
  BY Entries
<1>3. Untouched(id)'
  BY <1>1, <1>2 DEF Untouched
<1>4. SameSpec(id)'
  BY <1>1 DEF SameSpec
<1>5. Known(id)'
  <2>. SUFFICES ASSUME id \notin lost', disk'[id].file, NEW s \in said[id]
                PROVE  Vouched(id, s.at)'
    BY DEF Known
  <2>1. s.at \in Nat \ {0} /\ Vouched(id, s.at) /\ disk[id].file
    BY <1>1, SaidFields DEF Known
  <2>. QED
    BY <2>1
<1>6. Past(id)'
  BY <1>1 DEF Past
<1>. QED
  BY <1>3, <1>4, <1>5, <1>6 DEF History

\* What was said once stays said once when nothing is said.
LEMMA SaidOnceKept ==
  ASSUME SaidOnce, said' = said, lost \subseteq lost'
  PROVE  SaidOnce'
BY DEF SaidOnce

\* A process vouches for what it remembers, whoever else has it.
LEMMA VouchedKept ==
  ASSUME TypeOK, NEW id \in Ids, NEW at \in Nat \ {0}, Vouched(id, at),
         disk'[id].last \in Nat, disk[id].last <= disk'[id].last,
         \A p \in Procs :
           /\ proc'[p].spent[id] \in Nat /\ InFlight(p, id)' \in Nat
           /\ \/ proc[p].spent[id] <= proc'[p].spent[id]
              \/ proc[p].spent[id] <= disk'[id].last
              \/ proc[p].spent[id] <= InFlight(p, id)'
           /\ \/ InFlight(p, id) <= InFlight(p, id)'
              \/ InFlight(p, id) <= disk'[id].last
              \/ InFlight(p, id) <= proc'[p].spent[id]
  PROVE  Vouched(id, at)'
<1>1. disk[id].last \in Nat /\ \A p \in Procs : proc[p].spent[id] \in Nat /\ InFlight(p, id) \in Nat
  <2>1. disk[id].last \in Nat
    BY DEF TypeOK, Entry, Times
  <2>. QED
    BY <2>1, Stamps DEF Times
<1>2. CASE at <= disk[id].last
  BY <1>1, <1>2 DEF Vouched
<1>3. CASE \E p \in Procs : at <= proc[p].spent[id] \/ at <= InFlight(p, id)
  <2>1. PICK p \in Procs : at <= proc[p].spent[id] \/ at <= InFlight(p, id)
    BY <1>3
  <2>2. at <= disk'[id].last \/ at <= proc'[p].spent[id] \/ at <= InFlight(p, id)'
    BY <1>1, <2>1
  <2>. QED
    BY <2>2 DEF Vouched
<1>. QED
  BY <1>2, <1>3 DEF Vouched

\* A step that leaves the fires, the files and what is remembered of them.
LEMMA QuietKeeps ==
  ASSUME ScheduleInv, TypeOK', Claimed', now <= now', UNCHANGED <<disk, fire, edit, said, lost>>,
         \A p \in Procs : proc'[p].spent = proc[p].spent
  PROVE  ScheduleInv'
<1>1. now' \in Nat \ {0} /\ now' \in Nat
  BY DEF ScheduleInv, TypeOK, Times
<1>2. \A p \in Procs, id \in Ids : Carries(p, id)' /\ Ready(p, id)'
  BY <1>1, CarriesKept, ReadyKept
<1>3. ASSUME NEW id \in Ids
      PROVE  History(id)'
  <2>1. \A at : Vouched(id, at) => Vouched(id, at)'
    BY DEF Vouched, InFlight
  <2>. QED
    BY <1>1, <2>1, HistoryKept
<1>4. SaidOnce'
  BY SaidOnceKept DEF ScheduleInv
<1>5. Edited'
  BY DEF ScheduleInv, Edited
<1>. QED
  BY <1>1, <1>2, <1>3, <1>4, <1>5 DEF ScheduleInv

\* A fire moves, and nothing else.
LEMMA TurnKeeps ==
  ASSUME ScheduleInv, TypeOK', Claimed', now <= now', UNCHANGED <<disk, edit, proc, said, lost>>,
         NEW p \in Procs, NEW w \in Who, NEW id \in Ids, Turned(p, w, id),
         w = "timer" => Carries(p, id)' /\ Ready(p, id)' /\ InFlight(p, id) <= InFlight(p, id)',
         fire'[p][w][id].at \in {"read", "spent"} =>
           fire'[p][w][id].entry.spec = disk[id].spec /\ disk[id].file
  PROVE  ScheduleInv'
<1>1. now' \in Nat \ {0} /\ now' \in Nat /\ TypeOK /\ "timer" \in Who
  BY DEF ScheduleInv, TypeOK, Times, Who
<1>2. \A q \in Procs, v \in Who, j \in Ids : q # p \/ v # w \/ j # id => fire'[q][v][j] = fire[q][v][j]
  BY DEF Turned
<1>3. ASSUME NEW q \in Procs, NEW j \in Ids
      PROVE  Carries(q, j)' /\ Ready(q, j)'
  <2>1. CASE w = "timer" /\ q = p /\ j = id
    BY <2>1
  <2>2. CASE ~(w = "timer" /\ q = p /\ j = id)
    <3>1. fire'[q]["timer"][j] = fire[q]["timer"][j]
      BY <1>1, <1>2, <2>2
    <3>. QED
      BY <1>1, <3>1, CarriesKept, ReadyKept
  <2>. QED
    BY <2>1, <2>2
<1>4. ASSUME NEW j \in Ids
      PROVE  History(j)'
  <2>1. ASSUME NEW at \in Nat \ {0}, Vouched(j, at)
        PROVE  Vouched(j, at)'
    <3>1. ASSUME NEW q \in Procs
          PROVE  InFlight(q, j) <= InFlight(q, j)' /\ InFlight(q, j)' \in Nat
      <4>1. InFlight(q, j) \in Nat /\ InFlight(q, j)' \in Nat
        <5>1. fire'[q]["timer"][j].stamp \in Nat /\ fire[q]["timer"][j].stamp \in Nat
          BY <1>1, FireFields DEF Turned, Fire, Times
        <5>. QED
          BY <5>1 DEF InFlight
      <4>2. CASE w = "timer" /\ q = p /\ j = id
        BY <4>1, <4>2
      <4>3. CASE ~(w = "timer" /\ q = p /\ j = id)
        <5>1. fire'[q]["timer"][j] = fire[q]["timer"][j]
          BY <1>1, <1>2, <4>3
        <5>. QED
          BY <4>1, <5>1 DEF InFlight
      <4>. QED
        BY <4>1, <4>2, <4>3
    <3>2. /\ disk[j].last \in Nat /\ \A q \in Procs : proc[q].spent[j] \in Nat
      BY <1>1, Stamps DEF Times
    <3>. QED
      BY <1>1, <2>1, <3>1, <3>2, VouchedKept
  <2>2. \A q \in Procs, v \in Who :
           fire'[q][v][j].at \in {"read", "spent"} =>
             \/ fire[q][v][j].at \in {"read", "spent"} /\ fire'[q][v][j].entry.spec = fire[q][v][j].entry.spec
             \/ fire'[q][v][j].entry.spec = disk[j].spec /\ disk[j].file
    BY <1>2
  <2>. QED
    BY <1>1, <2>1, <2>2, HistoryKept
<1>5. SaidOnce'
  BY SaidOnceKept DEF ScheduleInv
<1>6. Edited'
  BY DEF ScheduleInv, Edited
<1>. QED
  BY <1>1, <1>3, <1>4, <1>5, <1>6 DEF ScheduleInv

-----------------------------------------------------------------------------
(* The steps. *)

LEMMA QuietSteps ==
  ASSUME ScheduleInv, TypeOK', Claimed',
         \/ Tick \/ UNCHANGED vars
         \/ \E p \in Procs : \/ Start(p) \/ OpenClaim(p) \/ Publish(p) \/ TryLock(p) \/ Stop(p)
                             \/ \E id \in Ids : Rescan(p, id) \/ CloseSession(p, id)
  PROVE  ScheduleInv'
<1>1. now \in Nat /\ TypeOK
  BY DEF ScheduleInv
<1>2. CASE Tick \/ UNCHANGED vars
  BY <1>1, <1>2, QuietKeeps DEF Tick, vars, claim, record, budget
<1>3. ASSUME NEW p \in Procs, Start(p) \/ Publish(p) \/ TryLock(p)
      PROVE  ScheduleInv'
  <2>1. /\ UNCHANGED <<now, disk, fire, edit, said, lost>>
        /\ \/ \E place \in {"opening", "running"} : At(p, place)
           \/ proc' = [proc EXCEPT ![p].at = "opening", ![p].fd = 0]
    BY <1>3 DEF Start, Publish, TryLock, store, record
  <2>2. \A q \in Procs : proc'[q].spent = proc[q].spent
    BY <1>1, <2>1, AtIs, StandsByIs
  <2>. QED
    BY <1>1, <2>1, <2>2, QuietKeeps
<1>4. ASSUME NEW p \in Procs, OpenClaim(p) \/ Stop(p)
      PROVE  ScheduleInv'
  <2>1. UNCHANGED <<now, disk, fire, edit, said, lost>>
    BY <1>4 DEF OpenClaim, Stop, store, record
  <2>2. \A q \in Procs : proc'[q].spent = proc[q].spent
    <3>1. CASE At(p, "staging")
      BY <1>1, <3>1, AtIs
    <3>2. CASE proc' = [proc EXCEPT ![p].at = "locking", ![p].fd = inode]
      BY <1>1, <3>2 DEF TypeOK, Proc
    <3>3. CASE proc' = [proc EXCEPT ![p].cancel = TRUE]
      BY <1>1, <3>3 DEF TypeOK, Proc
    <3>. QED
      BY <1>4, <3>1, <3>2, <3>3 DEF OpenClaim, Stop
  <2>. QED
    BY <1>1, <2>1, <2>2, QuietKeeps
<1>5. ASSUME NEW p \in Procs, NEW id \in Ids, Rescan(p, id)
      PROVE  ScheduleInv'
  BY <1>1, <1>5, RescanIs, QuietKeeps
<1>6. ASSUME NEW p \in Procs, NEW id \in Ids, CloseSession(p, id)
      PROVE  ScheduleInv'
  BY <1>1, <1>6, QuietKeeps DEF CloseSession, store, record
<1>. QED
  BY <1>2, <1>3, <1>4, <1>5, <1>6

LEMMA OpenKeeps ==
  ASSUME ScheduleInv, TypeOK', Claimed', NEW p \in Procs, NEW w \in Who, NEW id \in Ids,
         Open(p, w, id) \/ OpenRefused(p, w, id) \/ OpenFails(p, w, id)
  PROVE  ScheduleInv'
<1>1. TypeOK /\ now \in Nat
  BY DEF ScheduleInv
<1>2. /\ Turned(p, w, id) /\ fire[p][w][id].at = "opening" /\ now' = now
      /\ fire'[p][w][id].at \in {"open", "idle", "done"}
      /\ UNCHANGED <<disk, edit, proc, said, lost>>
  BY <1>1, OpenIs
<1>3. ASSUME w = "timer"
      PROVE  Carries(p, id)' /\ Ready(p, id)' /\ InFlight(p, id) <= InFlight(p, id)'
  <2>1. /\ fire'[p][w][id].at \in {"open", "done"}
        /\ fire'[p][w][id].stamp = fire[p][w][id].stamp
        /\ fire'[p][w][id].at = "open" => fire'[p][w][id].end = fire[p][w][id].end
        /\ fire'[p][w][id].at = "done" => fire'[p][w][id].end = "unopened"
    BY <1>1, <1>3, OpenIs
  <2>2. Carries(p, id) /\ Ready(p, id)
    BY DEF ScheduleInv
  <2>3. Carries(p, id)'
    BY <1>2, <1>3, <2>1, <2>2 DEF Carries
  <2>4. Ready(p, id)'
    BY <1>2, <1>3, <2>1, <2>2 DEF Ready
  <2>5. fire[p][w][id].stamp = 0
    BY <1>2, <1>3, <2>2 DEF Carries
  <2>. QED
    BY <1>2, <1>3, <2>1, <2>3, <2>4, <2>5 DEF InFlight
<1>4. now <= now'
  BY <1>1, <1>2
<1>. QED
  BY <1>2, <1>3, <1>4, TurnKeeps

LEMMA RereadKeeps ==
  ASSUME ScheduleInv, TypeOK', Claimed', NEW p \in Procs, NEW w \in Who, NEW id \in Ids,
         Reread(p, w, id) \/ RereadFails(p, w, id)
  PROVE  ScheduleInv'
<1>1. TypeOK /\ now \in Nat \ {0} /\ Carries(p, id) /\ Ready(p, id) /\ now' \in Nat
  BY DEF ScheduleInv, TypeOK, Times
<1>2. /\ Turned(p, w, id) /\ fire[p][w][id].at = "open" /\ now <= now'
      /\ UNCHANGED <<disk, edit, proc, said, lost>>
  BY <1>1, RereadIs
<1>3. CASE /\ disk[id].file /\ fire'[p][w][id].at = "read" /\ fire'[p][w][id].entry = disk[id]
           /\ fire'[p][w][id].stamp = now /\ fire'[p][w][id].end = fire[p][w][id].end
  <2>1. ASSUME w = "timer"
        PROVE  Carries(p, id)' /\ Ready(p, id)' /\ InFlight(p, id) <= InFlight(p, id)'
    <3>1. Carries(p, id)'
      BY <1>1, <1>2, <1>3, <2>1, Stamps DEF Carries, Times
    <3>2. Ready(p, id)'
      BY <1>1, <1>2, <1>3, <2>1, SaidFields DEF Ready
    <3>3. InFlight(p, id) = 0 /\ InFlight(p, id)' = 0
      BY <1>2, <1>3, <2>1 DEF InFlight
    <3>. QED
      BY <3>1, <3>2, <3>3
  <2>. QED
    BY <1>2, <1>3, <2>1, TurnKeeps
<1>4. CASE /\ fire'[p][w][id].at \in {"idle", "done"}
           /\ w = "timer" => /\ fire'[p][w][id].at = "done" /\ fire'[p][w][id].end = "skipped"
                             /\ fire'[p][w][id].stamp = fire[p][w][id].stamp
  <2>1. ASSUME w = "timer"
        PROVE  Carries(p, id)' /\ Ready(p, id)' /\ InFlight(p, id) <= InFlight(p, id)'
    <3>1. fire[p][w][id].stamp = 0
      BY <1>1, <1>2, <2>1 DEF Carries
    <3>2. Carries(p, id)'
      BY <1>1, <1>2, <1>4, <2>1, <3>1, Stamps DEF Carries, Times
    <3>3. Ready(p, id)'
      BY <1>4, <2>1 DEF Ready
    <3>4. InFlight(p, id) = 0 /\ InFlight(p, id)' = 0
      BY <1>2, <1>4, <2>1, <3>1 DEF InFlight
    <3>. QED
      BY <3>2, <3>3, <3>4
  <2>. QED
    BY <1>2, <1>4, <2>1, TurnKeeps
<1>. QED
  BY <1>1, <1>3, <1>4, RereadIs

LEMMA PanicsKeeps ==
  ASSUME ScheduleInv, TypeOK', Claimed', NEW p \in Procs, NEW id \in Ids, Panics(p, id)
  PROVE  ScheduleInv'
<1>1. TypeOK /\ now \in Nat /\ Carries(p, id) /\ "timer" \in Who
  BY DEF ScheduleInv, Who
<1>2. /\ Turned(p, "timer", id) /\ now' = now /\ UNCHANGED <<disk, edit, proc, said, lost>>
      /\ fire'[p]["timer"][id].at = "done" /\ fire'[p]["timer"][id].end = "panicked"
      /\ fire'[p]["timer"][id].stamp =
           IF fire[p]["timer"][id].at \in {"spent", "done"} THEN fire[p]["timer"][id].stamp ELSE 0
  BY <1>1, PanicsIs
<1>3. Carries(p, id)'
  BY <1>1, <1>2 DEF Carries
<1>4. Ready(p, id)'
  BY <1>2 DEF Ready
<1>5. InFlight(p, id)' = InFlight(p, id) /\ InFlight(p, id) \in Nat /\ now <= now'
  BY <1>1, <1>2, Stamps DEF InFlight, Times
<1>6. InFlight(p, id) <= InFlight(p, id)'
  BY <1>5
<1>. QED
  BY <1>1, <1>2, <1>3, <1>4, <1>5, <1>6, TurnKeeps

LEMMA RunNowKeeps ==
  ASSUME ScheduleInv, TypeOK', Claimed', NEW p \in Procs, NEW id \in Ids, RunNow(p, id)
  PROVE  ScheduleInv'
<1>1. TypeOK /\ now \in Nat /\ "person" \in Who
  BY DEF ScheduleInv, Who
<1>2. /\ Turned(p, "person", id) /\ now' = now /\ UNCHANGED <<disk, edit, proc, said, lost>>
      /\ fire'[p]["person"][id].at = "opening"
  BY <1>1, RunNowIs
<1>3. now <= now'
  BY <1>1, <1>2
<1>. QED
  BY <1>1, <1>2, <1>3, TurnKeeps

\* Only the runner has stamps the disk has not.
LEMMA OnlyTheRunner ==
  ASSUME TypeOK, Claimed, NEW p \in Procs, proc[p].at = "running", NEW q \in Procs, q # p, NEW id \in Ids
  PROVE  proc[q].spent[id] = 0 /\ InFlight(q, id) = 0 /\ fire[q]["timer"][id].at = "idle"
<1>1. proc[q].at # "running"
  BY DEF Claimed
<1>. QED
  BY <1>1 DEF Claimed, InFlight

\* An entry the runner finds due, with no fire in flight, is due after everything
\* that was said of it.
LEMMA DueIsReady ==
  ASSUME ScheduleInv, NEW p \in Procs, proc[p].at = "running", NEW id \in Ids,
         DueFor(p, id), ~Busy(p, id), id \notin lost, NEW s \in said[id]
  PROVE  SpecNext(s.spec, s.at) <= now
<1>1. TypeOK /\ Claimed /\ now \in Nat /\ now <= MaxTime /\ MaxTime \in Nat /\ Known(id) /\ SameSpec(id)
  BY ScheduleAssumption DEF ScheduleInv, History, TypeOK, Times
<1>2. /\ proc[p].spent[id] \in Times /\ disk[id] \in Entry /\ disk[id].last \in Times /\ disk[id].spec \in Specs
  BY <1>1, Stamps
<1>. DEFINE e == Remembered(p, id)
<1>3. /\ e.file = disk[id].file /\ e.spec = disk[id].spec /\ e.last \in Times
      /\ disk[id].file => disk[id].last <= e.last /\ proc[p].spent[id] <= e.last
  <2>1. CASE Retained(p, id) = 0
    BY <1>2, <2>1 DEF Remembered, Retained, Times
  <2>2. CASE Retained(p, id) # 0
    <3>1. Retained(p, id) = proc[p].spent[id] /\ disk[id].file /\ disk[id].last < proc[p].spent[id]
      BY <2>2 DEF Retained
    <3>2. e = [disk[id] EXCEPT !.last = proc[p].spent[id], !.enabled = @ /\ disk[id].spec # "once"]
      BY <2>2, <3>1 DEF Remembered
    <3>3. e.file = disk[id].file /\ e.spec = disk[id].spec /\ e.last = proc[p].spent[id]
      BY <1>2, <3>2 DEF Entry
    <3>. QED
      BY <1>2, <3>1, <3>3 DEF Times
  <2>. QED
    BY <2>1, <2>2
<1>4. NextFire(e) <= now
  BY DEF DueFor
<1>. HIDE DEF e
<1>5. disk[id].file /\ SpecNext(disk[id].spec, Anchor(e)) <= now
  <2>1. Never > now
    BY <1>1, ScheduleAssumption DEF Never
  <2>. QED
    BY <1>1, <1>3, <1>4, <2>1, ScheduleAssumption DEF NextFire, Never
<1>6. s.at \in Times /\ s.at \in Nat \ {0} /\ s.spec = disk[id].spec
  BY <1>1, <1>5, SaidFields DEF SameSpec
<1>7. s.at <= e.last
  <2>1. s.at <= disk[id].last \/ \E q \in Procs : s.at <= proc[q].spent[id] \/ s.at <= InFlight(q, id)
    BY <1>1, <1>5 DEF Known, Vouched
  <2>2. InFlight(p, id) = 0
    BY DEF Busy, InFlight
  <2>3. \A q \in Procs : q # p => proc[q].spent[id] = 0 /\ InFlight(q, id) = 0
    BY <1>1, OnlyTheRunner
  <2>4. s.at <= disk[id].last \/ s.at <= proc[p].spent[id]
    BY <1>6, <2>1, <2>2, <2>3
  <2>. QED
    BY <1>2, <1>3, <1>5, <1>6, <2>4 DEF Times
<1>8. Anchor(e) = e.last
  BY <1>3, <1>6, <1>7 DEF Anchor, Times
<1>9. SpecNext(s.spec, s.at) <= SpecNext(s.spec, e.last) /\ SpecNext(s.spec, s.at) \in Nat /\ SpecNext(s.spec, e.last) \in Nat
  BY <1>2, <1>3, <1>6, <1>7, SpecNextGrows
<1>. QED
  BY <1>1, <1>5, <1>6, <1>8, <1>9

\* The stamps after a step are moments.
LEMMA StampsThen ==
  ASSUME TypeOK', NEW p \in Procs, NEW id \in Ids
  PROVE  /\ proc'[p].spent[id] \in Nat /\ InFlight(p, id)' \in Nat
         /\ disk'[id] \in Entry /\ disk'[id].last \in Nat /\ now' \in Nat
<1>1. proc'[p] \in Proc /\ disk'[id] \in Entry /\ now' \in Nat
  BY DEF TypeOK, Times
<1>2. fire'[p]["timer"][id] \in Fire
  BY DEF TypeOK, Who
<1>3. fire'[p]["timer"][id].stamp \in Nat
  BY <1>2 DEF Fire, Times
<1>4. InFlight(p, id)' \in Nat
  BY <1>3 DEF InFlight
<1>. QED
  BY <1>1, <1>4 DEF Proc, Entry, Times

\* Nothing is said: what is left to show.
LEMMA SilentKeeps ==
  ASSUME ScheduleInv, TypeOK', Claimed', now <= now', said' = said, lost \subseteq lost', Edited',
         \A p \in Procs, id \in Ids : Carries(p, id)' /\ Ready(p, id)',
         \A id \in Ids : History(id)'
  PROVE  ScheduleInv'
<1>1. now' \in Nat \ {0}
  BY DEF ScheduleInv, TypeOK, Times
<1>2. SaidOnce'
  BY SaidOnceKept DEF ScheduleInv
<1>. QED
  BY <1>1, <1>2 DEF ScheduleInv

\* The loop launches what it finds due, and forgets the stamps the disk has; those
\* it forgets because it could not read the entry are lost.
LEMMA LaunchKeeps ==
  ASSUME ScheduleInv, TypeOK', Claimed', NEW p \in Procs, Launch(p) \/ Misread(p)
  PROVE  ScheduleInv'
<1>0. TypeOK
  BY DEF ScheduleInv
<1>. PICK unread \in SUBSET Ids : Pass(p, unread)
  BY <1>0, PassHas
<1>1. TypeOK /\ now \in Nat /\ "timer" \in Who /\ proc[p].at = "running"
  BY DEF ScheduleInv, Who, Pass
<1>2. /\ UNCHANGED <<now, disk, edit, said>> /\ now <= now' /\ now' \in Nat
      /\ lost \subseteq lost'
      /\ \A id \in unread : \/ ~(proc[p].spent[id] > disk[id].last)
                           \/ ~(proc[p].spent[id] > InFlight(p, id))
                           \/ id \in lost'
  <2>1. /\ UNCHANGED <<now, disk, edit, said>>
        /\ lost' = lost \cup {id \in unread : /\ proc[p].spent[id] > disk[id].last
                                              /\ proc[p].spent[id] > InFlight(p, id)}
    BY DEF Pass, store
  <2>2. /\ lost \subseteq lost'
        /\ \A id \in unread : \/ ~(proc[p].spent[id] > disk[id].last)
                             \/ ~(proc[p].spent[id] > InFlight(p, id))
                             \/ id \in lost'
    BY <2>1, Zenon
  <2>. QED
    BY <1>1, <2>1, <2>2
<1>3. /\ \A q \in Procs : q # p => proc'[q] = proc[q] /\ fire'[q] = fire[q]
      /\ \A id \in Ids :
           /\ proc'[p].spent[id] = IF id \in unread THEN 0 ELSE Retained(p, id)
           /\ fire'[p]["person"][id] = fire[p]["person"][id]
           /\ \/ fire'[p]["timer"][id] = fire[p]["timer"][id]
              \/ /\ DueFor(p, id) /\ ~Busy(p, id)
                 /\ fire'[p]["timer"][id].at = "opening"
                 /\ fire'[p]["timer"][id].stamp = 0 /\ fire'[p]["timer"][id].end = "none"
  BY <1>1, PassIs
<1>4. ASSUME NEW id \in Ids
      PROVE  /\ proc'[p].spent[id] = proc[p].spent[id] \/ proc'[p].spent[id] = 0
             /\ disk[id].file /\ id \notin lost' =>
                  \/ proc[p].spent[id] <= proc'[p].spent[id] \/ proc[p].spent[id] <= disk[id].last
                  \/ proc[p].spent[id] <= InFlight(p, id)
  <2>1. proc[p].spent[id] \in Nat /\ disk[id].last \in Nat /\ InFlight(p, id) \in Nat
    BY <1>1, Stamps DEF Times
  <2>2. CASE id \in unread
    BY <1>2, <1>3, <2>1, <2>2
  <2>3. CASE id \notin unread
    BY <1>3, <2>1, <2>3 DEF Retained
  <2>. QED
    BY <2>2, <2>3
<1>5. ASSUME NEW q \in Procs, NEW id \in Ids
      PROVE  Carries(q, id)' /\ Ready(q, id)'
  <2>1. CASE fire'[q]["timer"][id] = fire[q]["timer"][id]
    <3>1. proc'[q].spent[id] = proc[q].spent[id] \/ proc'[q].spent[id] = 0
      BY <1>3, <1>4
    <3>. QED
      BY <1>2, <2>1, <3>1, CarriesKept, ReadyKept
  <2>2. CASE fire'[q]["timer"][id] # fire[q]["timer"][id]
    <3>1. /\ q = p /\ DueFor(p, id) /\ ~Busy(p, id) /\ fire'[p]["timer"][id].at = "opening"
          /\ fire'[p]["timer"][id].stamp = 0 /\ fire'[p]["timer"][id].end = "none"
      BY <1>3, <2>2
    <3>2. Carries(p, id) /\ proc[p].spent[id] \in Nat
      BY <1>1, Stamps DEF ScheduleInv, Times
    <3>3. proc'[p].spent[id] <= now'
      BY <1>1, <1>2, <1>4, <3>2 DEF Carries
    <3>4. Carries(p, id)'
      BY <3>1, <3>3 DEF Carries
    <3>5. Ready(p, id)'
      <4>1. id \notin lost => \A s \in said[id] : SpecNext(s.spec, s.at) <= now
        BY <1>1, <3>1, DueIsReady
      <4>. QED
        BY <1>2, <3>1, <4>1 DEF Ready
    <3>. QED
      BY <3>1, <3>4, <3>5
  <2>. QED
    BY <2>1, <2>2
<1>6. ASSUME NEW id \in Ids
      PROVE  History(id)'
  <2>1. ASSUME NEW at \in Nat \ {0}, disk[id].file, id \notin lost', Vouched(id, at)
        PROVE  Vouched(id, at)'
    <3>1. ASSUME NEW q \in Procs
          PROVE  /\ proc'[q].spent[id] \in Nat /\ InFlight(q, id)' \in Nat
                 /\ \/ proc[q].spent[id] <= proc'[q].spent[id] \/ proc[q].spent[id] <= disk'[id].last
                    \/ proc[q].spent[id] <= InFlight(q, id)'
                 /\ InFlight(q, id) <= InFlight(q, id)'
      <4>1. proc'[q].spent[id] \in Nat /\ InFlight(q, id)' \in Nat
        BY StampsThen
      <4>2. proc[q].spent[id] \in Nat /\ InFlight(q, id) \in Nat
        BY <1>1, Stamps DEF Times
      <4>3. \/ proc[q].spent[id] <= proc'[q].spent[id] \/ proc[q].spent[id] <= disk'[id].last
            \/ proc[q].spent[id] <= InFlight(q, id)
        BY <1>2, <1>3, <1>4, <2>1, <4>2
      <4>4. CASE fire'[q]["timer"][id] = fire[q]["timer"][id]
        <5>1. InFlight(q, id)' = InFlight(q, id)
          BY <4>4 DEF InFlight
        <5>. QED
          BY <4>1, <4>2, <4>3, <5>1
      <4>5. CASE fire'[q]["timer"][id] # fire[q]["timer"][id]
        <5>1. q = p /\ ~Busy(p, id)
          BY <1>3, <4>5
        <5>2. InFlight(q, id) = 0
          BY <5>1 DEF Busy, InFlight
        <5>. QED
          BY <4>1, <4>2, <4>3, <5>2
      <4>. QED
        BY <4>4, <4>5
    <3>2. disk[id].last \in Nat /\ disk'[id].last \in Nat /\ disk[id].last <= disk'[id].last
      BY <1>1, <1>2, Stamps DEF Times
    <3>. QED
      BY <1>1, <2>1, <3>1, <3>2, VouchedKept
  <2>2. \A q \in Procs, v \in Who :
          fire'[q][v][id].at \in {"read", "spent"} => fire'[q][v][id] = fire[q][v][id]
    BY <1>3 DEF Who
  <2>. QED
    BY <1>2, <2>1, <2>2, HistoryKept
<1>7. Edited'
  BY <1>2 DEF ScheduleInv, Edited
<1>. QED
  BY <1>2, <1>5, <1>6, <1>7, SilentKeeps

\* A fire lands: the loop remembers its stamp, or the stamp is written, or lost.
LEMMA LandedKeeps ==
  ASSUME ScheduleInv, TypeOK', Claimed', NEW p \in Procs, NEW id \in Ids, Landed(p, id)
  PROVE  ScheduleInv'
<1>1. TypeOK /\ now \in Nat /\ "timer" \in Who /\ Carries(p, id)
  BY DEF ScheduleInv, Who
<1>. DEFINE f == fire[p]["timer"][id]
<1>2. /\ Turned(p, "timer", id) /\ f.at = "done" /\ fire'[p]["timer"][id] = Idle
      /\ UNCHANGED <<now, disk, edit, said>>
      /\ \A q \in Procs : q # p => proc'[q] = proc[q]
      /\ \A j \in Ids : proc'[p].spent[j] = IF j = id /\ ~proc[p].cancel /\ f.end = "spent"
                                            THEN f.stamp ELSE proc[p].spent[j]
      /\ lost' = IF f.stamp > disk[id].last /\ (proc[p].cancel \/ f.end = "panicked")
                 THEN lost \cup {id} ELSE lost
  BY <1>1, LandedIs
<1>3. now <= now' /\ now' \in Nat
  BY <1>1, <1>2
<1>4. lost \subseteq lost'
  BY <1>2
<1>5. \A q \in Procs, v \in Who, j \in Ids : q # p \/ v # "timer" \/ j # id => fire'[q][v][j] = fire[q][v][j]
  BY <1>2 DEF Turned
<1>6. f.stamp \in Nat /\ disk[id].last \in Nat /\ proc[p].spent[id] \in Nat /\ InFlight(p, id) = f.stamp
  BY <1>1, <1>2, FireFields, Stamps DEF Times, InFlight
<1>7. \A q \in Procs, j \in Ids : q # p \/ j # id => proc'[q].spent[j] = proc[q].spent[j]
  BY <1>2
<1>8. /\ proc'[p].spent[id] \in {proc[p].spent[id], f.stamp} /\ proc[p].spent[id] <= proc'[p].spent[id]
      /\ proc'[p].spent[id] <= now
      /\ f.stamp <= proc'[p].spent[id] \/ f.stamp <= disk[id].last \/ id \in lost'
  <2>1. CASE ~proc[p].cancel /\ f.end = "spent"
    BY <1>1, <1>2, <1>6, <2>1 DEF Carries
  <2>2. CASE proc[p].cancel \/ f.end = "panicked"
    BY <1>1, <1>2, <1>6, <2>2 DEF Carries
  <2>3. CASE f.end \notin {"spent", "panicked"}
    BY <1>1, <1>2, <1>6, <2>3 DEF Carries
  <2>. QED
    BY <2>1, <2>2, <2>3
<1>. HIDE DEF f
<1>9. ASSUME NEW q \in Procs, NEW j \in Ids
      PROVE  Carries(q, j)' /\ Ready(q, j)'
  <2>1. CASE q = p /\ j = id
    <3>1. Idle.at = "idle" /\ Idle.end = "none"
      BY Beginnings
    <3>2. Carries(p, id)'
      BY <1>2, <1>8, <3>1 DEF Carries
    <3>3. Ready(p, id)'
      BY <1>2, <3>1 DEF Ready
    <3>. QED
      BY <2>1, <3>2, <3>3
  <2>2. CASE ~(q = p /\ j = id)
    BY <1>1, <1>2, <1>3, <1>4, <1>5, <1>7, <2>2, CarriesKept, ReadyKept
  <2>. QED
    BY <2>1, <2>2
<1>10. ASSUME NEW j \in Ids
       PROVE  History(j)'
  <2>1. ASSUME NEW at \in Nat \ {0}, j \notin lost', Vouched(j, at)
        PROVE  Vouched(j, at)'
    <3>1. ASSUME NEW q \in Procs
          PROVE  /\ proc'[q].spent[j] \in Nat /\ InFlight(q, j)' \in Nat
                 /\ proc[q].spent[j] <= proc'[q].spent[j]
                 /\ \/ InFlight(q, j) <= InFlight(q, j)' \/ InFlight(q, j) <= disk'[j].last
                    \/ InFlight(q, j) <= proc'[q].spent[j]
      <4>1. proc'[q].spent[j] \in Nat /\ InFlight(q, j)' \in Nat
        BY StampsThen
      <4>2. proc[q].spent[j] \in Nat /\ InFlight(q, j) \in Nat
        BY <1>1, Stamps DEF Times
      <4>3. CASE q = p /\ j = id
        BY <1>2, <1>6, <1>8, <2>1, <4>1, <4>3
      <4>4. CASE ~(q = p /\ j = id)
        <5>1. InFlight(q, j)' = InFlight(q, j)
          BY <1>1, <1>5, <4>4 DEF InFlight
        <5>2. proc'[q].spent[j] = proc[q].spent[j]
          BY <1>7, <4>4
        <5>. QED
          BY <4>1, <4>2, <5>1, <5>2
      <4>. QED
        BY <4>3, <4>4
    <3>2. disk[j].last \in Nat /\ disk'[j].last \in Nat /\ disk[j].last <= disk'[j].last
      BY <1>1, <1>2, Stamps DEF Times
    <3>. QED
      BY <1>1, <2>1, <3>1, <3>2, VouchedKept
  <2>2. \A q \in Procs, v \in Who :
          fire'[q][v][j].at \in {"read", "spent"} => fire'[q][v][j] = fire[q][v][j]
    <3>1. Idle.at = "idle"
      BY Beginnings
    <3>. QED
      BY <1>2, <1>5, <3>1
  <2>. QED
    BY <1>2, <1>3, <1>4, <2>1, <2>2, HistoryKept
<1>11. Edited'
  BY <1>2 DEF ScheduleInv, Edited
<1>. QED
  BY <1>2, <1>3, <1>4, <1>9, <1>10, <1>11, SilentKeeps

\* A process leaves or crashes: what only it had is lost.
LEMMA GoneKeeps ==
  ASSUME ScheduleInv, TypeOK', Claimed', NEW p \in Procs, UNCHANGED <<now, disk, said>>,
         lost' = lost \cup Unwritten(p), edit' = edit \/ edit' = NoEdit,
         \A q \in Procs : q # p => proc'[q] = proc[q] /\ fire'[q] = fire[q],
         \A id \in Ids : proc'[p].spent[id] = 0,
         \A w \in Who, id \in Ids : fire'[p][w][id] = Idle \/ fire'[p][w][id] = fire[p][w][id]
  PROVE  ScheduleInv'
<1>1. TypeOK /\ now \in Nat /\ now' \in Nat /\ now <= now' /\ "timer" \in Who /\ lost \subseteq lost'
  BY DEF ScheduleInv, Who
<1>2. Idle.at = "idle" /\ Idle.end = "none" /\ Idle.stamp = 0
  BY Beginnings
<1>3. ASSUME NEW q \in Procs, NEW j \in Ids
      PROVE  Carries(q, j)' /\ Ready(q, j)'
  <2>1. CASE fire'[q]["timer"][j] = fire[q]["timer"][j]
    BY <1>1, <2>1, CarriesKept, ReadyKept
  <2>2. CASE q = p /\ fire'[q]["timer"][j] = Idle
    <3>1. Carries(q, j)'
      BY <1>1, <1>2, <2>2 DEF Carries
    <3>2. Ready(q, j)'
      BY <1>2, <2>2 DEF Ready
    <3>. QED
      BY <3>1, <3>2
  <2>. QED
    BY <1>1, <2>1, <2>2
<1>4. ASSUME NEW j \in Ids
      PROVE  History(j)'
  <2>1. ASSUME NEW at \in Nat \ {0}, j \notin lost', Vouched(j, at)
        PROVE  Vouched(j, at)'
    <3>1. ASSUME NEW q \in Procs
          PROVE  /\ proc'[q].spent[j] \in Nat /\ InFlight(q, j)' \in Nat
                 /\ proc[q].spent[j] <= proc'[q].spent[j] \/ proc[q].spent[j] <= disk'[j].last
                 /\ InFlight(q, j) <= InFlight(q, j)' \/ InFlight(q, j) <= disk'[j].last
      <4>1. proc'[q].spent[j] \in Nat /\ InFlight(q, j)' \in Nat
        BY StampsThen
      <4>2. proc[q].spent[j] \in Nat /\ InFlight(q, j) \in Nat /\ disk[j].last \in Nat
        BY <1>1, Stamps DEF Times
      <4>3. CASE q = p
        <5>1. j \notin Unwritten(p)
          BY <2>1
        <5>2. ~(proc[p].spent[j] > disk[j].last) /\ ~(InFlight(p, j) > disk[j].last)
          BY <5>1 DEF Unwritten
        <5>. QED
          BY <4>1, <4>2, <4>3, <5>2
      <4>4. CASE q # p
        <5>1. InFlight(q, j)' = InFlight(q, j) /\ proc'[q].spent[j] = proc[q].spent[j]
          BY <4>4 DEF InFlight
        <5>. QED
          BY <4>1, <4>2, <5>1
      <4>. QED
        BY <4>3, <4>4
    <3>2. disk[j].last \in Nat /\ disk'[j].last \in Nat /\ disk[j].last <= disk'[j].last
      BY <1>1, Stamps DEF Times
    <3>. QED
      BY <1>1, <2>1, <3>1, <3>2, VouchedKept
  <2>2. \A q \in Procs, v \in Who :
          fire'[q][v][j].at \in {"read", "spent"} => fire'[q][v][j] = fire[q][v][j]
    BY <1>2
  <2>. QED
    BY <1>1, <2>1, <2>2, HistoryKept
<1>5. Edited'
  BY DEF ScheduleInv, Edited
<1>. QED
  BY <1>1, <1>3, <1>4, <1>5, SilentKeeps

LEMMA LeaveKeeps ==
  ASSUME ScheduleInv, TypeOK', Claimed', NEW p \in Procs, Leave(p)
  PROVE  ScheduleInv'
<1>1. UNCHANGED <<now, disk, fire, edit, said>> /\ lost' = lost \cup Unwritten(p)
  BY DEF Leave, store
<1>2. proc' = [proc EXCEPT ![p] = [Fresh EXCEPT !.at = "left", !.cancel = TRUE]]
  BY DEF Leave
<1>3. Fresh \in Proc /\ \A id \in Ids : Fresh.spent[id] = 0
  BY Beginnings
<1>4. [Fresh EXCEPT !.at = "left", !.cancel = TRUE].spent = Fresh.spent
  BY <1>3 DEF Proc
<1>5. proc \in [Procs -> Proc]
  BY DEF ScheduleInv, TypeOK
<1>6. /\ \A q \in Procs : q # p => proc'[q] = proc[q]
      /\ proc'[p].spent = Fresh.spent
  BY <1>2, <1>4, <1>5
<1>. QED
  BY <1>1, <1>3, <1>6, GoneKeeps

LEMMA CrashKeeps ==
  ASSUME ScheduleInv, TypeOK', Claimed', NEW p \in Procs, Crash(p)
  PROVE  ScheduleInv'
<1>1. UNCHANGED <<now, disk, said>> /\ lost' = lost \cup Unwritten(p) /\ (edit' = edit \/ edit' = NoEdit)
  BY DEF Crash, Ends, store
<1>2. proc' = [proc EXCEPT ![p] = [Fresh EXCEPT !.cancel = TRUE]]
  BY DEF Crash, Ends
<1>3. Fresh \in Proc /\ \A id \in Ids : Fresh.spent[id] = 0
  BY Beginnings
<1>4. [Fresh EXCEPT !.cancel = TRUE].spent = Fresh.spent
  BY <1>3 DEF Proc
<1>5. proc \in [Procs -> Proc] /\ fire \in [Procs -> [Who -> [Ids -> Fire]]]
  BY DEF ScheduleInv, TypeOK
<1>6. /\ \A q \in Procs : q # p => proc'[q] = proc[q]
      /\ proc'[p].spent = Fresh.spent
  BY <1>2, <1>4, <1>5
<1>7. fire' = [fire EXCEPT ![p] = [w \in Who |-> [id \in Ids |-> Idle]]]
  BY DEF Crash, Ends
<1>8. /\ \A q \in Procs : q # p => fire'[q] = fire[q]
      /\ \A w \in Who, id \in Ids : fire'[p][w][id] = Idle
  BY <1>5, <1>7
<1>. QED
  BY <1>1, <1>3, <1>6, <1>8, GoneKeeps

\* An entry is written over: by a copy of the same spec, and with a stamp that is no
\* earlier than the disk's, or that a process has, or else it counts as lost.
LEMMA WriteKeeps ==
  ASSUME ScheduleInv, TypeOK', Claimed', NEW id \in Ids, UNCHANGED <<now, proc, said>>,
         \A j \in Ids : j # id => disk'[j] = disk[j],
         disk'[id].file, id \notin lost /\ disk[id].file => disk'[id].spec = disk[id].spec,
         lost' = IF Overwrites(id, disk'[id].last) THEN lost \cup {id} ELSE lost,
         edit' = edit \/ edit' = NoEdit,
         \A q \in Procs, j \in Ids : Carries(q, j)' /\ Ready(q, j)' /\ InFlight(q, j) <= InFlight(q, j)',
         \A q \in Procs, v \in Who, j \in Ids :
           fire'[q][v][j].at \in {"read", "spent"} =>
             fire[q][v][j].at \in {"read", "spent"} /\ fire'[q][v][j].entry = fire[q][v][j].entry
  PROVE  ScheduleInv'
<1>1. TypeOK /\ now \in Nat /\ now' \in Nat /\ now <= now' /\ lost \subseteq lost' /\ Unborn.file = FALSE
  BY Entries DEF ScheduleInv
<1>2. ASSUME NEW j \in Ids
      PROVE  History(j)'
  <2>1. /\ disk[j].last \in Nat /\ disk'[j].last \in Nat
        /\ \A q \in Procs : /\ proc[q].spent[j] \in Nat /\ InFlight(q, j) \in Nat /\ InFlight(q, j)' \in Nat
                            /\ proc'[q].spent[j] = proc[q].spent[j]
    BY <1>1, Stamps, StampsThen DEF Times, TypeOK, Entry
  <2>2. CASE j # id
    <3>1. disk'[j] = disk[j] /\ (j \in lost' => j \in lost) /\ disk[j].last <= disk'[j].last
      BY <2>1, <2>2
    <3>2. \A q \in Procs : proc[q].spent[j] <= proc'[q].spent[j] /\ proc'[q].spent[j] \in Nat
      BY <2>1
    <3>3. \A at \in Nat \ {0} : Vouched(j, at) => Vouched(j, at)'
      BY <1>1, <2>1, <3>1, <3>2, VouchedKept
    <3>. QED
      BY <1>1, <3>1, <3>3, HistoryKept
  <2>3. CASE j = id
    <3>1. ASSUME id \notin lost'
          PROVE  /\ disk[id].file
                 /\ \/ disk[id].last <= disk'[id].last
                    \/ \E q \in Procs : disk[id].last <= proc'[q].spent[id] \/ disk[id].last <= InFlight(q, id)'
      <4>1. ~Overwrites(id, disk'[id].last)
        BY <3>1
      <4>2. disk[id].file
        BY <4>1 DEF Overwrites
      <4>3. \/ ~(disk'[id].last < disk[id].last)
            \/ \E q \in Procs : ~(proc[q].spent[id] < disk[id].last) \/ ~(InFlight(q, id) < disk[id].last)
        BY <4>1 DEF Overwrites
      <4>4. CASE ~(disk'[id].last < disk[id].last)
        BY <2>1, <2>3, <4>2, <4>4
      <4>5. ASSUME NEW q \in Procs, ~(proc[q].spent[id] < disk[id].last) \/ ~(InFlight(q, id) < disk[id].last)
            PROVE  disk[id].last <= proc'[q].spent[id] \/ disk[id].last <= InFlight(q, id)'
        <5>1. InFlight(q, id) <= InFlight(q, id)'
          OBVIOUS
        <5>. QED
          BY <2>1, <2>3, <4>5, <5>1
      <4>. QED
        BY <4>2, <4>3, <4>4, <4>5
    <3>2. ASSUME NEW at \in Nat \ {0}, id \notin lost', Vouched(id, at)
          PROVE  Vouched(id, at)'
      <4>1. CASE at <= disk[id].last
        <5>1. CASE disk[id].last <= disk'[id].last
          BY <2>1, <2>3, <4>1, <5>1 DEF Vouched
        <5>2. ASSUME NEW q \in Procs, disk[id].last <= proc'[q].spent[id] \/ disk[id].last <= InFlight(q, id)'
              PROVE  Vouched(id, at)'
          <6>1. at <= proc'[q].spent[id] \/ at <= InFlight(q, id)'
            BY <2>1, <2>3, <4>1, <5>2
          <6>. QED
            BY <6>1 DEF Vouched
        <5>. QED
          BY <3>1, <3>2, <5>1, <5>2
      <4>2. ASSUME NEW q \in Procs, at <= proc[q].spent[id] \/ at <= InFlight(q, id)
            PROVE  Vouched(id, at)'
        <5>1. InFlight(q, id) <= InFlight(q, id)'
          OBVIOUS
        <5>2. at <= proc'[q].spent[id] \/ at <= InFlight(q, id)'
          BY <2>1, <2>3, <4>2, <5>1
        <5>. QED
          BY <5>2 DEF Vouched
      <4>. QED
        BY <3>2, <4>1, <4>2 DEF Vouched
    <3>3. disk'[id] # Unborn
      BY <1>1
    <3>. QED
      BY <1>1, <2>3, <3>1, <3>2, <3>3, HistoryKept
  <2>. QED
    BY <2>2, <2>3
<1>3. Edited'
  BY DEF ScheduleInv, Edited
<1>. QED
  BY <1>1, <1>2, <1>3, SilentKeeps

\* A fire stamps its entry, or the disk refuses and only the fire has the stamp.
LEMMA StampKeeps ==
  ASSUME ScheduleInv, TypeOK', Claimed', NEW p \in Procs, NEW w \in Who, NEW id \in Ids, Stamp(p, w, id)
  PROVE  ScheduleInv'
<1>1. TypeOK /\ now \in Nat /\ "timer" \in Who
  BY DEF ScheduleInv, Who
<1>. DEFINE f == fire[p][w][id]
<1>2. /\ Turned(p, w, id) /\ f.at = "read" /\ fire'[p][w][id].at = "spent"
      /\ fire'[p][w][id].stamp = f.stamp /\ fire'[p][w][id].entry = f.entry
      /\ fire'[p][w][id].end = f.end
      /\ UNCHANGED <<now, proc, edit, said>>
      /\ \/ /\ disk' = [disk EXCEPT ![id] = FiredAt(f.entry, f.stamp)]
            /\ lost' = IF Overwrites(id, f.stamp) THEN lost \cup {id} ELSE lost
         \/ UNCHANGED <<disk, lost>>
  BY <1>1, StampIs
<1>3. /\ \A q \in Procs, v \in Who, j \in Ids : q # p \/ v # w \/ j # id => fire'[q][v][j] = fire[q][v][j]
      /\ now <= now' /\ now' \in Nat /\ lost \subseteq lost'
  BY <1>1, <1>2 DEF Turned
<1>4. f.stamp \in Times /\ f.entry \in Entry /\ f.entry.file
  BY <1>1, <1>2, FireFields
<1>5. ASSUME NEW q \in Procs, NEW j \in Ids
      PROVE  Carries(q, j)' /\ Ready(q, j)' /\ InFlight(q, j) <= InFlight(q, j)'
  <2>1. InFlight(q, j) \in Nat /\ InFlight(q, j)' \in Nat
    BY <1>1, Stamps, StampsThen DEF Times
  <2>2. CASE q = p /\ w = "timer" /\ j = id
    <3>1. Carries(p, id) /\ Ready(p, id)
      BY DEF ScheduleInv
    <3>2. Carries(p, id)'
      BY <1>2, <2>2, <3>1 DEF Carries
    <3>3. Ready(p, id)'
      BY <1>2, <1>3, <2>2, <3>1 DEF Ready
    <3>4. InFlight(p, id) = 0
      BY <1>2, <2>2 DEF InFlight
    <3>. QED
      BY <2>1, <2>2, <3>2, <3>3, <3>4
  <2>3. CASE ~(q = p /\ w = "timer" /\ j = id)
    <3>1. fire'[q]["timer"][j] = fire[q]["timer"][j]
      BY <1>1, <1>3, <2>3
    <3>2. InFlight(q, j)' = InFlight(q, j)
      BY <3>1 DEF InFlight
    <3>3. InFlight(q, j) <= InFlight(q, j)'
      BY <2>1, <3>2
    <3>. QED
      BY <1>2, <1>3, <3>1, <3>3, CarriesKept, ReadyKept
  <2>. QED
    BY <2>2, <2>3
<1>6. \A q \in Procs, v \in Who, j \in Ids :
        fire'[q][v][j].at \in {"read", "spent"} =>
          fire[q][v][j].at \in {"read", "spent"} /\ fire'[q][v][j].entry = fire[q][v][j].entry
  BY <1>2, <1>3
<1>7. CASE /\ disk' = [disk EXCEPT ![id] = FiredAt(f.entry, f.stamp)]
           /\ lost' = IF Overwrites(id, f.stamp) THEN lost \cup {id} ELSE lost
  <2>1. disk'[id] = FiredAt(f.entry, f.stamp) /\ \A j \in Ids : j # id => disk'[j] = disk[j]
    BY <1>1, <1>7 DEF TypeOK
  <2>2. disk'[id].last = f.stamp /\ disk'[id].file /\ disk'[id].spec = f.entry.spec
    BY <1>4, <2>1, FiredIs
  <2>3. SameSpec(id)
    BY DEF ScheduleInv, History
  <2>4. id \notin lost /\ disk[id].file => disk'[id].spec = disk[id].spec
    BY <1>2, <2>2, <2>3 DEF SameSpec
  <2>. HIDE DEF f
  <2>5. lost' = IF Overwrites(id, disk'[id].last) THEN lost \cup {id} ELSE lost
    BY <1>7, <2>2
  <2>. QED
    BY <1>2, <1>5, <1>6, <2>1, <2>2, <2>4, <2>5, WriteKeeps
<1>8. CASE UNCHANGED <<disk, lost>>
  <2>1. ASSUME NEW j \in Ids
        PROVE  History(j)'
    <3>1. /\ disk[j].last \in Nat /\ disk'[j].last \in Nat
          /\ \A q \in Procs : proc[q].spent[j] \in Nat /\ proc'[q].spent[j] \in Nat /\ InFlight(q, j)' \in Nat
      BY <1>1, <1>2, <1>8, Stamps, StampsThen DEF Times, TypeOK, Entry
    <3>2. /\ disk[j].last <= disk'[j].last
          /\ \A q \in Procs : proc[q].spent[j] <= proc'[q].spent[j]
      BY <1>2, <1>8, <3>1
    <3>3. \A at \in Nat \ {0} : Vouched(j, at) => Vouched(j, at)'
      BY <1>1, <1>5, <3>1, <3>2, VouchedKept
    <3>. QED
      BY <1>2, <1>3, <1>6, <1>8, <3>3, HistoryKept
  <2>2. Edited'
    BY <1>2 DEF ScheduleInv, Edited
  <2>. QED
    BY <1>2, <1>3, <1>5, <2>1, <2>2, SilentKeeps
<1>. QED
  BY <1>2, <1>7, <1>8

\* An edit writes back the entry it read.
LEMMA EditWriteKeeps ==
  ASSUME ScheduleInv, TypeOK', Claimed', EditWrite
  PROVE  ScheduleInv'
<1>1. TypeOK /\ now \in Nat /\ edit.id \in Ids /\ edit.entry \in Entry /\ "timer" \in Who
  BY DEF ScheduleInv, TypeOK, Who
<1>. DEFINE id == edit.id
<1>2. /\ edit # NoEdit /\ edit' = NoEdit /\ UNCHANGED <<now, proc, fire, said>>
      /\ \/ /\ disk' = [disk EXCEPT ![id] = edit.entry]
            /\ lost' = IF Overwrites(id, edit.entry.last) THEN lost \cup {id} ELSE lost
         \/ UNCHANGED <<disk, lost>>
  BY <1>1, EditIs
<1>3. now <= now' /\ now' \in Nat /\ lost \subseteq lost'
  BY <1>1, <1>2
<1>4. \A q \in Procs, j \in Ids : Carries(q, j)' /\ Ready(q, j)'
  BY <1>2, <1>3, CarriesKept, ReadyKept
<1>5. \A q \in Procs, j \in Ids : InFlight(q, j) <= InFlight(q, j)'
  <2>1. \A q \in Procs, j \in Ids : InFlight(q, j)' = InFlight(q, j)
    BY <1>2 DEF InFlight
  <2>2. \A q \in Procs, j \in Ids : InFlight(q, j) \in Nat
    BY <1>1, Stamps DEF Times
  <2>. QED
    BY <2>1, <2>2
<1>6. CASE /\ disk' = [disk EXCEPT ![id] = edit.entry]
           /\ lost' = IF Overwrites(id, edit.entry.last) THEN lost \cup {id} ELSE lost
  <2>1. disk'[id] = edit.entry /\ \A j \in Ids : j # id => disk'[j] = disk[j]
    BY <1>1, <1>6 DEF TypeOK
  <2>2. disk'[id].file
    BY <1>2, <2>1 DEF ScheduleInv, Edited
  <2>3. SameSpec(id)
    BY <1>1 DEF ScheduleInv, History
  <2>4. id \notin lost /\ disk[id].file => disk'[id].spec = disk[id].spec
    BY <1>2, <2>1, <2>3 DEF SameSpec
  <2>5. lost' = IF Overwrites(id, disk'[id].last) THEN lost \cup {id} ELSE lost
    BY <1>6, <2>1
  <2>6. id \in Ids
    BY <1>1
  <2>. HIDE DEF id
  <2>7. ASSUME NEW k \in Ids, k = id
        PROVE  ScheduleInv'
    BY <1>2, <1>4, <1>5, <2>1, <2>2, <2>4, <2>5, <2>7, WriteKeeps
  <2>. QED
    BY <2>6, <2>7
<1>7. CASE UNCHANGED <<disk, lost>>
  <2>1. ASSUME NEW j \in Ids
        PROVE  History(j)'
    <3>1. \A at \in Nat \ {0} : Vouched(j, at) => Vouched(j, at)'
      BY <1>2, <1>7 DEF Vouched, InFlight
    <3>. QED
      BY <1>2, <1>3, <1>7, <3>1, HistoryKept
  <2>2. Edited'
    BY <1>2 DEF Edited
  <2>. QED
    BY <1>2, <1>3, <1>4, <2>1, <2>2, SilentKeeps
<1>. QED
  BY <1>2, <1>6, <1>7

\* A fire is said: it comes after everything that was, and its stamp is in flight.
LEMMA SayKeeps ==
  ASSUME ScheduleInv, TypeOK', Claimed', NEW p \in Procs, NEW w \in Who, NEW id \in Ids, Say(p, w, id)
  PROVE  ScheduleInv'
<1>1. TypeOK /\ Claimed /\ now \in Nat \ {0} /\ "timer" \in Who
  BY DEF ScheduleInv, Who
<1>. DEFINE f == fire[p][w][id]
<1>2. /\ Turned(p, w, id) /\ f.at = "spent" /\ fire'[p][w][id].at \in {"idle", "done"}
      /\ w = "timer" => /\ fire'[p][w][id].at = "done" /\ fire'[p][w][id].end = "spent"
                        /\ fire'[p][w][id].stamp = f.stamp
      /\ UNCHANGED <<now, disk, proc, edit, lost>>
      /\ \A j \in Ids : \A s \in said'[j] :
           \/ s \in said[j]
           \/ w = "timer" /\ j = id /\ s.at = f.stamp /\ s.spec = f.entry.spec
      /\ w = "person" => said' = said
  BY <1>1, SayIs
<1>3. /\ \A q \in Procs, v \in Who, j \in Ids : q # p \/ v # w \/ j # id => fire'[q][v][j] = fire[q][v][j]
      /\ now <= now' /\ now' \in Nat
  BY <1>1, <1>2 DEF Turned
<1>4. CASE w = "person"
  BY <1>2, <1>3, <1>4, TurnKeeps
<1>5. CASE w = "timer"
  <2>1. Carries(p, id) /\ Ready(p, id) /\ History(id)
    BY DEF ScheduleInv
  <2>2. f.stamp \in 1..now /\ proc[p].spent[id] <= f.stamp /\ f.stamp \in Nat
    BY <1>1, <1>2, <1>5, <2>1 DEF Carries
  <2>3. proc[p].at = "running"
    BY <1>1, <1>2, <1>5 DEF Claimed
  <2>4. \A q \in Procs : q # p => fire[q]["timer"][id].at = "idle"
    BY <1>1, <2>3, OnlyTheRunner
  <2>5. \A j \in Ids : j # id => said'[j] = said[j]
    BY <1>1, <1>5 DEF Say, TypeOK
  <2>6. ASSUME NEW q \in Procs, NEW j \in Ids
        PROVE  InFlight(q, j)' = InFlight(q, j)
    <3>1. CASE q = p /\ j = id
      BY <1>2, <1>5, <3>1 DEF InFlight
    <3>2. CASE ~(q = p /\ j = id)
      BY <1>1, <1>3, <3>2 DEF InFlight
    <3>. QED
      BY <3>1, <3>2
  <2>7. \A j \in Ids : \A at : Vouched(j, at) => Vouched(j, at)'
    BY <1>2, <2>6 DEF Vouched
  <2>8. ASSUME NEW q \in Procs, NEW j \in Ids
        PROVE  Carries(q, j)' /\ Ready(q, j)'
    <3>1. CASE q = p /\ j = id
      <4>1. Carries(p, id)'
        BY <1>2, <1>5, <2>1, <2>2 DEF Carries
      <4>2. Ready(p, id)'
        BY <1>2, <1>5 DEF Ready
      <4>. QED
        BY <3>1, <4>1, <4>2
    <3>2. CASE ~(q = p /\ j = id)
      <4>1. fire'[q]["timer"][j] = fire[q]["timer"][j]
        BY <1>1, <1>3, <3>2
      <4>2. Carries(q, j)'
        BY <1>2, <1>3, <4>1, CarriesKept
      <4>3. CASE j # id
        BY <1>2, <1>3, <2>5, <4>1, <4>2, <4>3, ReadyKept
      <4>4. CASE j = id
        <5>1. fire'[q]["timer"][j].at = "idle"
          BY <2>4, <3>2, <4>1, <4>4
        <5>2. Ready(q, j)'
          BY <5>1 DEF Ready
        <5>. QED
          BY <4>2, <5>2
      <4>. QED
        BY <4>3, <4>4
    <3>. QED
      BY <3>1, <3>2
  <2>9. \A q \in Procs, v \in Who, j \in Ids :
          fire'[q][v][j].at \in {"read", "spent"} => fire'[q][v][j] = fire[q][v][j]
    BY <1>2, <1>3
  <2>10. ASSUME NEW j \in Ids
         PROVE  History(j)'
    <3>1. CASE j # id
      BY <1>2, <1>3, <2>5, <2>7, <2>9, <3>1, HistoryKept
    <3>2. CASE j = id
      <4>1. Untouched(id)'
        BY <1>2, <2>1 DEF History, Untouched
      <4>2. SameSpec(id)'
        BY <1>2, <2>1, <2>9 DEF History, SameSpec
      <4>3. Known(id)'
        <5>. SUFFICES ASSUME id \notin lost, disk[id].file, NEW s \in said'[id]
                      PROVE  Vouched(id, s.at)'
          BY <1>2 DEF Known
        <5>1. CASE s \in said[id]
          BY <2>1, <2>7, <5>1 DEF History, Known
        <5>2. CASE s.at = f.stamp
          <6>1. InFlight(p, id)' = f.stamp
            BY <1>2, <1>5 DEF InFlight
          <6>2. s.at <= InFlight(p, id)'
            BY <2>2, <5>2, <6>1
          <6>. QED
            BY <6>2 DEF Vouched
        <5>. QED
          BY <1>2, <5>1, <5>2
      <4>4. Past(id)'
        BY <1>2, <2>1, <2>2 DEF History, Past
      <4>. QED
        BY <3>2, <4>1, <4>2, <4>3, <4>4 DEF History
    <3>. QED
      BY <3>1, <3>2
  <2>11. SaidOnce'
    <3>. SUFFICES ASSUME NEW j \in Ids, j \notin lost, NEW s \in said'[j], NEW t \in said'[j], s.at < t.at
                  PROVE  SpecNext(s.spec, s.at) <= t.at
      BY <1>2 DEF SaidOnce
    <3>1. CASE s \in said[j] /\ t \in said[j]
      BY <3>1 DEF ScheduleInv, SaidOnce
    <3>2. CASE s \in said[j] /\ t \notin said[j]
      BY <1>2, <1>5, <2>1, <3>2 DEF Ready
    <3>3. CASE s \notin said[j]
      <4>1. j = id /\ s.at = f.stamp
        BY <1>2, <3>3
      <4>2. t.at <= f.stamp /\ t.at \in Nat
        <5>1. CASE t \in said[id]
          BY <1>2, <1>5, <2>1, <4>1, <5>1, SaidFields DEF Ready
        <5>2. CASE t.at = f.stamp
          BY <2>2, <5>2
        <5>. QED
          BY <1>2, <4>1, <5>1, <5>2
      <4>. QED
        BY <2>2, <4>1, <4>2
    <3>. QED
      BY <3>1, <3>2, <3>3
  <2>12. Edited' /\ now' \in Nat \ {0}
    BY <1>1, <1>2 DEF ScheduleInv, Edited
  <2>. QED
    BY <2>8, <2>10, <2>11, <2>12 DEF ScheduleInv
<1>. QED
  BY <1>4, <1>5 DEF Who

\* An entry that is added has no history; one that is forgotten keeps none to speak of.
LEMMA DiskKeeps ==
  ASSUME ScheduleInv, TypeOK', Claimed', NEW p \in Procs, NEW id \in Ids,
         Forget(p, id) \/ \E spec \in Specs : Add(p, id, spec)
  PROVE  ScheduleInv'
<1>1. TypeOK /\ now \in Nat /\ History(id)
  BY DEF ScheduleInv
<1>2. UNCHANGED <<now, proc, fire, edit, said, lost>>
  BY DEF Forget, Add, record
<1>3. now <= now' /\ now' \in Nat
  BY <1>1, <1>2
<1>4. /\ \A j \in Ids : j # id => disk'[j] = disk[j]
      /\ \/ disk'[id] = Gone
         \/ disk[id] = Unborn /\ \E spec \in Specs : disk'[id] = Written(spec, now)
  BY <1>1 DEF Forget, Add, TypeOK
<1>5. \A q \in Procs, j \in Ids : Carries(q, j)' /\ Ready(q, j)'
  BY <1>2, <1>3, CarriesKept, ReadyKept
<1>6. ASSUME NEW j \in Ids
      PROVE  History(j)'
  <2>1. CASE j # id
    <3>1. \A at \in Nat \ {0} : Vouched(j, at) => Vouched(j, at)'
      BY <1>2, <1>4, <2>1 DEF Vouched, InFlight
    <3>. QED
      BY <1>2, <1>3, <1>4, <2>1, <3>1, HistoryKept
  <2>2. CASE j = id /\ disk'[id] = Gone
    <3>1. Gone.file = FALSE /\ Gone # Unborn
      BY Entries
    <3>2. Untouched(id)' /\ SameSpec(id)' /\ Known(id)'
      BY <2>2, <3>1 DEF Untouched, SameSpec, Known
    <3>3. Past(id)'
      BY <1>1, <1>2 DEF History, Past
    <3>. QED
      BY <2>2, <3>2, <3>3 DEF History
  <2>3. CASE j = id /\ disk[id] = Unborn /\ \E spec \in Specs : disk'[id] = Written(spec, now)
    <3>1. now \in Times
      BY <1>1 DEF TypeOK
    <3>2. disk'[id].file = TRUE /\ Unborn.file = FALSE
      BY <2>3, <3>1, Entries
    <3>3. /\ said[id] = {}
          /\ edit # NoEdit => edit.id # id
          /\ \A q \in Procs, v \in Who : fire[q][v][id].at \notin {"read", "spent"}
      BY <1>1, <2>3 DEF History, Untouched
    <3>4. disk'[id] # Unborn
      BY <3>2
    <3>5. Untouched(id)'
      BY <3>4 DEF Untouched
    <3>6. SameSpec(id)' /\ Known(id)' /\ Past(id)'
      BY <1>2, <3>3 DEF SameSpec, Known, Past
    <3>. QED
      BY <2>3, <3>5, <3>6 DEF History
  <2>. QED
    BY <1>4, <2>1, <2>2, <2>3
<1>7. Edited' /\ lost \subseteq lost'
  BY <1>2 DEF ScheduleInv, Edited
<1>. QED
  BY <1>2, <1>3, <1>5, <1>6, <1>7, SilentKeeps

\* An edit reads an entry that is a file.
LEMMA EditReadKeeps ==
  ASSUME ScheduleInv, TypeOK', Claimed', NEW p \in Procs, NEW id \in Ids, NEW enabled \in BOOLEAN,
         EditRead(p, id, enabled)
  PROVE  ScheduleInv'
<1>1. TypeOK /\ now \in Nat
  BY DEF ScheduleInv
<1>2. /\ disk[id].file /\ edit'.id = id /\ edit'.entry.spec = disk[id].spec /\ edit'.entry.file
      /\ UNCHANGED <<now, disk, proc, fire, said, lost>>
  BY <1>1, EditIs
<1>3. now <= now' /\ now' \in Nat
  BY <1>1, <1>2
<1>4. \A q \in Procs, j \in Ids : Carries(q, j)' /\ Ready(q, j)'
  BY <1>2, <1>3, CarriesKept, ReadyKept
<1>5. ASSUME NEW j \in Ids
      PROVE  History(j)'
  <2>1. \A at \in Nat \ {0} : Vouched(j, at) => Vouched(j, at)'
    BY <1>2 DEF Vouched, InFlight
  <2>2. edit'.id # j \/ (edit'.entry.spec = disk[j].spec /\ disk[j].file)
    BY <1>2
  <2>. QED
    BY <1>2, <1>3, <2>1, <2>2, HistoryKept
<1>6. Edited' /\ lost \subseteq lost'
  BY <1>2 DEF Edited
<1>. QED
  BY <1>2, <1>3, <1>4, <1>5, <1>6, SilentKeeps

-----------------------------------------------------------------------------
LEMMA ScheduleBegins ==
  ASSUME Init
  PROVE  ScheduleInv
<1>1. TypeOK
  BY TypesBegin
<1>2. /\ \A id \in Ids : Fresh.spent[id] = 0
      /\ Fresh.at = "down" /\ Idle.at = "idle" /\ Idle.end = "none" /\ Unborn.file = FALSE
  BY Beginnings, Entries
<1>3. /\ now = Period /\ inode = 0 /\ edit = NoEdit /\ lost = {}
      /\ \A p \in Procs : proc[p] = Fresh
      /\ \A p \in Procs, w \in Who, id \in Ids : fire[p][w][id] = Idle
      /\ \A id \in Ids : said[id] = {}
  BY DEF Init
<1>4. now \in Nat \ {0} /\ "timer" \in Who
  BY <1>3, ScheduleAssumption DEF Who
<1>5. Claimed
  BY <1>2, <1>3, <1>4 DEF Claimed
<1>6. \A p \in Procs, id \in Ids : Carries(p, id) /\ Ready(p, id)
  BY <1>2, <1>3, <1>4 DEF Carries, Ready
<1>7. \A id \in Ids : History(id)
  BY <1>2, <1>3 DEF History, Untouched, SameSpec, Known, Past
<1>8. SaidOnce /\ Edited
  BY <1>3 DEF SaidOnce, Edited
<1>. QED
  BY <1>1, <1>4, <1>5, <1>6, <1>7, <1>8 DEF ScheduleInv

LEMMA ScheduleStep ==
  ASSUME ScheduleInv, [Next]_vars
  PROVE  ScheduleInv'
<1>1. TypeOK' /\ Claimed'
  BY TypesKept, ClaimedKept DEF ScheduleInv
<1>2. CASE Tick \/ UNCHANGED vars
  BY <1>1, <1>2, QuietSteps
<1>3. CASE EditWrite
  BY <1>1, <1>3, EditWriteKeeps
<1>4. ASSUME NEW p \in Procs,
             \/ Start(p) \/ Stop(p) \/ Crash(p) \/ Supervising(p) \/ Launch(p) \/ Misread(p)
      PROVE  ScheduleInv'
  <2>1. CASE Start(p) \/ Stop(p) \/ OpenClaim(p) \/ Publish(p) \/ TryLock(p)
    BY <1>1, <2>1, QuietSteps
  <2>2. CASE Crash(p)
    BY <1>1, <2>2, CrashKeeps
  <2>3. CASE Leave(p)
    BY <1>1, <2>3, LeaveKeeps
  <2>4. CASE Launch(p) \/ Misread(p)
    BY <1>1, <2>4, LaunchKeeps
  <2>. QED
    BY <1>4, <2>1, <2>2, <2>3, <2>4 DEF Supervising
<1>5. ASSUME NEW p \in Procs, NEW id \in Ids,
             \/ Rescan(p, id) \/ Landed(p, id) \/ Panics(p, id) \/ CloseSession(p, id)
             \/ Forget(p, id) \/ RunNow(p, id)
             \/ \E spec \in Specs : Add(p, id, spec)
             \/ \E enabled \in BOOLEAN : EditRead(p, id, enabled)
      PROVE  ScheduleInv'
  <2>1. CASE Rescan(p, id) \/ CloseSession(p, id)
    BY <1>1, <2>1, QuietSteps
  <2>2. CASE Landed(p, id)
    BY <1>1, <2>2, LandedKeeps
  <2>3. CASE Panics(p, id)
    BY <1>1, <2>3, PanicsKeeps
  <2>4. CASE Forget(p, id) \/ \E spec \in Specs : Add(p, id, spec)
    BY <1>1, <2>4, DiskKeeps
  <2>5. CASE RunNow(p, id)
    BY <1>1, <2>5, RunNowKeeps
  <2>6. CASE \E enabled \in BOOLEAN : EditRead(p, id, enabled)
    BY <1>1, <2>6, EditReadKeeps
  <2>. QED
    BY <1>5, <2>1, <2>2, <2>3, <2>4, <2>5, <2>6
<1>6. ASSUME NEW p \in Procs, NEW id \in Ids, NEW w \in Who,
             Firing(p, w, id) \/ OpenFails(p, w, id) \/ RereadFails(p, w, id)
      PROVE  ScheduleInv'
  <2>1. CASE Open(p, w, id) \/ OpenRefused(p, w, id) \/ OpenFails(p, w, id)
    BY <1>1, <2>1, OpenKeeps
  <2>2. CASE Reread(p, w, id) \/ RereadFails(p, w, id)
    BY <1>1, <2>2, RereadKeeps
  <2>3. CASE Stamp(p, w, id)
    BY <1>1, <2>3, StampKeeps
  <2>4. CASE Say(p, w, id)
    BY <1>1, <2>4, SayKeeps
  <2>. QED
    BY <1>6, <2>1, <2>2, <2>3, <2>4 DEF Firing
<1>. QED
  BY <1>2, <1>3, <1>4, <1>5, <1>6 DEF Next

\* The invariant holds of every state the processes and the person can reach.
THEOREM ScheduleInduction == Spec => []ScheduleInv
<1>1. Init => ScheduleInv
  BY ScheduleBegins
<1>2. ScheduleInv /\ [Next]_vars => ScheduleInv'
  BY ScheduleStep
<1>. QED
  BY <1>1, <1>2, PTL DEF Spec

\* The state of the schedules has its type, and a fire between its reread and its
\* submission works on an entry that was a file and enabled (spend.rs, spend).
THEOREM ScheduleTypes == Spec => []TypeOK
<1>1. ScheduleInv => TypeOK
  BY DEF ScheduleInv
<1>. QED
  BY <1>1, ScheduleInduction, PTL

\* One runner per store, for any number of processes: the lock file is published
\* once and never replaced (bingo-claim, publish.rs), so no two processes run the loop or
\* have its fires in flight, whatever crashes and stops there are.
THEOREM OneRunnerAtATime == Spec => []OneRunner
<1>1. ScheduleInv => OneRunner
  BY ClaimedIsOne DEF ScheduleInv
<1>. QED
  BY <1>1, ScheduleInduction, PTL

\* The runners say an occurrence once, for any number of entries, processes, faults
\* and edits: what remembered (runner.rs) makes of the disk and of the spent stamps
\* is never earlier than anything that was said, unless the
\* stamp is lost: with a process, a task, a read that fails, or under an older copy.
THEOREM SaidAtMostOnce == Spec => []SaidOnce
<1>1. ScheduleInv => SaidOnce
  BY DEF ScheduleInv
<1>. QED
  BY <1>1, ScheduleInduction, PTL
=============================================================================
