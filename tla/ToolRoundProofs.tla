--------------------------- MODULE ToolRoundProofs ---------------------------
(***************************************************************************)
(* The safety of a round of tool calls, for any number of calls, any limit *)
(* on those in flight and any number of rewrites: WalkInv is inductive,    *)
(* one lemma per action of the walk, and the properties follow from it.    *)
(***************************************************************************)
EXTENDS ToolRound, FiniteSetTheorems, SequenceTheorems, TLAPS

\* The calls of a round, and so those in flight, are finitely many; one
\* that ends leaves no more behind, one that starts adds one.
LEMMA FlightFinite ==
  ASSUME NEW F \in SUBSET Calls
  PROVE  /\ IsFiniteSet(F) /\ Cardinality(F) \in Nat
         /\ \A i \in Calls : Cardinality(F \ {i}) \in Nat /\ Cardinality(F \ {i}) <= Cardinality(F)
         /\ \A i \in Calls : /\ Cardinality(F \cup {i}) \in Nat
                            /\ Cardinality(F \cup {i}) <= Cardinality(F) + 1
         /\ Cardinality({}) = 0
<1>1. IsFiniteSet(Calls)
  BY FS_Interval, RoundAssumption DEF Calls
<1>2. IsFiniteSet(F)
  BY <1>1, FS_Subset
<1>3. Cardinality(F) \in Nat
  BY <1>2, FS_CardinalityType
<1>4. ASSUME NEW i \in Calls
      PROVE  Cardinality(F \ {i}) \in Nat /\ Cardinality(F \ {i}) <= Cardinality(F)
  <2>1. /\ IsFiniteSet(F \ {i})
        /\ Cardinality(F \ {i}) = IF i \in F THEN Cardinality(F) - 1 ELSE Cardinality(F)
    BY <1>2, FS_RemoveElement
  <2>2. Cardinality(F \ {i}) \in Nat
    BY <2>1, FS_CardinalityType
  <2>. QED
    BY <1>3, <2>1, <2>2
<1>5. ASSUME NEW i \in Calls
      PROVE  Cardinality(F \cup {i}) \in Nat /\ Cardinality(F \cup {i}) <= Cardinality(F) + 1
  <2>1. /\ IsFiniteSet(F \cup {i})
        /\ Cardinality(F \cup {i}) = IF i \in F THEN Cardinality(F) ELSE Cardinality(F) + 1
    BY <1>2, FS_AddElement
  <2>2. Cardinality(F \cup {i}) \in Nat
    BY <2>1, FS_CardinalityType
  <2>. QED
    BY <1>3, <2>1, <2>2
<1>. QED
  BY <1>2, <1>3, <1>4, <1>5, FS_EmptySet

\* An outcome that lands is added to those that did.
LEMMA LandedAppend ==
  ASSUME NEW out \in Seq(Outcome), NEW o \in Outcome
  PROVE  /\ Append(out, o) \in Seq(Outcome)
         /\ \A i \in Landed(out) : i \in Landed(Append(out, o))
         /\ o.call \in Landed(Append(out, o))
<1>1. Append(out, o) \in Seq(Outcome)
  BY AppendProperties
<1>2. /\ Len(out) \in Nat /\ DOMAIN out = 1..Len(out)
      /\ DOMAIN Append(out, o) = 1..(Len(out) + 1)
      /\ \A k \in 1..Len(out) : Append(out, o)[k] = out[k]
      /\ Append(out, o)[Len(out) + 1] = o
  BY AppendProperties, LenProperties
<1>. QED
  BY <1>1, <1>2 DEF Landed

\* Every round starts sound.
LEMMA RoundInit == Init => WalkInv
<1>. SUFFICES ASSUME Init PROVE WalkInv
  OBVIOUS
<1>. USE RoundAssumption DEF Init
<1>0. outcomes \in Seq(Outcome)
  <2>1. <<>> \in Seq(Outcome)
    BY EmptySeq
  <2>. QED
    BY <2>1
<1>1. WalkTypeOK
  <2>1. decided \in Decided
    BY DEF Decided, Settled, Receipts
  <2>2. version \in [Calls -> Nat] /\ receipt \in [Calls -> Receipts]
    BY DEF Receipts
  <2>3. at \in 1..(N + 1)
    OBVIOUS
  <2>. QED
    BY <1>0, <2>1, <2>2, <2>3 DEF WalkTypeOK, Undecided
<1>2. Cardinality(flight) = 0
  BY FS_EmptySet
<1>. QED
  BY <1>1, <1>2 DEF WalkInv, BehindIt, AheadOfIt, FlightRoom, DecidedSoundly, ReceiptOnItsWay,
    UnsafeAlone, AskedAlone, NoDeniedRuns, ReceiptBeforeRun, Settled, Before, Calls, Undecided

\* Gathering the hooks keeps the walk sound.
LEMMA GatherKeeps ==
  ASSUME WalkInv, Gather
  PROVE  WalkInv'
<1>. USE RoundAssumption DEF WalkInv, Calls, Before, Undecided, AllSafe, AllowReceipt, Gather
<1>1. WalkTypeOK'
  BY SMT DEF WalkTypeOK, BehindIt
<1>2. BehindIt'
  BY SMT DEF BehindIt, WalkTypeOK, AheadOfIt, Settled, Question, Advance
<1>3. AheadOfIt'
  BY SMT DEF AheadOfIt, WalkTypeOK, BehindIt, Settled, Question, Advance
<1>4. FlightRoom'
  BY SMT DEF FlightRoom, WalkTypeOK, BehindIt, AheadOfIt, Settled, Question, Advance, Reached, NextAction
<1>5. DecidedSoundly'
  BY SMT DEF DecidedSoundly, WalkTypeOK, BehindIt, AheadOfIt, Settled, Question, Advance, Reached, NextAction, Answers
<1>6. ReceiptOnItsWay'
  BY SMT DEF ReceiptOnItsWay, WalkTypeOK, BehindIt, AheadOfIt, Settled, Question, Advance, Reached, NextAction, Answers
<1>7. UnsafeAlone'
  BY FlightFinite, SMT DEF UnsafeAlone, WalkTypeOK, BehindIt, AheadOfIt, Advance, FlightRoom
<1>8. AskedAlone'
  BY SMT DEF AskedAlone, WalkTypeOK, BehindIt, AheadOfIt, Advance, Reached, NextAction
<1>9. NoDeniedRuns'
  BY SMT DEF NoDeniedRuns, WalkTypeOK, BehindIt, AheadOfIt, Advance, DecidedSoundly
<1>10. ReceiptBeforeRun'
  BY SMT DEF ReceiptBeforeRun, WalkTypeOK, BehindIt, AheadOfIt, Advance, ReceiptOnItsWay
<1>. QED
  BY <1>1, <1>2, <1>3, <1>4, <1>5, <1>6, <1>7, <1>8, <1>9, <1>10

\* Reaching the next call keeps the walk sound.
LEMMA ReachKeeps ==
  ASSUME WalkInv, Reach
  PROVE  WalkInv'
<1>. USE RoundAssumption DEF WalkInv, Calls, Before, Undecided, AllSafe, AllowReceipt, Reach
<1>1. WalkTypeOK'
  BY SMT DEF WalkTypeOK, Decided, Settled, Question, Receipts, Ends, Advance
<1>2. BehindIt'
  BY SMT DEF BehindIt, WalkTypeOK, AheadOfIt, Settled, Question, Advance
<1>3. AheadOfIt'
  BY SMT DEF AheadOfIt, WalkTypeOK, BehindIt, Settled, Question, Advance
<1>4. FlightRoom'
  BY SMT DEF FlightRoom, WalkTypeOK, BehindIt, AheadOfIt, Settled, Question, Advance, Reached, NextAction
<1>5. DecidedSoundly'
  BY SMT DEF DecidedSoundly, WalkTypeOK, BehindIt, AheadOfIt, Settled, Question, Advance, Reached, NextAction, Answers
<1>6. ReceiptOnItsWay'
  BY SMT DEF ReceiptOnItsWay, WalkTypeOK, BehindIt, AheadOfIt, Settled, Question, Advance, Reached, NextAction, Answers
<1>7. UnsafeAlone'
  BY FlightFinite, SMT DEF UnsafeAlone, WalkTypeOK, BehindIt, AheadOfIt, Advance, FlightRoom
<1>8. AskedAlone'
  BY SMT DEF AskedAlone, WalkTypeOK, BehindIt, AheadOfIt, Advance, Reached, NextAction
<1>9. NoDeniedRuns'
  BY SMT DEF NoDeniedRuns, WalkTypeOK, BehindIt, AheadOfIt, Advance, DecidedSoundly
<1>10. ReceiptBeforeRun'
  BY SMT DEF ReceiptBeforeRun, WalkTypeOK, BehindIt, AheadOfIt, Advance, ReceiptOnItsWay
<1>. QED
  BY <1>1, <1>2, <1>3, <1>4, <1>5, <1>6, <1>7, <1>8, <1>9, <1>10

\* A call landing keeps the walk sound.
LEMMA LandKeeps ==
  ASSUME WalkInv, NEW i \in flight, NEW status \in Ends, Land(i, status)
  PROVE  WalkInv'
<1>. USE RoundAssumption DEF WalkInv, Calls, Before, Undecided, AllSafe, AllowReceipt, Land
<1>0. /\ [call |-> i, status |-> status] \in Outcome /\ outcomes \in Seq(Outcome)
      /\ i \in Calls
  BY SMT DEF WalkTypeOK, Outcome, Ends
<1>a. /\ outcomes' \in Seq(Outcome) /\ i \in Landed(outcomes')
      /\ \A j \in Landed(outcomes) : j \in Landed(outcomes')
  BY <1>0, LandedAppend
<1>1. WalkTypeOK'
  BY <1>a, SMTT(30) DEF WalkTypeOK
<1>2. BehindIt'
  BY <1>a, SMT DEF BehindIt, WalkTypeOK
<1>3. AheadOfIt'
  BY SMT DEF AheadOfIt, WalkTypeOK, BehindIt, Settled, Question, Advance
<1>4. FlightRoom'
  BY SMT DEF FlightRoom, WalkTypeOK, BehindIt, AheadOfIt, Settled, Question, Advance, Reached, NextAction
<1>5. DecidedSoundly'
  BY SMT DEF DecidedSoundly, WalkTypeOK, BehindIt, AheadOfIt, Settled, Question, Advance, Reached, NextAction, Answers
<1>6. ReceiptOnItsWay'
  BY SMT DEF ReceiptOnItsWay, WalkTypeOK, BehindIt, AheadOfIt, Settled, Question, Advance, Reached, NextAction, Answers
<1>7. UnsafeAlone'
  <2>1. /\ Cardinality(flight \ {i}) \in Nat /\ Cardinality(flight) \in Nat
        /\ Cardinality(flight \ {i}) <= Cardinality(flight)
    BY <1>0, FlightFinite DEF WalkTypeOK
  <2>. QED
    BY <2>1, SMT DEF UnsafeAlone
<1>8. AskedAlone'
  BY SMT DEF AskedAlone, WalkTypeOK, BehindIt, AheadOfIt, Advance, Reached, NextAction
<1>9. NoDeniedRuns'
  BY SMT DEF NoDeniedRuns, WalkTypeOK, BehindIt, AheadOfIt, Advance, DecidedSoundly
<1>10. ReceiptBeforeRun'
  BY SMT DEF ReceiptBeforeRun, WalkTypeOK, BehindIt, AheadOfIt, Advance, ReceiptOnItsWay
<1>. QED
  BY <1>1, <1>2, <1>3, <1>4, <1>5, <1>6, <1>7, <1>8, <1>9, <1>10

\* A decision keeps the walk sound.
LEMMA DecideKeeps ==
  ASSUME WalkInv, NEW gate \in {"allowed", "denied", "ask"}, NEW isSafe \in BOOLEAN, Decide(gate, isSafe)
  PROVE  WalkInv'
<1>. USE RoundAssumption DEF WalkInv, Calls, Before, Undecided, AllSafe, AllowReceipt, Decide
<1>1. WalkTypeOK'
  BY SMTT(30) DEF WalkTypeOK, Decided, Settled, Question, Receipts, Ends, Advance
<1>2. BehindIt'
  BY SMT DEF BehindIt, WalkTypeOK, AheadOfIt, Settled, Question, Advance
<1>3. AheadOfIt'
  BY SMT DEF AheadOfIt, WalkTypeOK, BehindIt, Settled, Question, Advance
<1>4. FlightRoom'
  BY SMT DEF FlightRoom, WalkTypeOK, BehindIt, AheadOfIt, Settled, Question, Advance, Reached, NextAction
<1>5. DecidedSoundly'
  BY SMT DEF DecidedSoundly, WalkTypeOK, BehindIt, AheadOfIt, Settled, Question, Advance, Reached, NextAction, Answers
<1>6. ReceiptOnItsWay'
  BY SMT DEF ReceiptOnItsWay, WalkTypeOK, BehindIt, AheadOfIt, Settled, Question, Advance, Reached, NextAction, Answers
<1>7. UnsafeAlone'
  BY FlightFinite, SMT DEF UnsafeAlone, WalkTypeOK, BehindIt, AheadOfIt, Advance, FlightRoom
<1>8. AskedAlone'
  BY SMT DEF AskedAlone, WalkTypeOK, BehindIt, AheadOfIt, Advance, Reached, NextAction
<1>9. NoDeniedRuns'
  BY SMT DEF NoDeniedRuns, WalkTypeOK, BehindIt, AheadOfIt, Advance, DecidedSoundly
<1>10. ReceiptBeforeRun'
  BY SMT DEF ReceiptBeforeRun, WalkTypeOK, BehindIt, AheadOfIt, Advance, ReceiptOnItsWay
<1>. QED
  BY <1>1, <1>2, <1>3, <1>4, <1>5, <1>6, <1>7, <1>8, <1>9, <1>10

\* Acting on the decision keeps the walk sound.
LEMMA SettleKeeps ==
  ASSUME WalkInv, Settle
  PROVE  WalkInv'
<1>. USE RoundAssumption DEF WalkInv, Calls, Before, Undecided, AllSafe, AllowReceipt, Settle
<1>1. WalkTypeOK'
  <2>1. at \in Calls /\ asked \subseteq Calls
    BY SMT DEF WalkTypeOK
  <2>2. (step' = "ask" \/ step' = "admit") /\ (asked' = asked \/ asked' = asked \cup {at})
    OBVIOUS
  <2>3. asked' \subseteq Calls
    BY <2>1, <2>2
  <2>. QED
    BY <2>1, <2>2, <2>3, SMT DEF WalkTypeOK
<1>2. BehindIt'
  BY SMT DEF BehindIt, WalkTypeOK, AheadOfIt, Settled, Question, Advance
<1>3. AheadOfIt'
  BY SMT DEF AheadOfIt, WalkTypeOK, BehindIt, Settled, Question, Advance
<1>4. FlightRoom'
  BY SMT DEF FlightRoom, WalkTypeOK, BehindIt, AheadOfIt, Settled, Question, Advance, Reached, NextAction
<1>5. DecidedSoundly'
  BY SMT DEF DecidedSoundly, WalkTypeOK, BehindIt, AheadOfIt, Settled, Question, Advance, Reached, NextAction, Answers
<1>6. ReceiptOnItsWay'
  BY SMT DEF ReceiptOnItsWay, WalkTypeOK, BehindIt, AheadOfIt, Settled, Question, Advance, Reached, NextAction, Answers
<1>7. UnsafeAlone'
  BY FlightFinite, SMT DEF UnsafeAlone, WalkTypeOK, BehindIt, AheadOfIt, Advance, FlightRoom
<1>8. AskedAlone'
  BY SMT DEF AskedAlone, WalkTypeOK, BehindIt, AheadOfIt, Advance, Reached, NextAction
<1>9. NoDeniedRuns'
  BY SMT DEF NoDeniedRuns, WalkTypeOK, BehindIt, AheadOfIt, Advance, DecidedSoundly
<1>10. ReceiptBeforeRun'
  BY SMT DEF ReceiptBeforeRun, WalkTypeOK, BehindIt, AheadOfIt, Advance, ReceiptOnItsWay
<1>. QED
  BY <1>1, <1>2, <1>3, <1>4, <1>5, <1>6, <1>7, <1>8, <1>9, <1>10

\* A yes or a no keeps the walk sound.
LEMMA AnswerKeeps ==
  ASSUME WalkInv, NEW answer \in {"allow", "deny"}, Answer(answer)
  PROVE  WalkInv'
<1>. USE RoundAssumption DEF WalkInv, Calls, Before, Undecided, AllSafe, AllowReceipt, Answer
<1>1. WalkTypeOK'
  BY SMT DEF WalkTypeOK, Decided, Settled, Question, Receipts, Ends, Advance
<1>2. BehindIt'
  BY SMT DEF BehindIt, WalkTypeOK, AheadOfIt, Settled, Question, Advance
<1>3. AheadOfIt'
  BY SMT DEF AheadOfIt, WalkTypeOK, BehindIt, Settled, Question, Advance
<1>4. FlightRoom'
  BY SMT DEF FlightRoom, WalkTypeOK, BehindIt, AheadOfIt, Settled, Question, Advance, Reached, NextAction
<1>5. DecidedSoundly'
  BY SMT DEF DecidedSoundly, WalkTypeOK, BehindIt, AheadOfIt, Settled, Question, Advance, Reached, NextAction, Answers
<1>6. ReceiptOnItsWay'
  BY SMT DEF ReceiptOnItsWay, WalkTypeOK, BehindIt, AheadOfIt, Settled, Question, Advance, Reached, NextAction, Answers
<1>7. UnsafeAlone'
  BY FlightFinite, SMT DEF UnsafeAlone, WalkTypeOK, BehindIt, AheadOfIt, Advance, FlightRoom
<1>8. AskedAlone'
  BY SMT DEF AskedAlone, WalkTypeOK, BehindIt, AheadOfIt, Advance, Reached, NextAction
<1>9. NoDeniedRuns'
  BY SMT DEF NoDeniedRuns, WalkTypeOK, BehindIt, AheadOfIt, Advance, DecidedSoundly
<1>10. ReceiptBeforeRun'
  BY SMT DEF ReceiptBeforeRun, WalkTypeOK, BehindIt, AheadOfIt, Advance, ReceiptOnItsWay
<1>. QED
  BY <1>1, <1>2, <1>3, <1>4, <1>5, <1>6, <1>7, <1>8, <1>9, <1>10

\* A question that is closed keeps the walk sound.
LEMMA AskClosedKeeps ==
  ASSUME WalkInv, AskClosed
  PROVE  WalkInv'
<1>. USE RoundAssumption DEF WalkInv, Calls, Before, Undecided, AllSafe, AllowReceipt, AskClosed
<1>1. WalkTypeOK'
  BY SMT DEF WalkTypeOK, Decided, Settled, Question, Receipts, Ends, Advance
<1>2. BehindIt'
  BY SMT DEF BehindIt, WalkTypeOK, AheadOfIt, Settled, Question, Advance
<1>3. AheadOfIt'
  BY SMT DEF AheadOfIt, WalkTypeOK, BehindIt, Settled, Question, Advance
<1>4. FlightRoom'
  BY SMT DEF FlightRoom, WalkTypeOK, BehindIt, AheadOfIt, Settled, Question, Advance, Reached, NextAction
<1>5. DecidedSoundly'
  BY SMT DEF DecidedSoundly, WalkTypeOK, BehindIt, AheadOfIt, Settled, Question, Advance, Reached, NextAction, Answers
<1>6. ReceiptOnItsWay'
  BY SMT DEF ReceiptOnItsWay, WalkTypeOK, BehindIt, AheadOfIt, Settled, Question, Advance, Reached, NextAction, Answers
<1>7. UnsafeAlone'
  BY FlightFinite, SMT DEF UnsafeAlone, WalkTypeOK, BehindIt, AheadOfIt, Advance, FlightRoom
<1>8. AskedAlone'
  BY SMT DEF AskedAlone, WalkTypeOK, BehindIt, AheadOfIt, Advance, Reached, NextAction
<1>9. NoDeniedRuns'
  BY SMT DEF NoDeniedRuns, WalkTypeOK, BehindIt, AheadOfIt, Advance, DecidedSoundly
<1>10. ReceiptBeforeRun'
  BY SMT DEF ReceiptBeforeRun, WalkTypeOK, BehindIt, AheadOfIt, Advance, ReceiptOnItsWay
<1>. QED
  BY <1>1, <1>2, <1>3, <1>4, <1>5, <1>6, <1>7, <1>8, <1>9, <1>10

\* A rewritten input keeps the walk sound.
LEMMA AnswerChangedKeeps ==
  ASSUME WalkInv, AnswerChanged
  PROVE  WalkInv'
<1>. USE RoundAssumption DEF WalkInv, Calls, Before, Undecided, AllSafe, AllowReceipt, AnswerChanged
<1>1. WalkTypeOK'
  BY SMTT(30) DEF WalkTypeOK, Decided, Settled, Question, Receipts, Ends, Advance
<1>2. BehindIt'
  BY SMT DEF BehindIt, WalkTypeOK, AheadOfIt, Settled, Question, Advance
<1>3. AheadOfIt'
  BY SMT DEF AheadOfIt, WalkTypeOK, BehindIt, Settled, Question, Advance
<1>4. FlightRoom'
  BY SMT DEF FlightRoom, WalkTypeOK, BehindIt, AheadOfIt, Settled, Question, Advance, Reached, NextAction
<1>5. DecidedSoundly'
  BY SMT DEF DecidedSoundly, WalkTypeOK, BehindIt, AheadOfIt, Settled, Question, Advance, Reached, NextAction, Answers
<1>6. ReceiptOnItsWay'
  BY SMT DEF ReceiptOnItsWay, WalkTypeOK, BehindIt, AheadOfIt, Settled, Question, Advance, Reached, NextAction, Answers
<1>7. UnsafeAlone'
  BY FlightFinite, SMT DEF UnsafeAlone, WalkTypeOK, BehindIt, AheadOfIt, Advance, FlightRoom
<1>8. AskedAlone'
  BY SMT DEF AskedAlone, WalkTypeOK, BehindIt, AheadOfIt, Advance, Reached, NextAction
<1>9. NoDeniedRuns'
  BY SMT DEF NoDeniedRuns, WalkTypeOK, BehindIt, AheadOfIt, Advance, DecidedSoundly
<1>10. ReceiptBeforeRun'
  BY SMT DEF ReceiptBeforeRun, WalkTypeOK, BehindIt, AheadOfIt, Advance, ReceiptOnItsWay
<1>. QED
  BY <1>1, <1>2, <1>3, <1>4, <1>5, <1>6, <1>7, <1>8, <1>9, <1>10

\* The decision on a rewritten input keeps the walk sound.
LEMMA RecheckKeeps ==
  ASSUME WalkInv, NEW gate \in {"allowed", "denied", "ask", "failed"}, NEW isSafe \in BOOLEAN, Recheck(gate, isSafe)
  PROVE  WalkInv'
<1>. USE RoundAssumption DEF WalkInv, Calls, Before, Undecided, AllSafe, AllowReceipt, Recheck
<1>1. WalkTypeOK'
  <2>1. /\ Settled("allowed", "allowChanged") \in Decided /\ Settled("denied", "none") \in Decided
        /\ Question(TRUE) \in Decided /\ Question(FALSE) \in Decided
    BY SMT DEF Decided, Settled, Question, Receipts
  <2>2. decided' \in Decided /\ step' \in {"ask", "receipt", "admit"}
    BY <2>1
  <2>3. denied' \subseteq Calls \X Nat /\ safe' \subseteq Calls /\ at \in Calls
    BY SMT DEF WalkTypeOK
  <2>. QED
    BY <2>2, <2>3, SMT DEF WalkTypeOK
<1>2. BehindIt'
  BY SMT DEF BehindIt, WalkTypeOK, AheadOfIt, Settled, Question, Advance
<1>3. AheadOfIt'
  BY SMT DEF AheadOfIt, WalkTypeOK, BehindIt, Settled, Question, Advance
<1>4. FlightRoom'
  BY SMT DEF FlightRoom, WalkTypeOK, BehindIt, AheadOfIt, Settled, Question, Advance, Reached, NextAction
<1>5. DecidedSoundly'
  BY SMT DEF DecidedSoundly, WalkTypeOK, BehindIt, AheadOfIt, Settled, Question, Advance, Reached, NextAction, Answers
<1>6. ReceiptOnItsWay'
  <2>1. version[at] # 0
    BY SMT DEF AheadOfIt, WalkTypeOK
  <2>. QED
    BY <2>1, SMT DEF ReceiptOnItsWay, WalkTypeOK, Settled, Question
<1>7. UnsafeAlone'
  BY FlightFinite, SMT DEF UnsafeAlone, WalkTypeOK, BehindIt, AheadOfIt, Advance, FlightRoom
<1>8. AskedAlone'
  BY SMT DEF AskedAlone, WalkTypeOK, BehindIt, AheadOfIt, Advance, Reached, NextAction
<1>9. NoDeniedRuns'
  BY SMT DEF NoDeniedRuns, WalkTypeOK, BehindIt, AheadOfIt, Advance, DecidedSoundly
<1>10. ReceiptBeforeRun'
  BY SMT DEF ReceiptBeforeRun, WalkTypeOK, BehindIt, AheadOfIt, Advance, ReceiptOnItsWay
<1>. QED
  BY <1>1, <1>2, <1>3, <1>4, <1>5, <1>6, <1>7, <1>8, <1>9, <1>10

\* A receipt in the journal keeps the walk sound.
LEMMA RecordReceiptKeeps ==
  ASSUME WalkInv, RecordReceipt
  PROVE  WalkInv'
<1>. USE RoundAssumption DEF WalkInv, Calls, Before, Undecided, AllSafe, AllowReceipt, RecordReceipt
<1>1. WalkTypeOK'
  BY SMT DEF WalkTypeOK, Decided, Settled, Question, Receipts, Ends, Advance
<1>2. BehindIt'
  BY SMT DEF BehindIt, WalkTypeOK, AheadOfIt, Settled, Question, Advance
<1>3. AheadOfIt'
  BY SMT DEF AheadOfIt, WalkTypeOK, BehindIt, Settled, Question, Advance
<1>4. FlightRoom'
  BY SMT DEF FlightRoom, AskedAlone
<1>5. DecidedSoundly'
  BY SMT DEF DecidedSoundly, WalkTypeOK, BehindIt, AheadOfIt, Settled, Question, Advance, Reached, NextAction, Answers
<1>6. ReceiptOnItsWay'
  BY SMT DEF ReceiptOnItsWay, WalkTypeOK, BehindIt, AheadOfIt, Settled, Question, Advance, Reached, NextAction, Answers
<1>7. UnsafeAlone'
  BY FlightFinite, SMT DEF UnsafeAlone, WalkTypeOK, BehindIt, AheadOfIt, Advance, FlightRoom
<1>8. AskedAlone'
  BY SMT DEF AskedAlone, WalkTypeOK, BehindIt, AheadOfIt, Advance, Reached, NextAction
<1>9. NoDeniedRuns'
  BY SMT DEF NoDeniedRuns, WalkTypeOK, BehindIt, AheadOfIt, Advance, DecidedSoundly
<1>10. ReceiptBeforeRun'
  BY SMT DEF ReceiptBeforeRun, WalkTypeOK, BehindIt, AheadOfIt, Advance, ReceiptOnItsWay
<1>. QED
  BY <1>1, <1>2, <1>3, <1>4, <1>5, <1>6, <1>7, <1>8, <1>9, <1>10

\* A receipt that cannot be recorded keeps the walk sound.
LEMMA ReceiptFailedKeeps ==
  ASSUME WalkInv, ReceiptFailed
  PROVE  WalkInv'
<1>. USE RoundAssumption DEF WalkInv, Calls, Before, Undecided, AllSafe, AllowReceipt, ReceiptFailed
<1>1. WalkTypeOK'
  BY SMT DEF WalkTypeOK, Decided, Settled, Question, Receipts, Ends, Advance
<1>2. BehindIt'
  BY SMT DEF BehindIt, WalkTypeOK, AheadOfIt, Settled, Question, Advance
<1>3. AheadOfIt'
  BY SMT DEF AheadOfIt, WalkTypeOK, BehindIt, Settled, Question, Advance
<1>4. FlightRoom'
  BY SMT DEF FlightRoom, WalkTypeOK, BehindIt, AheadOfIt, Settled, Question, Advance, Reached, NextAction
<1>5. DecidedSoundly'
  BY SMT DEF DecidedSoundly, WalkTypeOK, BehindIt, AheadOfIt, Settled, Question, Advance, Reached, NextAction, Answers
<1>6. ReceiptOnItsWay'
  BY SMT DEF ReceiptOnItsWay, WalkTypeOK, BehindIt, AheadOfIt, Settled, Question, Advance, Reached, NextAction, Answers
<1>7. UnsafeAlone'
  BY FlightFinite, SMT DEF UnsafeAlone, WalkTypeOK, BehindIt, AheadOfIt, Advance, FlightRoom
<1>8. AskedAlone'
  BY SMT DEF AskedAlone, WalkTypeOK, BehindIt, AheadOfIt, Advance, Reached, NextAction
<1>9. NoDeniedRuns'
  BY SMT DEF NoDeniedRuns, WalkTypeOK, BehindIt, AheadOfIt, Advance, DecidedSoundly
<1>10. ReceiptBeforeRun'
  BY SMT DEF ReceiptBeforeRun, WalkTypeOK, BehindIt, AheadOfIt, Advance, ReceiptOnItsWay
<1>. QED
  BY <1>1, <1>2, <1>3, <1>4, <1>5, <1>6, <1>7, <1>8, <1>9, <1>10

\* Admission keeps the walk sound.
LEMMA AdmitKeeps ==
  ASSUME WalkInv, NEW atOnce \in BOOLEAN, NEW status \in Ends, Admit(atOnce, status)
  PROVE  WalkInv'
<1>. USE RoundAssumption DEF WalkInv, Calls, Before, Undecided, AllSafe, AllowReceipt, Admit
<1>0. at \in Calls /\ outcomes \in Seq(Outcome) /\ <<at, version[at]>> \in Calls \X Nat
  BY SMT DEF WalkTypeOK
<1>z. ~cancelled /\ step = "admit" /\ at' = at + 1 /\ version' = version /\ denied' = denied /\ asked' = asked
      /\ receipt' = receipt /\ safe' = safe
  BY SMT DEF Advance
<1>a. /\ outcomes' \in Seq(Outcome)
      /\ \A j \in Landed(outcomes) : j \in Landed(outcomes')
      /\ at \in Landed(outcomes') \/ at \in flight'
  <2>1. [call |-> at, status |-> "denied"] \in Outcome /\ [call |-> at, status |-> status] \in Outcome
    BY <1>0, SMT DEF Outcome, Ends
  <2>2. CASE outcomes' = outcomes
    BY <2>2, <1>0, SMT
  <2>3. CASE outcomes' = Append(outcomes, [call |-> at, status |-> "denied"])
    BY <2>1, <2>3, <1>0, LandedAppend
  <2>4. CASE outcomes' = Append(outcomes, [call |-> at, status |-> status])
    BY <2>1, <2>4, <1>0, LandedAppend
  <2>. QED
    BY <2>2, <2>3, <2>4
<1>b. /\ flight' = flight \/ flight' = flight \cup {at}
      /\ ran' = ran \/ (decided.gate = "allowed" /\ ran' = ran \cup {<<at, version[at]>>})
      /\ flight' # flight => decided.gate = "allowed"
  BY SMT DEF DecidedSoundly, WalkTypeOK, Decided
<1>c. step' # "receipt" /\ step' # "ask" /\ step' # "recheck" /\ step' # "admit"
  BY SMT DEF Advance
<1>1. WalkTypeOK'
  <2>1. flight' \subseteq Calls /\ ran' \subseteq Calls \X Nat
    BY <1>0, <1>b DEF WalkTypeOK
  <2>2. at' \in 1..(N + 1) /\ (step' = "drain" \/ (step' = "reach" /\ at' \in Calls))
    BY <1>0, SMT DEF Advance
  <2>. QED
    BY <1>0, <1>a, <2>1, <2>2, SMTT(30) DEF WalkTypeOK
<1>2. BehindIt'
  <2>1. Before(at') = Before(at) \cup {at}
    BY <1>0, <1>z, SMT
  <2>2. flight' \subseteq Before(at')
    BY <1>b, <2>1 DEF BehindIt
  <2>3. \A r \in ran' : r[1] < at'
    BY <1>0, <1>b, <1>z, SMT DEF BehindIt, WalkTypeOK
  <2>4. \A i \in Before(at') : i \in flight' \/ i \in Landed(outcomes')
    BY <1>a, <1>b, <1>z, <2>1 DEF BehindIt
  <2>5. step' # "gather"
    BY SMT DEF Advance
  <2>. QED
    BY <2>2, <2>3, <2>4, <2>5 DEF BehindIt
<1>3. AheadOfIt'
  BY SMT DEF AheadOfIt, WalkTypeOK, BehindIt, Settled, Question, Advance
<1>4. FlightRoom'
  BY SMT DEF FlightRoom, WalkTypeOK, BehindIt, AheadOfIt, Settled, Question, Advance, Reached, NextAction
<1>5. DecidedSoundly'
  BY SMT DEF DecidedSoundly, WalkTypeOK, BehindIt, AheadOfIt, Settled, Question, Advance, Reached, NextAction, Answers
<1>6. ReceiptOnItsWay'
  BY SMT DEF ReceiptOnItsWay, WalkTypeOK, BehindIt, AheadOfIt, Settled, Question, Advance, Reached, NextAction, Answers
<1>7. UnsafeAlone'
  <2>1. /\ Cardinality(flight \cup {at}) \in Nat /\ Cardinality(flight) \in Nat
        /\ Cardinality(flight \cup {at}) <= Cardinality(flight) + 1
        /\ Cardinality({}) = 0
    BY <1>0, FlightFinite DEF WalkTypeOK
  <2>2. CASE flight' = flight
    BY <1>z, <2>2, SMT DEF UnsafeAlone
  <2>3. CASE flight' = flight \cup {at} /\ flight = {}
    <3>1. flight' = {at} /\ Cardinality(flight') <= 1
      BY <2>1, <2>3
    <3>. QED
      BY <3>1, <2>1, <2>3, SMT DEF UnsafeAlone
  <2>4. CASE flight' = flight \cup {at} /\ flight # {} /\ flight' # flight
    <3>1. at \in safe /\ flight \subseteq safe /\ Cardinality(flight) < MaxConcurrency
      BY <1>b, <1>z, <2>4, SMT DEF FlightRoom
    <3>. QED
      BY <3>1, <1>z, <2>1, <2>4, SMT DEF UnsafeAlone
  <2>. QED
    BY <1>b, <2>2, <2>3, <2>4
<1>8. AskedAlone'
  BY SMT DEF AskedAlone, WalkTypeOK, BehindIt, AheadOfIt, Advance, Reached, NextAction
<1>9. NoDeniedRuns'
  BY <1>b, <1>z, SMT DEF NoDeniedRuns, DecidedSoundly
<1>10. ReceiptBeforeRun'
  BY <1>b, <1>z, SMT DEF ReceiptBeforeRun, ReceiptOnItsWay
<1>. QED
  BY <1>1, <1>2, <1>3, <1>4, <1>5, <1>6, <1>7, <1>8, <1>9, <1>10

\* The end of the walk keeps the walk sound.
LEMMA FinishKeeps ==
  ASSUME WalkInv, Finish
  PROVE  WalkInv'
<1>. USE RoundAssumption DEF WalkInv, Calls, Before, Undecided, AllSafe, AllowReceipt, Finish
<1>1. WalkTypeOK'
  BY SMT DEF WalkTypeOK, Decided, Settled, Question, Receipts, Ends, Advance
<1>2. BehindIt'
  BY SMT DEF BehindIt, WalkTypeOK, AheadOfIt, Settled, Question, Advance
<1>3. AheadOfIt'
  BY SMT DEF AheadOfIt, WalkTypeOK, BehindIt, Settled, Question, Advance
<1>4. FlightRoom'
  BY SMT DEF FlightRoom, WalkTypeOK, BehindIt, AheadOfIt, Settled, Question, Advance, Reached, NextAction
<1>5. DecidedSoundly'
  BY SMT DEF DecidedSoundly, WalkTypeOK, BehindIt, AheadOfIt, Settled, Question, Advance, Reached, NextAction, Answers
<1>6. ReceiptOnItsWay'
  BY SMT DEF ReceiptOnItsWay, WalkTypeOK, BehindIt, AheadOfIt, Settled, Question, Advance, Reached, NextAction, Answers
<1>7. UnsafeAlone'
  BY FlightFinite, SMT DEF UnsafeAlone, WalkTypeOK, BehindIt, AheadOfIt, Advance, FlightRoom
<1>8. AskedAlone'
  BY SMT DEF AskedAlone, WalkTypeOK, BehindIt, AheadOfIt, Advance, Reached, NextAction
<1>9. NoDeniedRuns'
  BY SMT DEF NoDeniedRuns, WalkTypeOK, BehindIt, AheadOfIt, Advance, DecidedSoundly
<1>10. ReceiptBeforeRun'
  BY SMT DEF ReceiptBeforeRun, WalkTypeOK, BehindIt, AheadOfIt, Advance, ReceiptOnItsWay
<1>. QED
  BY <1>1, <1>2, <1>3, <1>4, <1>5, <1>6, <1>7, <1>8, <1>9, <1>10

\* A cancelled token keeps the walk sound.
LEMMA CancelKeeps ==
  ASSUME WalkInv, Cancel
  PROVE  WalkInv'
<1>. USE RoundAssumption DEF WalkInv, Calls, Before, Undecided, AllSafe, AllowReceipt, Cancel
<1>1. WalkTypeOK'
  <2>1. decided.receipt \in Receipts
    BY SMT DEF WalkTypeOK, Decided
  <2>2. receipt' \in [Calls -> Receipts]
    BY <2>1, SMT DEF WalkTypeOK
  <2>. QED
    BY <2>2, SMT DEF WalkTypeOK
<1>2. BehindIt'
  BY SMT DEF BehindIt, WalkTypeOK, AheadOfIt, Settled, Question, Advance
<1>3. AheadOfIt'
  BY SMT DEF AheadOfIt, WalkTypeOK, BehindIt, Settled, Question, Advance
<1>4. FlightRoom'
  BY SMT DEF FlightRoom, WalkTypeOK, BehindIt, AheadOfIt, Settled, Question, Advance, Reached, NextAction
<1>5. DecidedSoundly'
  BY SMT DEF DecidedSoundly, WalkTypeOK, BehindIt, AheadOfIt, Settled, Question, Advance, Reached, NextAction, Answers
<1>6. ReceiptOnItsWay'
  BY SMT DEF ReceiptOnItsWay, WalkTypeOK, BehindIt, AheadOfIt, Settled, Question, Advance, Reached, NextAction, Answers
<1>7. UnsafeAlone'
  BY FlightFinite, SMT DEF UnsafeAlone, WalkTypeOK, BehindIt, AheadOfIt, Advance, FlightRoom
<1>8. AskedAlone'
  BY SMT DEF AskedAlone, WalkTypeOK, BehindIt, AheadOfIt, Advance, Reached, NextAction
<1>9. NoDeniedRuns'
  BY SMT DEF NoDeniedRuns, WalkTypeOK, BehindIt, AheadOfIt, Advance, DecidedSoundly
<1>10. ReceiptBeforeRun'
  BY SMT DEF ReceiptBeforeRun, WalkTypeOK, BehindIt, AheadOfIt, Advance, ReceiptOnItsWay
<1>. QED
  BY <1>1, <1>2, <1>3, <1>4, <1>5, <1>6, <1>7, <1>8, <1>9, <1>10

\* A step that changes nothing keeps the walk sound.
LEMMA RoundStutters ==
  ASSUME WalkInv, UNCHANGED vars
  PROVE  WalkInv'
BY DEF WalkInv, vars, WalkTypeOK, BehindIt, AheadOfIt, FlightRoom, DecidedSoundly,
  ReceiptOnItsWay, UnsafeAlone, AskedAlone, NoDeniedRuns, ReceiptBeforeRun, AllSafe,
  AllowReceipt, Calls, Before

\* WalkInv is inductive: one case per action of the walk, the two that come
\* from beside it, and stuttering.
LEMMA RoundInvariance == Spec => []WalkInv
<1>1. WalkInv /\ [Next]_vars => WalkInv'
  <2>. SUFFICES ASSUME WalkInv, [Next]_vars PROVE WalkInv'
    OBVIOUS
  <2>1. CASE Gather
    BY <2>1, GatherKeeps
  <2>2. CASE Reach
    BY <2>2, ReachKeeps
  <2>3. CASE \E i \in flight, status \in Ends : Land(i, status)
    BY <2>3, LandKeeps
  <2>4. CASE \E gate \in {"allowed", "denied", "ask"}, isSafe \in BOOLEAN : Decide(gate, isSafe)
    BY <2>4, DecideKeeps
  <2>5. CASE Settle
    BY <2>5, SettleKeeps
  <2>6. CASE \E answer \in {"allow", "deny"} : Answer(answer)
    BY <2>6, AnswerKeeps
  <2>7. CASE AskClosed
    BY <2>7, AskClosedKeeps
  <2>8. CASE AnswerChanged
    BY <2>8, AnswerChangedKeeps
  <2>9. CASE \E gate \in {"allowed", "denied", "ask", "failed"}, isSafe \in BOOLEAN :
               Recheck(gate, isSafe)
    BY <2>9, RecheckKeeps
  <2>10. CASE RecordReceipt
    BY <2>10, RecordReceiptKeeps
  <2>11. CASE ReceiptFailed
    BY <2>11, ReceiptFailedKeeps
  <2>12. CASE \E atOnce \in BOOLEAN, status \in Ends : Admit(atOnce, status)
    BY <2>12, AdmitKeeps
  <2>13. CASE Finish
    BY <2>13, FinishKeeps
  <2>14. CASE Cancel
    BY <2>14, CancelKeeps
  <2>15. CASE Over \/ UNCHANGED vars
    BY <2>15, RoundStutters DEF Over
  <2>. QED
    BY <2>1, <2>2, <2>3, <2>4, <2>5, <2>6, <2>7, <2>8, <2>9, <2>10, <2>11, <2>12, <2>13,
       <2>14, <2>15 DEF Next, Walk
<1>. QED
  BY <1>1, RoundInit, PTL DEF Spec

\* A call that is not concurrency safe is alone in flight, and no more than
\* MAX_CONCURRENCY calls are, for any number of calls (round.rs next,
\* turn/round.rs walk_calls).
THEOREM UnsafeRunsAlone == Spec => []UnsafeAlone
<1>1. WalkInv => UnsafeAlone
  BY DEF WalkInv
<1>. QED
  BY <1>1, RoundInvariance, PTL

\* Nothing is in flight while a person is asked and until the receipt is in
\* the journal, which is what record_receipt's comment rests on.
THEOREM AskingAlone == Spec => []AskedAlone
<1>1. WalkInv => AskedAlone
  BY DEF WalkInv
<1>. QED
  BY <1>1, RoundInvariance, PTL

\* However often an input is rewritten, one that was denied is never run
\* (gate.rs ask, gate/prompt.rs answers).
THEOREM DeniedNeverRuns == Spec => []NoDeniedRuns
<1>1. WalkInv => NoDeniedRuns
  BY DEF WalkInv
<1>. QED
  BY <1>1, RoundInvariance, PTL

\* A call a person was asked about starts after its receipt is recorded, and
\* the receipt says whether the input is the model's (turn/round.rs admit).
THEOREM ReceiptsFirst == Spec => []ReceiptBeforeRun
<1>1. WalkInv => ReceiptBeforeRun
  BY DEF WalkInv
<1>. QED
  BY <1>1, RoundInvariance, PTL

\* Decisions and starts keep the model's order around every call that is not
\* concurrency safe (turn/round.rs walk_calls).
THEOREM KeepsOrder == Spec => SerialUnsafe
<1>. DEFINE Done(i) == i \in Landed(outcomes)
            Ordered == /\ step = "decide" /\ step' = "settle" =>
                            \A i \in 1..(at - 1) : i \in safe \/ Done(i)
                       /\ \A r \in ran' \ ran : \A i \in 1..(r[1] - 1) :
                            {i, r[1]} \subseteq safe \/ Done(i)
<1>1. ASSUME WalkInv, [Next]_vars PROVE [Ordered]_vars
  <2>1. at \in 1..(N + 1) /\ N \in Nat
    BY <1>1, RoundAssumption DEF WalkInv, WalkTypeOK
  <2>2. ASSUME step # "over", NEW i \in 1..(at - 1)
        PROVE  i \in flight \/ Done(i)
    BY <1>1, <2>1, <2>2 DEF WalkInv, BehindIt, Before, Calls
  <2>3. step = "decide" => \A i \in 1..(at - 1) : i \in safe \/ Done(i)
    BY <1>1, <2>2 DEF WalkInv, FlightRoom, AllSafe
  <2>4. ASSUME NEW r \in ran' \ ran, NEW i \in 1..(r[1] - 1)
        PROVE  {i, r[1]} \subseteq safe \/ Done(i)
    <3>1. PICK atOnce \in BOOLEAN, status \in Ends : Admit(atOnce, status)
      BY <1>1, <2>4 DEF Next, Walk, Gather, Reach, Land, Decide, Settle, Answer, AskClosed,
        AnswerChanged, Recheck, RecordReceipt, ReceiptFailed, Finish, Cancel, Over, vars
    <3>2. step = "admit" /\ decided.gate # "denied" /\ r = <<at, version[at]>>
      BY <2>4, <3>1 DEF Admit
    <3>3. decided.gate = "allowed"
      BY <1>1, <3>2 DEF WalkInv, WalkTypeOK, Decided, DecidedSoundly
    <3>4. i \in flight \/ Done(i)
      BY <2>2, <2>4, <3>2
    <3>5. flight # {} => at \in safe /\ flight \subseteq safe
      BY <1>1, <3>2, <3>3 DEF WalkInv, FlightRoom, AllSafe
    <3>. QED
      BY <3>2, <3>4, <3>5
  <2>. QED
    BY <2>3, <2>4
<1>2. [][Ordered]_vars => SerialUnsafe
  BY PTL DEF SerialUnsafe
<1>. QED
  BY <1>1, <1>2, RoundInvariance, PTL DEF Spec

-----------------------------------------------------------------------------
(* What the model hears when the round is over. *)

\* No call has two outcomes.
Once(out) == \A j, k \in DOMAIN out : out[j].call = out[k].call => j = k

\* An outcome tells the truth about what ran, and on which input.
Honest(o, runs, inputs) ==
  /\ o.status = "denied" => \A r \in runs : r[1] # o.call
  /\ o.status = "ended" => <<o.call, inputs[o.call]>> \in runs

\* What landed did so once, behind the walk, and as it happened; what is in flight
\* runs on its last input.
Told ==
  /\ \A i \in flight : <<i, version[i]>> \in ran
  /\ step # "over" =>
       /\ Once(outcomes)
       /\ \A k \in DOMAIN outcomes :
            outcomes[k].call < at /\ outcomes[k].call \notin flight /\ Honest(outcomes[k], ran, version)
  /\ step = "over" => outcomes \in Seq(Outcome)
  /\ OneOutcomeEach

\* Every call of a set is interrupted once.
LEMMA InterruptedIs ==
  ASSUME NEW S \in SUBSET Calls
  PROVE  /\ Interrupted(S) \in Seq(Outcome) /\ Once(Interrupted(S)) /\ Landed(Interrupted(S)) = S
         /\ \A k \in DOMAIN Interrupted(S) : Interrupted(S)[k].status = "interrupted"
<1>. DEFINE calls == SetToSeq(S)
            n == Cardinality(S)
<1>1. IsFiniteSet(S) /\ n \in Nat /\ ExistsBijection(1..n, S)
  BY FlightFinite, FS_CardinalityType
<1>2. calls \in [1..n -> S] /\ IsInjective(calls)
  <2>1. \E f \in [1..n -> S] : IsInjective(f)
    BY <1>1 DEF ExistsBijection, Bijection, Injection
  <2>. QED
    BY <2>1 DEF SetToSeq
<1>3. \A i \in S : \E k \in 1..n : calls[k] = i
  <2>1. calls \in Injection(1..n, S)
    BY <1>2 DEF Injection
  <2>2. Cardinality(1..n) = n
    BY <1>1, FS_Interval
  <2>3. calls \in Surjection(1..n, S)
    <3>. HIDE DEF calls, n
    <3>1. Cardinality(1..n) = Cardinality(S)
      BY <2>2 DEF n
    <3>. QED
      BY <1>1, <2>1, <3>1, FS_Injection
  <2>. QED
    BY <2>3 DEF Surjection
<1>. HIDE DEF calls, n
<1>4. calls \in Seq(S) /\ Len(calls) = n
  BY <1>1, <1>2
<1>5. Interrupted(S) = [k \in 1..n |-> [call |-> calls[k], status |-> "interrupted"]]
  BY <1>4 DEF Interrupted, calls
<1>6. \A k \in 1..n : [call |-> calls[k], status |-> "interrupted"] \in Outcome
  BY <1>2 DEF Outcome, Ends
<1>7. Interrupted(S) \in Seq(Outcome) /\ DOMAIN Interrupted(S) = 1..n
  BY <1>1, <1>5, <1>6
<1>8. Once(Interrupted(S))
  BY <1>2, <1>5 DEF Once, IsInjective
<1>9. Landed(Interrupted(S)) = S
  BY <1>2, <1>3, <1>5 DEF Landed
<1>. QED
  BY <1>5, <1>7, <1>8, <1>9

\* Outcomes of different calls, one list after the other.
LEMMA Joined ==
  ASSUME NEW a \in Seq(Outcome), NEW b \in Seq(Outcome), Once(a), Once(b), Landed(a) \cap Landed(b) = {}
  PROVE  /\ a \o b \in Seq(Outcome) /\ Once(a \o b) /\ Landed(a \o b) = Landed(a) \cup Landed(b)
         /\ \A k \in DOMAIN (a \o b) : \/ \E j \in DOMAIN a : (a \o b)[k] = a[j]
                                       \/ \E j \in DOMAIN b : (a \o b)[k] = b[j]
<1>. DEFINE c == a \o b
<1>1. /\ Len(a) \in Nat /\ Len(b) \in Nat /\ DOMAIN a = 1..Len(a) /\ DOMAIN b = 1..Len(b)
      /\ c \in Seq(Outcome) /\ DOMAIN c = 1..(Len(a) + Len(b))
      /\ \A k \in 1..(Len(a) + Len(b)) : c[k] = IF k <= Len(a) THEN a[k] ELSE b[k - Len(a)]
  BY LenProperties, ConcatProperties
<1>. HIDE DEF c
<1>2. \A k \in DOMAIN c : \/ k \in DOMAIN a /\ c[k] = a[k]
                          \/ k - Len(a) \in DOMAIN b /\ c[k] = b[k - Len(a)]
  BY <1>1
<1>3. /\ \A k \in DOMAIN a : k \in DOMAIN c /\ c[k] = a[k]
      /\ \A k \in DOMAIN b : k + Len(a) \in DOMAIN c /\ c[k + Len(a)] = b[k]
  BY <1>1
<1>4. Landed(c) = Landed(a) \cup Landed(b)
  BY <1>2, <1>3 DEF Landed
<1>5. Once(c)
  <2>. SUFFICES ASSUME NEW j \in DOMAIN c, NEW k \in DOMAIN c, c[j].call = c[k].call
                PROVE  j = k
    BY DEF Once
  <2>1. CASE j \in DOMAIN a /\ c[j] = a[j] /\ k \in DOMAIN a /\ c[k] = a[k]
    BY <2>1 DEF Once
  <2>2. CASE /\ j - Len(a) \in DOMAIN b /\ c[j] = b[j - Len(a)]
             /\ k - Len(a) \in DOMAIN b /\ c[k] = b[k - Len(a)]
    BY <1>1, <2>2 DEF Once
  <2>3. ASSUME NEW x \in DOMAIN a, NEW y \in DOMAIN b, a[x].call = b[y].call
        PROVE  FALSE
    BY <2>3 DEF Landed
  <2>. QED
    BY <1>2, <2>1, <2>2, <2>3
<1>. QED
  BY <1>1, <1>2, <1>4, <1>5 DEF c

\* One outcome for each call: the sort puts each at its call.
LEMMA OrderIs ==
  ASSUME NEW out \in Seq(Outcome), Once(out), Landed(out) = Calls
  PROVE  /\ InCallOrder(out) \in Seq(Outcome) /\ DOMAIN InCallOrder(out) = Calls
         /\ \A k \in Calls : /\ InCallOrder(out)[k].call = k
                             /\ \E j \in DOMAIN out : InCallOrder(out)[k] = out[j]
<1>1. Len(out) \in Nat /\ DOMAIN out = 1..Len(out) /\ \A j \in DOMAIN out : out[j] \in Outcome /\ out[j].call \in Calls
  <2>1. Len(out) \in Nat /\ DOMAIN out = 1..Len(out) /\ \A j \in DOMAIN out : out[j] \in Outcome
    BY LenProperties
  <2>. QED
    BY <2>1 DEF Outcome
<1>2. \A i \in Calls : \E j \in DOMAIN out : out[j].call = i
  BY DEF Landed
<1>. DEFINE Upto(c) == {j \in DOMAIN out : out[j].call <= c}
<1>3. ASSUME NEW c \in 0..N
      PROVE  Cardinality(Upto(c)) = c
  <2>. DEFINE spot(i) == CHOOSE j \in DOMAIN out : out[j].call = i
              f == [i \in 1..c |-> spot(i)]
  <2>1. c \in Nat /\ \A i \in 1..c : i \in Calls
    BY RoundAssumption DEF Calls
  <2>2. \A i \in 1..c : spot(i) \in DOMAIN out /\ out[spot(i)].call = i
    BY <1>2, <2>1
  <2>. HIDE DEF spot
  <2>3. f \in [1..c -> Upto(c)]
    BY <2>1, <2>2
  <2>4. IsInjective(f)
    BY <2>2 DEF IsInjective
  <2>5. ASSUME NEW j \in Upto(c)
        PROVE  \E i \in 1..c : f[i] = j
    <3>1. out[j].call \in 1..c
      BY <1>1, <2>1, RoundAssumption DEF Calls
    <3>2. spot(out[j].call) = j
      BY <2>2, <3>1 DEF Once
    <3>. QED
      BY <3>1, <3>2
  <2>6. f \in Bijection(1..c, Upto(c))
    BY <2>3, <2>4, <2>5 DEF Bijection, Injection, Surjection
  <2>7. ExistsBijection(1..c, Upto(c))
    BY <2>6 DEF ExistsBijection
  <2>. QED
    <3>. HIDE DEF f, Upto
    <3>. QED
      BY <2>1, <2>7, FS_CountingElements
<1>4. Len(out) = N
  <2>1. Upto(N) = 1..Len(out)
    BY <1>1, RoundAssumption DEF Calls
  <2>2. Cardinality(1..Len(out)) = Len(out)
    BY <1>1, FS_Interval
  <2>. QED
    BY <1>3, <2>1, <2>2, RoundAssumption
<1>5. ASSUME NEW j \in DOMAIN out
      PROVE  Place(out, j) = out[j].call
  <2>1. out[j].call \in 0..N /\ out[j].call \in Nat
    BY <1>1, RoundAssumption DEF Calls
  <2>2. {i \in DOMAIN out : out[i].call < out[j].call \/ (out[i].call = out[j].call /\ i <= j)} = Upto(out[j].call)
    BY <1>1, <2>1 DEF Once, Calls
  <2>. QED
    BY <1>3, <2>1, <2>2 DEF Place
<1>. DEFINE who(k) == CHOOSE j \in DOMAIN out : Place(out, j) = k
<1>6. \A k \in Calls : who(k) \in DOMAIN out /\ out[who(k)].call = k
  BY <1>2, <1>5
<1>7. InCallOrder(out) = [k \in Calls |-> out[who(k)]]
  BY <1>1, <1>4 DEF InCallOrder, Calls
<1>. HIDE DEF who
<1>8. InCallOrder(out) \in Seq(Outcome)
  <2>1. InCallOrder(out) \in [1..N -> Outcome]
    BY <1>1, <1>6, <1>7 DEF Calls
  <2>. QED
    BY <2>1, RoundAssumption
<1>. QED
  BY <1>6, <1>7, <1>8

\* A step that neither starts nor lands a call.
LEMMA ToldKept ==
  ASSUME WalkInv, Told, step # "over", step' # "over", at' = at, UNCHANGED <<flight, ran, outcomes>>,
         \A i \in Calls : i # at => version'[i] = version[i]
  PROVE  Told'
<1>1. flight \subseteq Before(at) /\ outcomes \in Seq(Outcome) /\ at \in Nat
  BY RoundAssumption DEF WalkInv, BehindIt, WalkTypeOK
<1>2. \A k \in DOMAIN outcomes : outcomes[k].call \in Calls
  <2>1. \A k \in DOMAIN outcomes : outcomes[k] \in Outcome
    BY <1>1, LenProperties
  <2>. QED
    BY <2>1 DEF Outcome
<1>3. \A i \in Calls : i < at => version'[i] = version[i]
  BY <1>1, RoundAssumption DEF Calls
<1>4. \A i \in flight' : <<i, version'[i]>> \in ran'
  BY <1>1, <1>3 DEF Told, Before
<1>5. \A k \in DOMAIN outcomes : Honest(outcomes[k], ran', version')
  BY <1>2, <1>3 DEF Told, Honest
<1>. QED
  BY <1>4, <1>5 DEF Told, Once, OneOutcomeEach

\* A call lands once: it was in flight, and what is in flight has not landed.
LEMMA ToldLand ==
  ASSUME WalkInv, Told, NEW i \in flight, NEW status \in Ends, Land(i, status)
  PROVE  Told'
<1>. DEFINE o == [call |-> i, status |-> status]
<1>1. /\ flight \subseteq Before(at) /\ step # "over" /\ i \in Calls /\ i < at
      /\ outcomes' = Append(outcomes, o) /\ flight' = flight \ {i}
      /\ UNCHANGED <<at, step, version, ran>>
  <2>1. flight \subseteq Before(at) /\ i \in Calls /\ i < at
    BY DEF WalkInv, BehindIt, Before
  <2>. QED
    BY <2>1 DEF Land
<1>2. outcomes \in Seq(Outcome) /\ o \in Outcome
  BY <1>1 DEF WalkInv, WalkTypeOK, Outcome, Ends
<1>3. /\ Len(outcomes) \in Nat /\ DOMAIN outcomes = 1..Len(outcomes) /\ DOMAIN outcomes' = 1..(Len(outcomes) + 1)
      /\ \A k \in 1..Len(outcomes) : outcomes'[k] = outcomes[k]
      /\ outcomes'[Len(outcomes) + 1] = o
  BY <1>1, <1>2, AppendProperties, LenProperties
<1>4. o.call = i /\ o.status # "denied" /\ <<i, version[i]>> \in ran
  BY DEF Told, Ends
<1>. HIDE DEF o
<1>5. \A k \in DOMAIN outcomes' : \/ k \in DOMAIN outcomes /\ outcomes'[k] = outcomes[k]
                                  \/ k = Len(outcomes) + 1 /\ outcomes'[k] = o
  BY <1>3
<1>6. \A k \in DOMAIN outcomes' :
        outcomes'[k].call < at' /\ outcomes'[k].call \notin flight' /\ Honest(outcomes'[k], ran', version')
  BY <1>1, <1>4, <1>5 DEF Told, Honest
<1>7. Once(outcomes')
  BY <1>1, <1>4, <1>5 DEF Told, Once
<1>8. \A j \in flight' : <<j, version'[j]>> \in ran'
  BY <1>1 DEF Told
<1>. QED
  BY <1>1, <1>6, <1>7, <1>8 DEF Told, Once, OneOutcomeEach

\* An admitted call joins the flight or lands; nothing of it has landed before.
LEMMA ToldAdmit ==
  ASSUME WalkInv, Told, NEW atOnce \in BOOLEAN, NEW status \in Ends, Admit(atOnce, status)
  PROVE  Told'
<1>1. /\ flight \subseteq Before(at) /\ step # "over" /\ step' # "over" /\ at \in Calls /\ at \in Nat /\ at' = at + 1
      /\ UNCHANGED version /\ \A r \in ran : r[1] < at
  <2>1. flight \subseteq Before(at) /\ \A r \in ran : r[1] < at
    BY DEF WalkInv, BehindIt
  <2>2. step = "admit" /\ at' = at + 1 /\ step' # "over" /\ UNCHANGED version
    BY DEF Admit, Advance
  <2>3. at \in Calls
    BY <2>2 DEF WalkInv, WalkTypeOK
  <2>. QED
    BY <2>1, <2>2, <2>3, RoundAssumption DEF Calls
<1>2. outcomes \in Seq(Outcome) /\ ran \subseteq Calls \X Nat
  BY <1>1 DEF WalkInv, WalkTypeOK
<1>3. \A i \in Calls : i < at => i < at' /\ i # at
  BY <1>1, RoundAssumption DEF Calls
<1>4. \A k \in DOMAIN outcomes : outcomes[k] \in Outcome /\ outcomes[k].call \in Calls
  <2>1. \A k \in DOMAIN outcomes : outcomes[k] \in Outcome
    BY <1>2, LenProperties
  <2>. QED
    BY <2>1 DEF Outcome
<1>5. /\ ran \subseteq ran' /\ ran' \subseteq ran \cup {<<at, version[at]>>} /\ flight' \subseteq flight \cup {at}
      /\ at \in flight' => <<at, version[at]>> \in ran'
      /\ \/ outcomes' = outcomes
         \/ /\ outcomes' = Append(outcomes, [call |-> at, status |-> "denied"]) /\ flight' = flight /\ ran' = ran
         \/ /\ outcomes' = Append(outcomes, [call |-> at, status |-> status]) /\ flight' = flight
            /\ <<at, version[at]>> \in ran'
  <2>1. at \notin flight
    BY <1>1 DEF Before
  <2>. QED
    BY <2>1 DEF Admit
<1>6. \A i \in flight' : <<i, version'[i]>> \in ran'
  BY <1>1, <1>5 DEF Told
<1>7. \A k \in DOMAIN outcomes :
        outcomes[k].call < at' /\ outcomes[k].call \notin flight' /\ Honest(outcomes[k], ran', version')
  <2>. SUFFICES ASSUME NEW k \in DOMAIN outcomes
                PROVE  outcomes[k].call < at' /\ outcomes[k].call \notin flight' /\ Honest(outcomes[k], ran', version')
    OBVIOUS
  <2>1. outcomes[k].call \in Calls /\ outcomes[k].call < at /\ outcomes[k].call \notin flight /\ Honest(outcomes[k], ran, version)
    BY <1>1, <1>4 DEF Told
  <2>2. outcomes[k].call < at' /\ outcomes[k].call # at
    BY <1>3, <2>1
  <2>3. Honest(outcomes[k], ran', version')
    BY <1>1, <1>5, <2>1, <2>2 DEF Honest
  <2>. QED
    BY <1>5, <2>1, <2>2, <2>3
<1>8. CASE outcomes' = outcomes
  BY <1>1, <1>6, <1>7, <1>8 DEF Told, Once, OneOutcomeEach
<1>9. ASSUME NEW o \in Outcome, outcomes' = Append(outcomes, o), o.call = at, flight' = flight, Honest(o, ran', version')
      PROVE  Told'
  <2>1. /\ Len(outcomes) \in Nat /\ DOMAIN outcomes = 1..Len(outcomes) /\ DOMAIN outcomes' = 1..(Len(outcomes) + 1)
        /\ \A k \in 1..Len(outcomes) : outcomes'[k] = outcomes[k]
        /\ outcomes'[Len(outcomes) + 1] = o
    BY <1>2, <1>9, AppendProperties, LenProperties
  <2>2. \A k \in DOMAIN outcomes' : \/ k \in DOMAIN outcomes /\ outcomes'[k] = outcomes[k]
                                    \/ k = Len(outcomes) + 1 /\ outcomes'[k] = o
    BY <2>1
  <2>3. at < at' /\ at \notin flight'
    BY <1>1, <1>9 DEF Before
  <2>4. \A k \in DOMAIN outcomes' :
          outcomes'[k].call < at' /\ outcomes'[k].call \notin flight' /\ Honest(outcomes'[k], ran', version')
    <3>. SUFFICES ASSUME NEW k \in DOMAIN outcomes'
                  PROVE  outcomes'[k].call < at' /\ outcomes'[k].call \notin flight' /\ Honest(outcomes'[k], ran', version')
      OBVIOUS
    <3>1. CASE k \in DOMAIN outcomes /\ outcomes'[k] = outcomes[k]
      BY <1>7, <3>1 DEF Honest
    <3>2. CASE outcomes'[k] = o
      BY <1>9, <2>3, <3>2 DEF Honest
    <3>. QED
      BY <2>2, <3>1, <3>2
  <2>5. \A k \in DOMAIN outcomes : outcomes[k].call # at
    BY <1>1, <1>3, <1>4 DEF Told
  <2>6. Once(outcomes')
    BY <1>1, <1>9, <2>2, <2>5 DEF Told, Once
  <2>. QED
    BY <1>1, <1>6, <2>4, <2>6 DEF Told, Once, OneOutcomeEach
<1>10. CASE outcomes' = Append(outcomes, [call |-> at, status |-> "denied"]) /\ flight' = flight /\ ran' = ran
  <2>. DEFINE o == [call |-> at, status |-> "denied"]
  <2>1. o \in Outcome /\ o.call = at /\ o.status = "denied"
    BY <1>1 DEF Outcome, Ends
  <2>2. \A r \in ran : r[1] # at
    BY <1>1
  <2>. HIDE DEF o
  <2>3. Honest(o, ran', version')
    BY <1>10, <2>1, <2>2 DEF Honest
  <2>4. outcomes' = Append(outcomes, o)
    BY <1>10 DEF o
  <2>5. ASSUME NEW x \in Outcome, x = o
        PROVE  Told'
    BY <1>9, <1>10, <2>1, <2>3, <2>4, <2>5 DEF Honest
  <2>. QED
    BY <2>1, <2>5
<1>11. CASE outcomes' = Append(outcomes, [call |-> at, status |-> status]) /\ flight' = flight /\ <<at, version[at]>> \in ran'
  <2>. DEFINE o == [call |-> at, status |-> status]
  <2>1. o \in Outcome /\ o.call = at /\ o.status # "denied"
    BY <1>1 DEF Outcome, Ends
  <2>. HIDE DEF o
  <2>3. Honest(o, ran', version')
    BY <1>1, <1>11, <2>1 DEF Honest
  <2>4. outcomes' = Append(outcomes, o)
    BY <1>11 DEF o
  <2>5. ASSUME NEW x \in Outcome, x = o
        PROVE  Told'
    BY <1>9, <1>11, <2>1, <2>3, <2>4, <2>5 DEF Honest
  <2>. QED
    BY <2>1, <2>5
<1>. QED
  BY <1>5, <1>8, <1>10, <1>11

\* The round ends: what is in flight and what was never admitted is interrupted, and
\* the outcomes are sorted.
LEMMA ToldFinish ==
  ASSUME WalkInv, Told, Finish
  PROVE  Told'
<1>1. /\ step # "over" /\ step' = "over" /\ flight' = {} /\ outcomes' = InCallOrder(Close)
      /\ UNCHANGED <<ran, version>>
  BY DEF Finish
<1>2. outcomes \in Seq(Outcome) /\ flight \subseteq Calls
  BY <1>1 DEF WalkInv, WalkTypeOK
<1>3. Once(outcomes) /\ \A k \in DOMAIN outcomes : /\ outcomes[k].call \notin flight
                                                  /\ Honest(outcomes[k], ran, version)
  BY <1>1 DEF Told
<1>. DEFINE F == IF cancelled THEN flight ELSE {}
            dropped == outcomes \o Interrupted(F)
            R == Calls \ Landed(dropped)
<1>4. /\ F \subseteq Calls /\ Landed(outcomes) \cap F = {}
  BY <1>2, <1>3 DEF Landed
<1>. HIDE DEF F
<1>5. /\ Interrupted(F) \in Seq(Outcome) /\ Once(Interrupted(F)) /\ Landed(Interrupted(F)) = F
      /\ \A k \in DOMAIN Interrupted(F) : Interrupted(F)[k].status = "interrupted"
  BY <1>4, InterruptedIs
<1>6. /\ dropped \in Seq(Outcome) /\ Once(dropped)
      /\ \A k \in DOMAIN dropped : \/ \E j \in DOMAIN outcomes : dropped[k] = outcomes[j]
                                   \/ \E j \in DOMAIN Interrupted(F) : dropped[k] = Interrupted(F)[j]
  BY <1>2, <1>3, <1>4, <1>5, Joined
<1>7. \A k \in DOMAIN dropped : Honest(dropped[k], ran, version)
  <2>1. \A o : o.status = "interrupted" => Honest(o, ran, version)
    BY DEF Honest
  <2>. HIDE DEF dropped
  <2>. QED
    BY <1>3, <1>5, <1>6, <2>1
<1>8. Close = dropped \o Interrupted(R)
  BY DEF Close, F
<1>9. Landed(dropped) \subseteq Calls
  <2>. HIDE DEF dropped
  <2>1. \A k \in DOMAIN dropped : dropped[k] \in Outcome
    BY <1>6, LenProperties
  <2>. QED
    BY <2>1 DEF Landed, Outcome
<1>. HIDE DEF dropped
<1>10. R \subseteq Calls /\ Landed(dropped) \cap R = {} /\ Landed(dropped) \cup R = Calls
  BY <1>9
<1>. HIDE DEF R
<1>11. /\ Interrupted(R) \in Seq(Outcome) /\ Once(Interrupted(R)) /\ Landed(Interrupted(R)) = R
       /\ \A k \in DOMAIN Interrupted(R) : Interrupted(R)[k].status = "interrupted"
  BY <1>10, InterruptedIs
<1>12. /\ Close \in Seq(Outcome) /\ Once(Close) /\ Landed(Close) = Calls
       /\ \A k \in DOMAIN Close : \/ \E j \in DOMAIN dropped : Close[k] = dropped[j]
                                  \/ \E j \in DOMAIN Interrupted(R) : Close[k] = Interrupted(R)[j]
  <2>. DEFINE joined == dropped \o Interrupted(R)
  <2>1. /\ joined \in Seq(Outcome) /\ Once(joined) /\ Landed(joined) = Landed(dropped) \cup Landed(Interrupted(R))
        /\ \A k \in DOMAIN joined : \/ \E j \in DOMAIN dropped : joined[k] = dropped[j]
                                    \/ \E j \in DOMAIN Interrupted(R) : joined[k] = Interrupted(R)[j]
    BY <1>6, <1>10, <1>11, Joined
  <2>2. joined = Close
    BY <1>8
  <2>. HIDE DEF joined
  <2>. QED
    BY <1>10, <1>11, <2>1, <2>2
<1>13. \A k \in DOMAIN Close : Honest(Close[k], ran, version)
  <2>1. \A o : o.status = "interrupted" => Honest(o, ran, version)
    BY DEF Honest
  <2>. QED
    BY <1>7, <1>11, <1>12, <2>1
<1>14. /\ outcomes' \in Seq(Outcome) /\ DOMAIN outcomes' = Calls
       /\ \A k \in Calls : /\ outcomes'[k].call = k
                           /\ \E j \in DOMAIN Close : outcomes'[k] = Close[j]
  <2>1. ASSUME NEW out \in Seq(Outcome), out = Close
        PROVE  /\ InCallOrder(out) \in Seq(Outcome) /\ DOMAIN InCallOrder(out) = Calls
               /\ \A k \in Calls : /\ InCallOrder(out)[k].call = k
                                   /\ \E j \in DOMAIN out : InCallOrder(out)[k] = out[j]
    BY <1>12, <2>1, OrderIs
  <2>. QED
    BY <1>1, <1>12, <2>1
<1>15. \A k \in Calls : Honest(outcomes'[k], ran, version) /\ outcomes'[k].call = k
  BY <1>13, <1>14
<1>16. \A k \in DOMAIN outcomes' :
         CASE outcomes'[k].status = "denied" -> \A r \in ran' : r[1] # k
           [] outcomes'[k].status = "ended" -> <<k, version'[k]>> \in ran'
           [] OTHER -> TRUE
  BY <1>1, <1>14, <1>15 DEF Honest
<1>17. [k \in DOMAIN outcomes' |-> outcomes'[k].call] = [k \in Calls |-> k]
  BY <1>14
<1>18. OneOutcomeEach'
  BY <1>16, <1>17 DEF OneOutcomeEach
<1>. QED
  BY <1>1, <1>14, <1>18 DEF Told

\* Told is kept by every step.
LEMMA ToldStep ==
  ASSUME WalkInv, WalkInv', Told, [Next]_vars
  PROVE  Told'
<1>1. CASE Over \/ UNCHANGED vars
  BY <1>1 DEF Over, vars, Told, Once, Honest, OneOutcomeEach
<1>2. CASE Gather \/ Reach \/ Settle \/ AskClosed \/ RecordReceipt \/ ReceiptFailed \/ Cancel
  <2>1. step # "over" /\ step' # "over" /\ at' = at /\ UNCHANGED <<flight, ran, outcomes, version>>
    BY <1>2 DEF Gather, Reach, Settle, AskClosed, RecordReceipt, ReceiptFailed, Cancel
  <2>. QED
    BY <2>1, ToldKept
<1>3. CASE \E gate \in {"allowed", "denied", "ask"}, isSafe \in BOOLEAN : Decide(gate, isSafe)
  <2>1. step # "over" /\ step' # "over" /\ at' = at /\ UNCHANGED <<flight, ran, outcomes, version>>
    BY <1>3 DEF Decide
  <2>. QED
    BY <2>1, ToldKept
<1>4. CASE \E answer \in {"allow", "deny"} : Answer(answer)
  <2>1. step # "over" /\ step' # "over" /\ at' = at /\ UNCHANGED <<flight, ran, outcomes, version>>
    BY <1>4 DEF Answer
  <2>. QED
    BY <2>1, ToldKept
<1>5. CASE \E gate \in {"allowed", "denied", "ask", "failed"}, isSafe \in BOOLEAN : Recheck(gate, isSafe)
  <2>1. step # "over" /\ step' # "over" /\ at' = at /\ UNCHANGED <<flight, ran, outcomes, version>>
    BY <1>5 DEF Recheck
  <2>. QED
    BY <2>1, ToldKept
<1>6. CASE AnswerChanged
  <2>1. step # "over" /\ step' # "over" /\ at' = at /\ UNCHANGED <<flight, ran, outcomes>>
    BY <1>6 DEF AnswerChanged
  <2>2. \A i \in Calls : i # at => version'[i] = version[i]
    BY <1>6 DEF AnswerChanged, WalkInv, WalkTypeOK
  <2>. QED
    BY <2>1, <2>2, ToldKept
<1>7. CASE \E i \in flight, status \in Ends : Land(i, status)
  BY <1>7, ToldLand
<1>8. CASE \E atOnce \in BOOLEAN, status \in Ends : Admit(atOnce, status)
  BY <1>8, ToldAdmit
<1>9. CASE Finish
  BY <1>9, ToldFinish
<1>. QED
  BY <1>1, <1>2, <1>3, <1>4, <1>5, <1>6, <1>7, <1>8, <1>9 DEF Next, Walk

LEMMA ToldInvariance == Spec => []Told
<1>1. Init => Told
  <2>. SUFFICES ASSUME Init PROVE Told
    OBVIOUS
  <2>1. outcomes = <<>> /\ DOMAIN outcomes = {} /\ flight = {} /\ step = "gather"
    BY DEF Init
  <2>. QED
    BY <2>1 DEF Told, Once, OneOutcomeEach
<1>2. WalkInv /\ WalkInv' /\ Told /\ [Next]_vars => Told'
  BY ToldStep
<1>. QED
  BY <1>1, <1>2, RoundInvariance, PTL DEF Spec

\* The walk's state has its type, its outcomes too once they are sorted
\* (turn/round.rs run).
THEOREM RoundTypes == Spec => []TypeOK
<1>1. WalkInv /\ Told => TypeOK
  BY DEF WalkInv, WalkTypeOK, Undecided, Told, TypeOK
<1>. QED
  BY <1>1, RoundInvariance, ToldInvariance, PTL

\* However a round of any number of calls ends, each call has one outcome, at its own
\* position, and the outcome says truly whether the tool ran (turn/round.rs
\* interrupt_remaining and the sort after it, executor.rs interrupted).
THEOREM EachCallAnswered == Spec => []OneOutcomeEach
<1>1. Told => OneOutcomeEach
  BY DEF Told
<1>. QED
  BY <1>1, ToldInvariance, PTL

=============================================================================
