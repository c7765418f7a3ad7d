------------------------------ MODULE ToolRound ------------------------------
(***************************************************************************)
(* One round of tool calls (crates/bingo-core/src/turn/round.rs, round.rs, *)
(* executor.rs) and the permission gate each call passes (gate.rs): the    *)
(* walk reaches the model's calls in order, decides each one at its own    *)
(* position, keeps safe calls running side by side, runs the others alone, *)
(* asks a person with nothing in flight, and gives every call exactly one  *)
(* outcome however the round ends.                                         *)
(*                                                                         *)
(* An action is what the walk does between two awaits.  Every await races  *)
(* the turn's token and prefers it, so a cancelled walk takes no step but  *)
(* the last one; a token cancelled in the middle of a step shows at the    *)
(* next await, and what that step did with it is what the last one does.   *)
(***************************************************************************)
EXTENDS Naturals, Sequences, SequencesExt

CONSTANTS
  N,               \* the number of calls in the round
  MaxConcurrency,  \* calls in flight at once (10 in the code)
  MaxChanges       \* bound: times a person rewrites one call's input

ASSUME RoundAssumption ==
  N \in Nat /\ MaxConcurrency \in Nat \ {0} /\ MaxChanges \in Nat

VARIABLES
  at,        \* the call the walk has reached; N + 1 past the last
  step,      \* the await the walk is in
  decided,   \* the gate's decision on the reached call
  flight,    \* the calls in flight
  safe,      \* the calls that may run beside others, as last decided
  version,   \* how often a person rewrote a call's input
  denied,    \* the <<call, version>> the hooks or the policy denied
  asked,     \* the calls a person was asked about
  receipt,   \* what the journal's receipt for a call says
  ran,       \* the <<call, version>> a tool was run on
  outcomes,  \* what landed, in order; in call order once the round is over
  cancelled  \* the turn's token

vars == <<at, step, decided, flight, safe, version, denied, asked, receipt,
          ran, outcomes, cancelled>>

Calls == 1..N

Receipts == {"none", "allow", "allowChanged", "deny"}

\* gate.rs Decided: settled (allowed or denied), or a question for a person,
\* which offers no plain yes when what it asks about is blocked.  receipt:
\* the one to record before the call is admitted.
Decided ==
  [gate : {"allowed", "denied", "ask"}, blocked : BOOLEAN, receipt : Receipts]

Settled(gate, rec) == [gate |-> gate, blocked |-> FALSE, receipt |-> rec]

Question(blocked) == [gate |-> "ask", blocked |-> blocked, receipt |-> "none"]

\* How a call ended: by what its tool returned, completed or failed; refused
\* by the gate, which the item shows as failed; or interrupted.
Ends == {"ended", "interrupted"}

Outcome == [call : Calls, status : Ends \cup {"denied"}]

Init ==
  /\ at = 1
  /\ step = "gather"
  /\ decided = Settled("denied", "none")
  /\ flight = {} /\ safe = {}
  /\ version = [i \in Calls |-> 0]
  /\ denied = {} /\ asked = {} /\ ran = {}
  /\ receipt = [i \in Calls |-> "none"]
  /\ outcomes = <<>>
  /\ cancelled = FALSE

-----------------------------------------------------------------------------
AllSafe == flight \subseteq safe

\* Mutant: a question does not wait for the calls in flight.
NextActionMutant(gate, isSafe) ==
  CASE gate = "denied" -> "Deny"
    [] gate = "allowed" /\ isSafe /\ AllSafe /\ Cardinality(flight) < MaxConcurrency -> "Start"
    [] gate = "allowed" /\ ~isSafe /\ flight = {} -> "Start"
    [] gate = "ask" -> "Ask"
    [] gate = "none" /\ flight = {} -> "Done"
    [] OTHER -> "Wait"

\* Mutant: one call more than MAX_CONCURRENCY.
NextActionOneMore(gate, isSafe) ==
  CASE gate = "denied" -> "Deny"
    [] gate = "allowed" /\ isSafe /\ AllSafe /\ Cardinality(flight) <= MaxConcurrency -> "Start"
    [] gate = "allowed" /\ ~isSafe /\ flight = {} -> "Start"
    [] gate = "ask" /\ flight = {} -> "Ask"
    [] gate = "none" /\ flight = {} -> "Done"
    [] OTHER -> "Wait"

\* round.rs next: what to do about a reached call, given what is in flight.
NextAction(gate, isSafe) ==
  CASE gate = "denied" -> "Deny"
    [] gate = "allowed" /\ isSafe /\ AllSafe /\ Cardinality(flight) < MaxConcurrency -> "Start"
    [] gate = "allowed" /\ ~isSafe /\ flight = {} -> "Start"
    [] gate = "ask" /\ flight = {} -> "Ask"
    [] gate = "none" /\ flight = {} -> "Done"
    [] OTHER -> "Wait"

Reached == NextAction(decided.gate, at \in safe)

\* Mutant: the walk does not see the last call.
AdvanceMutant == at' = at + 1 /\ step' = IF at <= N THEN "reach" ELSE "drain"

\* The walk goes on to the next call, or to the end.
Advance == at' = at + 1 /\ step' = IF at < N THEN "reach" ELSE "drain"

\* The hooks of the round are gathered.
Gather ==
  /\ step = "gather" /\ ~cancelled
  /\ step' = IF N = 0 THEN "drain" ELSE "reach"
  /\ UNCHANGED <<at, decided, flight, safe, version, denied, asked, receipt, ran,
                 outcomes, cancelled>>

\* Mutant: the next call is decided beside an unsafe one.
ReachMutant ==
  /\ step = "reach" /\ ~cancelled
  /\ step' = "decide"
  /\ UNCHANGED <<at, decided, flight, safe, version, denied, asked, receipt, ran,
                 outcomes, cancelled>>

\* A call is reached once nothing unsafe is in flight.
Reach ==
  /\ step = "reach" /\ ~cancelled
  /\ AllSafe
  /\ step' = "decide"
  /\ UNCHANGED <<at, decided, flight, safe, version, denied, asked, receipt, ran,
                 outcomes, cancelled>>

\* Mutant: the flight is not polled while a decided call waits for it.
LandMutant(i, status) ==
  /\ ~cancelled
  /\ i \in flight
  /\ \/ step = "reach" /\ ~AllSafe
     \/ step = "decide"
     \/ step = "drain"
  /\ flight' = flight \ {i}
  /\ outcomes' = Append(outcomes, [call |-> i, status |-> status])
  /\ UNCHANGED <<at, step, decided, safe, version, denied, asked, receipt, ran, cancelled>>

\* A call in flight ends: awaited for while an unsafe one is in flight, while
\* the reached call is being decided, while it has to wait, and at the end.
Land(i, status) ==
  /\ ~cancelled
  /\ i \in flight
  /\ \/ step = "reach" /\ ~AllSafe
     \/ step = "decide"
     \/ step = "settle" /\ Reached = "Wait"
     \/ step = "drain"
  /\ flight' = flight \ {i}
  /\ outcomes' = Append(outcomes, [call |-> i, status |-> status])
  /\ UNCHANGED <<at, step, decided, safe, version, denied, asked, receipt, ran, cancelled>>

\* gate.rs decide: the chain, the hooks and the policy on the model's input.
Decide(gate, isSafe) ==
  /\ step = "decide" /\ ~cancelled
  /\ decided' = IF gate = "ask" THEN Question(FALSE) ELSE Settled(gate, "none")
  /\ safe' = IF isSafe THEN safe \cup {at} ELSE safe \ {at}
  /\ denied' = IF gate = "denied" THEN denied \cup {<<at, 0>>} ELSE denied
  /\ step' = "settle"
  /\ UNCHANGED <<at, flight, version, asked, receipt, ran, outcomes, cancelled>>

\* The decision is in and the flight lets the walk act on it: a question
\* goes to a person, anything else is admitted.
Settle ==
  /\ step = "settle" /\ ~cancelled
  /\ Reached # "Wait"
  /\ IF Reached = "Ask" THEN step' = "ask" /\ asked' = asked \cup {at}
     ELSE step' = "admit" /\ asked' = asked
  /\ UNCHANGED <<at, decided, flight, safe, version, denied, receipt, ran, outcomes, cancelled>>

-----------------------------------------------------------------------------
(* gate.rs ask: the person's answers, until one settles the call.          *)

\* Mutant: a question about what the policy denied takes a plain yes.
AnswersMutant == {"allow", "deny", "change"}

\* The answers a question offers; a person may change the input of a call
\* whose policy allows a replacement.
Answers == IF decided.blocked THEN {"deny", "change"} ELSE {"allow", "deny", "change"}

\* A rewritten call's receipt says so.
AllowReceipt(i) == IF version[i] = 0 THEN "allow" ELSE "allowChanged"

\* Mutant: the yes to a rewritten call is recorded by no receipt.
AnswerMutant(answer) ==
  /\ step = "ask" /\ ~cancelled
  /\ answer \in {"allow", "deny"}
  /\ decided' = IF answer = "allow" /\ answer \in Answers THEN
                   Settled("allowed", IF version[at] = 0 THEN "allow" ELSE "none")
                ELSE Settled("denied", "deny")
  /\ step' = "receipt"
  /\ UNCHANGED <<at, flight, safe, version, denied, asked, receipt, ran, outcomes, cancelled>>

\* Yes or no.  A yes the question did not offer is a no.
Answer(answer) ==
  /\ step = "ask" /\ ~cancelled
  /\ answer \in {"allow", "deny"}
  /\ decided' = IF answer = "allow" /\ answer \in Answers
                THEN Settled("allowed", AllowReceipt(at)) ELSE Settled("denied", "deny")
  /\ step' = "receipt"
  /\ UNCHANGED <<at, flight, safe, version, denied, asked, receipt, ran, outcomes, cancelled>>

\* The interaction is cancelled under the question.
AskClosed ==
  /\ step = "ask" /\ ~cancelled
  /\ decided' = Settled("denied", "none")
  /\ step' = "admit"
  /\ UNCHANGED <<at, flight, safe, version, denied, asked, receipt, ran, outcomes, cancelled>>

\* The person rewrites the input, which is checked afresh.
AnswerChanged ==
  /\ step = "ask" /\ ~cancelled
  /\ "change" \in Answers
  /\ version[at] < MaxChanges
  /\ version' = [version EXCEPT ![at] = @ + 1]
  /\ step' = "recheck"
  /\ UNCHANGED <<at, decided, flight, safe, denied, asked, receipt, ran, outcomes, cancelled>>

\* A rewritten call the policy allows is the person's yes; one it denies is
\* asked about again, blocked.  A chain that fails denies it outright.
Recheck(gate, isSafe) ==
  /\ step = "recheck" /\ ~cancelled
  /\ \/ gate = "allowed" /\ decided' = Settled("allowed", "allowChanged") /\ step' = "receipt"
     \/ gate = "denied" /\ decided' = Question(TRUE) /\ step' = "ask"
     \/ gate = "ask" /\ decided' = Question(FALSE) /\ step' = "ask"
     \/ gate = "failed" /\ decided' = Settled("denied", "none") /\ step' = "admit"
  /\ safe' = IF isSafe THEN safe \cup {at} ELSE safe \ {at}
  /\ denied' = IF gate = "denied" THEN denied \cup {<<at, version[at]>>} ELSE denied
  /\ UNCHANGED <<at, flight, version, asked, receipt, ran, outcomes, cancelled>>

\* The receipt reaches the journal, and the walk hears of it.
RecordReceipt ==
  /\ step = "receipt" /\ ~cancelled
  /\ receipt' = [receipt EXCEPT ![at] = decided.receipt]
  /\ step' = "admit"
  /\ UNCHANGED <<at, decided, flight, safe, version, denied, asked, ran, outcomes, cancelled>>

\* It cannot be recorded: the walk stops the turn itself.
ReceiptFailed ==
  /\ step = "receipt" /\ ~cancelled
  /\ cancelled' = TRUE
  /\ UNCHANGED <<at, step, decided, flight, safe, version, denied, asked, receipt, ran, outcomes>>

-----------------------------------------------------------------------------
(* Admission and the end of the round.                                     *)

\* The call is started and polled once: a denied one, or one whose tool ends
\* at once, lands here and any other joins the flight.
Admit(atOnce, status) ==
  /\ step = "admit" /\ ~cancelled
  /\ IF decided.gate = "denied"
     THEN /\ outcomes' = Append(outcomes, [call |-> at, status |-> "denied"])
          /\ UNCHANGED <<flight, ran>>
     ELSE /\ ran' = ran \cup {<<at, version[at]>>}
          /\ flight' = IF atOnce THEN flight ELSE flight \cup {at}
          /\ outcomes' = IF atOnce THEN Append(outcomes, [call |-> at, status |-> status])
                         ELSE outcomes
  /\ Advance
  /\ UNCHANGED <<decided, safe, version, denied, asked, receipt, cancelled>>

Interrupted(S) ==
  LET calls == SetToSeq(S)
  IN  [k \in 1..Len(calls) |-> [call |-> calls[k], status |-> "interrupted"]]

Landed(out) == {out[k].call : k \in DOMAIN out}

\* Where a stable sort by the position of the calls puts the outcome at j.
Place(out, j) ==
  Cardinality({i \in DOMAIN out : \/ out[i].call < out[j].call
                                  \/ out[i].call = out[j].call /\ i <= j})

InCallOrder(out) == [k \in DOMAIN out |-> out[CHOOSE j \in DOMAIN out : Place(out, j) = k]]

\* Mutant: only the calls in flight are given an outcome.
CloseMutant == outcomes \o Interrupted(flight)

\* The calls in flight are dropped, and the ones never admitted are
\* interrupted too.
Close ==
  LET dropped == outcomes \o Interrupted(IF cancelled THEN flight ELSE {})
  IN  dropped \o Interrupted(Calls \ Landed(dropped))

\* The walk stops at its next await, or comes to its end, and the outcomes
\* are put in call order.
Finish ==
  /\ step # "over"
  /\ cancelled \/ (step = "drain" /\ NextAction("none", FALSE) = "Done")
  /\ step' = "over"
  /\ flight' = {}
  /\ \E out \in {Close} : outcomes' = InCallOrder(out)
  /\ UNCHANGED <<at, decided, safe, version, denied, asked, receipt, ran, cancelled>>

\* Esc, or a close of the session, from beside the walk.  A receipt on its
\* way may be in the journal all the same, and the walk does not hear of it.
Cancel ==
  /\ step # "over" /\ ~cancelled
  /\ cancelled' = TRUE
  /\ \/ receipt' = receipt
     \/ step = "receipt" /\ receipt' = [receipt EXCEPT ![at] = decided.receipt]
  /\ UNCHANGED <<at, step, decided, flight, safe, version, denied, asked, ran, outcomes>>

Over == step = "over" /\ UNCHANGED vars

\* What the walk and those it waits for do.
Walk ==
  \/ Gather
  \/ Reach
  \/ \E i \in flight, status \in Ends : Land(i, status)
  \/ \E gate \in {"allowed", "denied", "ask"}, isSafe \in BOOLEAN : Decide(gate, isSafe)
  \/ Settle
  \/ \E answer \in {"allow", "deny"} : Answer(answer)
  \/ AskClosed
  \/ AnswerChanged
  \/ \E gate \in {"allowed", "denied", "ask", "failed"}, isSafe \in BOOLEAN : Recheck(gate, isSafe)
  \/ RecordReceipt
  \/ ReceiptFailed
  \/ \E atOnce \in BOOLEAN, status \in Ends : Admit(atOnce, status)
  \/ Finish

Next == Walk \/ Cancel \/ Over

Spec == Init /\ [][Next]_vars

\* The turn's task is polled, and what it awaits comes: tools end, hooks and
\* the policy decide, the journal answers, a person says something.
LiveSpec == Spec /\ WF_vars(Walk)

-----------------------------------------------------------------------------
(* Properties.                                                             *)

TypeOK ==
  /\ at \in 1..(N + 1)
  /\ step \in {"gather", "reach", "decide", "settle", "ask", "recheck",
               "receipt", "admit", "drain", "over"}
  /\ (step \in {"gather", "drain", "over"} \/ at \in Calls)
  /\ decided \in Decided
  /\ flight \subseteq Calls /\ safe \subseteq Calls /\ asked \subseteq Calls
  /\ version \in [Calls -> Nat]
  /\ denied \subseteq Calls \X Nat /\ ran \subseteq Calls \X Nat
  /\ receipt \in [Calls -> Receipts]
  /\ outcomes \in Seq(Outcome)
  /\ cancelled \in BOOLEAN

\* A call that did not say it is concurrency safe is alone in flight, and
\* no more than MAX_CONCURRENCY calls are.  The check is made when a call is
\* settled; the call starts later, after a question whose answer may have
\* made another call of it.
UnsafeAlone ==
  /\ \A i \in flight : i \notin safe => flight = {i}
  /\ Cardinality(flight) <= MaxConcurrency

\* While a person is asked, and until what they said is in the journal,
\* nothing is in flight: record_receipt does not poll the flight and rests
\* on this.
AskedAlone == step \in {"ask", "recheck", "receipt"} => flight = {}

\* However the round ends, the model gets one outcome for each of its
\* calls, in the order it made them, and hears the truth about it: a call
\* reported as refused did not run, one reported with a tool's result did.
OneOutcomeEach ==
  step = "over" =>
    /\ [k \in DOMAIN outcomes |-> outcomes[k].call] = [k \in Calls |-> k]
    /\ \A k \in DOMAIN outcomes :
         CASE outcomes[k].status = "denied" -> \A r \in ran : r[1] # k
           [] outcomes[k].status = "ended" -> <<k, version[k]>> \in ran
           [] OTHER -> TRUE

\* An input the hooks or the policy denied is never run, not even when a
\* person wrote it and says yes to it.
NoDeniedRuns == ran \cap denied = {}

\* A call a person was asked about runs on the journal's word: its receipt
\* is there before it starts, and says whether its input was rewritten.
ReceiptBeforeRun ==
  \A r \in ran : r[1] \in asked =>
    receipt[r[1]] = IF r[2] = 0 THEN "allow" ELSE "allowChanged"

\* A walk whose awaits are answered comes to its end: it never waits for a
\* flight that is empty or that it does not poll.
RoundEnds == <>(step = "over")

\* The model's order is kept where it can matter.  A call is decided when
\* every earlier one that is not safe has landed, so that the hooks and the
\* policy see what those did; and of two calls one of which is not safe,
\* the later starts when the earlier has landed.
SerialUnsafe ==
  [][ LET Earlier(i) == 1..(i - 1)
          Done(i) == i \in Landed(outcomes)
      IN  /\ step = "decide" /\ step' = "settle" =>
               \A i \in Earlier(at) : i \in safe \/ Done(i)
          /\ \A r \in ran' \ ran : \A i \in Earlier(r[1]) :
               {i, r[1]} \subseteq safe \/ Done(i) ]_vars

-----------------------------------------------------------------------------
(* The inductive invariant of the proofs (ToolRoundProofs).                *)

Before(i) == {j \in Calls : j < i}

\* Before its decision is in, nobody has been asked about the reached call.
Undecided == {"gather", "reach", "decide"}

\* Everything the round keeps but the order its outcomes end up in.
WalkTypeOK ==
  /\ at \in 1..(N + 1)
  /\ step \in Undecided \cup {"settle", "ask", "recheck", "receipt", "admit", "drain", "over"}
  /\ (step \in {"gather", "drain", "over"} \/ at \in Calls)
  /\ decided \in Decided
  /\ flight \subseteq Calls /\ safe \subseteq Calls /\ asked \subseteq Calls
  /\ version \in [Calls -> Nat]
  /\ denied \subseteq Calls \X Nat /\ ran \subseteq Calls \X Nat
  /\ receipt \in [Calls -> Receipts]
  /\ cancelled \in BOOLEAN
  /\ step # "over" => outcomes \in Seq(Outcome)

\* The walk leaves calls behind one by one, each in flight or landed.
BehindIt ==
  /\ flight \subseteq Before(at)
  /\ \A r \in ran : r[1] < at
  /\ step # "over" => \A i \in Before(at) : i \in flight \/ i \in Landed(outcomes)
  /\ step = "gather" => at = 1

\* And it knows nothing of the calls ahead.
AheadOfIt ==
  /\ \A i \in Calls : i > at \/ (i = at /\ step \in Undecided) =>
       version[i] = 0 /\ i \notin asked /\ \A d \in denied : d[1] # i
  /\ step = "settle" => version[at] = 0 /\ at \notin asked
  /\ \A d \in denied : d[2] <= version[d[1]]
  /\ step = "recheck" => version[at] > 0 /\ <<at, version[at]>> \notin denied

\* Who is in flight, and what an admitted call may count on.
FlightRoom ==
  /\ step \in {"decide", "settle"} => AllSafe
  /\ step = "admit" /\ decided.gate = "allowed" =>
       flight = {} \/ (at \in safe /\ AllSafe /\ Cardinality(flight) < MaxConcurrency)

\* A question or an allowed call is about an input nobody denied, except a
\* question that offers no yes.
DecidedSoundly ==
  /\ step \in {"settle", "receipt", "admit"} /\ decided.gate = "allowed" =>
       <<at, version[at]>> \notin denied
  /\ step \in {"settle", "ask"} /\ decided.gate = "ask" /\ ~decided.blocked =>
       <<at, version[at]>> \notin denied
  /\ step \in {"receipt", "admit"} => decided.gate # "ask"
  /\ step = "ask" => decided.gate = "ask"

\* The receipt of the reached call, on its way and once it is there.
ReceiptOnItsWay ==
  /\ step = "receipt" /\ decided.gate = "allowed" => decided.receipt = AllowReceipt(at)
  /\ step = "admit" /\ decided.gate = "allowed" /\ at \in asked =>
       receipt[at] = AllowReceipt(at)

WalkInv ==
  /\ WalkTypeOK /\ BehindIt /\ AheadOfIt /\ FlightRoom /\ DecidedSoundly
  /\ ReceiptOnItsWay /\ UnsafeAlone /\ AskedAlone /\ NoDeniedRuns /\ ReceiptBeforeRun

=============================================================================
