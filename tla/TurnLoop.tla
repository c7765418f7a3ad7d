------------------------------ MODULE TurnLoop ------------------------------
(***************************************************************************)
(* One session's turns, from the inside: the rounds of a turn, the stream  *)
(* of each model request and the items folded from it, the retries of a    *)
(* stream that broke, compaction and its breaker, the stop hooks, the      *)
(* barrier, and every way a turn ends.  A turn starts from what the turns  *)
(* before it left in the transcript.  A round's walk over its calls is     *)
(* ToolRound; the queue and the mailbox around the turn are SessionActor.  *)
(***************************************************************************)
EXTENDS Naturals, Sequences

CONSTANTS MaxTurns,       \* bound on the turns of the session
          MaxRounds,      \* budget.max_rounds
          MaxRetries,     \* budget.max_retries
          MaxRecoveries,  \* MAX_LENGTH_RECOVERIES
          MaxCompactions, \* MAX_THRESHOLD_COMPACTIONS
          Trip,           \* Breaker::TRIP
          MaxItems        \* bound on the responses' items in the transcript

ASSUME TurnAssumption ==
    /\ MaxTurns \in Nat /\ MaxRounds \in Nat /\ MaxRetries \in Nat
    /\ MaxRecoveries \in Nat /\ MaxCompactions \in Nat /\ Trip \in Nat /\ MaxItems \in Nat

VARIABLES
    turns,       \* turns opened so far
    kind,        \* what the turn is for: "respond", "agent" or "compact"
    holds,       \* the endpoint holds the context itself
    compactor,   \* a compaction strategy is registered
    at,          \* where the loop is; see Places
    why,         \* the reason of the compaction in flight
    round, retries, recoveries, emptyRetryUsed, overflowCompacted, compactions,
    requests,    \* requests sent to the model in this turn
    items,       \* the transcript: what the session's turns have folded into it
    rebuilt,     \* the session has a configuration no turn has run on yet
    failures,    \* the turn's breaker: compactions discarded in a row
    paid,        \* threshold summaries paid for since one was accepted
    cancelled,   \* the turn's token
    stopped,     \* a hook asked for the turn to end after its round
    status       \* "running", or how the turn ended

counters == <<round, retries, recoveries, emptyRetryUsed, overflowCompacted, compactions>>
breaker == <<failures, paid>>
setting == <<turns, kind, holds, compactor, rebuilt>>
flags == <<cancelled, stopped>>
vars == <<turns, kind, holds, compactor, at, why, round, retries, recoveries,
          emptyRetryUsed, overflowCompacted, compactions, requests, items, rebuilt,
          failures, paid, cancelled, stopped, status>>

Places == {"idle",         \* no turn
           "starting",     \* hooks and late tools are gathered, Turn hooks start
           "top",          \* round_trip begins
           "assembling",   \* links and contributors speak
           "compactHooks", \* Compact hooks before a compaction
           "compacting",   \* the strategy is asked
           "compacted",    \* a manual compaction is back
           "establishing", \* a request is on its way
           "streaming",    \* the response streams
           "sleeping",     \* backing off before a retry
           "stopHooks",    \* Stop hooks may ask for another round
           "acting",       \* the round's calls
           "barrier"}      \* steering and the Barrier contributors
Kinds == {"respond", "agent", "compact"}
Reasons == {"none", "threshold", "overflow", "manual"}
ItemKinds == {"text", "call", "marker"}
Parts == {"streamed", "kept", "retried"}
Statuses == {"running", "completed", "failed", "interrupted"}

(***************************************************************************)
(* Items.  part says how an item stands to the responses: of the one the   *)
(* loop is at ("streamed"), of one it is past ("kept"), or of one that was *)
(* tried again ("retried"); open is a status that is not terminal.         *)
(* Reasoning is text.  The user pieces, summaries and notices the loop     *)
(* records are complete when they appear and never withdrawn, and are left *)
(* out; so is the cut of an accepted summary, which only takes items out   *)
(* of the model's sight.                                                   *)
(***************************************************************************)
Item(k, part, open) == [turn |-> turns, kind |-> k, part |-> part, open |-> open]
Open(i) == items[i].open
Current(i) == items[i].turn = turns
Ours(i) == items[i].part = "streamed"
Calls == {i \in DOMAIN items : Ours(i) /\ items[i].kind = "call"}

\* The items of s that were of the response the loop is at, now a part of part.
Become(part, s) == [i \in DOMAIN s |-> IF s[i].part = "streamed" THEN [s[i] EXCEPT !.part = part]
                                       ELSE s[i]]

\* Mutant: only what is still open is withdrawn.
WithdrawnMutant ==
    LET Stays(i) == ~(i.part = "streamed" /\ i.open) IN SelectSeq(items, Stays)

\* The reducer's retain: the items of a sequence that are not of the response.
Without(s) ==
    LET rest[n \in 0..Len(s)] ==
          IF n = 0 THEN <<>>
          ELSE IF s[n].part = "streamed" THEN rest[n - 1] ELSE Append(rest[n - 1], s[n])
    IN  rest[Len(s)]

\* Accumulator::item_ids, withdrawn by TurnRetrying: every item of the response.
Withdrawn == Without(items)

\* Accumulator::finish: what it tells of is the text and reasoning still open.
Finished == [i \in DOMAIN items |->
               IF Ours(i) /\ items[i].kind = "text" THEN [items[i] EXCEPT !.open = FALSE]
               ELSE items[i]]

\* interrupt_items, of the items this turn has open
AllClosed == [i \in DOMAIN items |->
                IF Current(i) THEN [items[i] EXCEPT !.open = FALSE] ELSE items[i]]

(***************************************************************************)
(* Between turns.                                                          *)
(***************************************************************************)
Fresh(k) ==
    /\ kind' = k
    /\ round' = 0 /\ retries' = 0 /\ recoveries' = 0
    /\ emptyRetryUsed' = FALSE /\ overflowCompacted' = FALSE /\ compactions' = 0
    /\ requests' = 0 /\ items' = Become("kept", items)
    /\ cancelled' = FALSE /\ stopped' = FALSE
    /\ status' = "running" /\ why' = "none" /\ at' = "starting"

Init ==
    /\ turns = 0 /\ kind = "respond"
    /\ holds \in BOOLEAN /\ compactor \in BOOLEAN
    /\ at = "idle" /\ why = "none" /\ status = "completed"
    /\ round = 0 /\ retries = 0 /\ recoveries = 0
    /\ emptyRetryUsed = FALSE /\ overflowCompacted = FALSE /\ compactions = 0
    /\ requests = 0 /\ items = <<>>
    /\ rebuilt = FALSE /\ failures = 0 /\ paid = 0
    /\ cancelled = FALSE /\ stopped = FALSE

\* Mutant: each turn has a breaker of its own.
OpenTurnMutant ==
    /\ at = "idle" /\ turns < MaxTurns
    /\ turns' = turns + 1
    /\ \E k \in Kinds : Fresh(k)
    /\ compactor' \in BOOLEAN
    /\ failures' = 0 /\ rebuilt' = FALSE
    /\ holds' \in IF rebuilt THEN BOOLEAN ELSE {holds}
    /\ paid' = IF rebuilt THEN 0 ELSE paid

\* Running::spawn: the turn takes the session's transcript and configuration,
\* and with a configuration that was rebuilt a breaker that has counted nothing.
\* The strategy is looked for when each turn starts (Late::gather).
OpenTurn ==
    /\ at = "idle" /\ turns < MaxTurns
    /\ turns' = turns + 1
    /\ \E k \in Kinds : Fresh(k)
    /\ compactor' \in BOOLEAN
    /\ rebuilt' = FALSE
    /\ \/ ~rebuilt /\ UNCHANGED <<holds, breaker>>
       \/ rebuilt /\ holds' \in BOOLEAN /\ failures' = 0 /\ paid' = 0

\* reconfigure: the next turn runs on what the host rebuilt, a running one
\* keeps its own.
Reconfigure ==
    /\ turns < MaxTurns /\ ~rebuilt
    /\ rebuilt' = TRUE
    /\ UNCHANGED <<turns, kind, holds, compactor, at, why, counters, requests, items,
                   breaker, flags, status>>

\* An esc, or the session closing
Cancel ==
    /\ at # "idle" /\ ~cancelled
    /\ cancelled' = TRUE
    /\ UNCHANGED <<setting, at, why, counters, requests, items, breaker, stopped, status>>

\* A hook blocked after a call that was handed in from outside
Stop ==
    /\ at # "idle" /\ ~stopped
    /\ stopped' = TRUE
    /\ UNCHANGED <<setting, at, why, counters, requests, items, breaker, cancelled, status>>

(***************************************************************************)
(* How a turn ends.                                                        *)
(***************************************************************************)
EndWith(s, its) ==
    /\ status' = s /\ items' = its
    /\ at' = "idle" /\ why' = "none"

\* interrupted_status: the marker and the status that goes with it
InterruptWith(its) == EndWith("interrupted", Append(its, Item("marker", "kept", FALSE)))
Interrupt == InterruptWith(items)

GoTo(place) == at' = place /\ why' = "none" /\ UNCHANGED status

\* racing, biased to the token: whatever is raced gives way to an esc.
Raced(place) == at = place /\ ~cancelled

\* Mutant: an early return forgets the marker.
CancelledAtMutant(place) ==
    /\ at = place /\ cancelled
    /\ EndWith("interrupted", items)
    /\ UNCHANGED <<setting, counters, requests, breaker, flags>>

CancelledAt(place) ==
    /\ at = place /\ cancelled
    /\ Interrupt
    /\ UNCHANGED <<setting, counters, requests, breaker, flags>>

\* Mutant: a turn is dropped with whatever it had open.
DropMutant ==
    /\ at # "idle" /\ cancelled
    /\ Interrupt
    /\ UNCHANGED <<setting, counters, requests, breaker, flags>>

\* supervised: the grace is over; close_dropped_turn closes what is open.
Drop ==
    /\ at # "idle" /\ cancelled
    /\ InterruptWith(AllClosed)
    /\ UNCHANGED <<setting, counters, requests, breaker, flags>>

\* The loop panics in what it calls; the turn fails and closes nothing.
Panic ==
    /\ at # "idle"
    /\ EndWith("failed", items)
    /\ UNCHANGED <<setting, counters, requests, breaker, flags>>

(***************************************************************************)
(* A round: assemble, stream, decide, act, barrier.                        *)
(***************************************************************************)
\* A request goes out; its response gets an accumulator of its own.
Send == /\ GoTo("establishing") /\ requests' = requests + 1
        /\ items' = Become("kept", items)

Started ==
    /\ Raced("starting")
    /\ \/ kind = "agent" /\ Send
       \/ /\ UNCHANGED requests
          /\ \/ kind = "respond" /\ GoTo("top") /\ UNCHANGED items
             \/ kind = "compact" /\ compactor /\ GoTo("assembling") /\ UNCHANGED items
             \/ kind = "compact" /\ ~compactor /\ EndWith("failed", items)
    /\ UNCHANGED <<setting, counters, breaker, flags>>

\* round_trip, before it awaits anything
RoundTrip ==
    /\ at = "top"
    /\ \/ cancelled /\ Interrupt
       \/ ~cancelled /\ round >= MaxRounds /\ EndWith("failed", items)
       \/ ~cancelled /\ round < MaxRounds /\ GoTo("assembling") /\ UNCHANGED items
    /\ UNCHANGED <<setting, counters, requests, breaker, flags>>

CompactFor(reason) == at' = "compactHooks" /\ why' = reason /\ UNCHANGED status

MayCompact == /\ ~holds /\ round = 0 /\ compactor
              /\ compactions < MaxCompactions /\ failures < Trip

\* assemble and try_compact: the context is over the threshold, or it is not.
\* A link that answers in the contributors' place is not raced.
Assembled ==
    /\ at = "assembling"
    /\ \/ kind = "compact" /\ CompactFor("manual") /\ UNCHANGED <<compactions, requests, items>>
       \/ kind = "respond" /\ Send /\ UNCHANGED compactions
       \/ /\ kind = "respond" /\ MayCompact
          /\ compactions' = compactions + 1
          /\ CompactFor("threshold") /\ UNCHANGED <<requests, items>>
    /\ UNCHANGED <<setting, round, retries, recoveries, emptyRetryUsed, overflowCompacted,
                   breaker, flags>>

\* assemble_request is None when a link denies the request, too.
Denied ==
    /\ at = "assembling"
    /\ Interrupt
    /\ UNCHANGED <<setting, counters, requests, breaker, flags>>

\* compact, back in its caller: the items have changed, or they have not and a
\* threshold's request goes out as it was assembled.
Back(changed) ==
    \/ why = "threshold" /\ changed /\ GoTo("top") /\ UNCHANGED <<requests, items>>
    \/ why = "threshold" /\ ~changed /\ Send
    \/ why = "overflow" /\ GoTo("top") /\ UNCHANGED <<requests, items>>
    \/ why = "manual" /\ GoTo("compacted") /\ UNCHANGED <<requests, items>>

\* Mutant: the strategy is asked whether or not the turn was stopped.
CompactStartMutant ==
    /\ at = "compactHooks"
    /\ at' = "compacting" /\ UNCHANGED <<why, status, requests, items>>
    /\ UNCHANGED <<setting, counters, breaker, flags>>

\* compact_hooks(Start): None when raced away, and the strategy is not asked.
CompactStart ==
    /\ at = "compactHooks"
    /\ \/ ~cancelled /\ at' = "compacting" /\ UNCHANGED <<why, status, requests, items>>
       \/ cancelled /\ Back(FALSE)
    /\ UNCHANGED <<setting, counters, breaker, flags>>

\* compact: a summary that shrinks is kept, unless the turn was cancelled meanwhile
CompactShrinks ==
    /\ at = "compacting" /\ ~cancelled
    /\ failures' = 0 /\ paid' = 0
    /\ Back(TRUE)
    /\ UNCHANGED <<setting, counters, flags>>

\* ... and any other answer of the strategy is discarded, billed and counted.
CompactUseless ==
    /\ at = "compacting"
    /\ failures' = failures + 1
    /\ paid' = IF why = "threshold" THEN paid + 1 ELSE paid
    /\ Back(FALSE)
    /\ UNCHANGED <<setting, counters, flags>>

\* compact::run, when compact has returned
ManualDone ==
    /\ at = "compacted"
    /\ IF cancelled THEN Interrupt ELSE EndWith("completed", items)
    /\ UNCHANGED <<setting, counters, requests, breaker, flags>>

Established ==
    /\ Raced("establishing")
    /\ GoTo("streaming")
    /\ UNCHANGED <<setting, counters, requests, items, breaker, flags>>

(***************************************************************************)
(* The response.  The token and the stream's next event are raced without  *)
(* preference, so events may still be folded after an esc.                 *)
(***************************************************************************)
Room == Len(SelectSeq(items, LAMBDA i : i.kind # "marker")) < MaxItems

Begins(k) ==
    /\ at = "streaming" /\ Room
    /\ items' = Append(items, Item(k, "streamed", TRUE))
    /\ UNCHANGED <<setting, at, why, counters, requests, breaker, flags, status>>

\* start_block, start_call, and an agent's own call (external)
TextStart == Begins("text")
CallStart == Begins("call")

Closing(i) == items' = [items EXCEPT ![i].open = FALSE]

\* end_block; an agent also says when its calls are done.
BlockEnd ==
    /\ at = "streaming"
    /\ \E i \in DOMAIN items : /\ Ours(i) /\ Open(i)
                               /\ items[i].kind = "text" \/ kind = "agent"
                               /\ Closing(i)
    /\ UNCHANGED <<setting, at, why, counters, requests, breaker, flags, status>>

StreamCancelled ==
    /\ at = "streaming" /\ cancelled
    /\ InterruptWith(IF kind = "agent" THEN AllClosed ELSE Finished)
    /\ UNCHANGED <<setting, counters, requests, breaker, flags>>

\* agent_turn: whatever the agent left open is closed with the turn.
AgentEnds ==
    /\ kind = "agent" /\ ~cancelled
    /\ \/ at = "streaming" /\ \E s \in {"completed", "failed"} : EndWith(s, AllClosed)
       \/ at = "establishing" /\ EndWith("failed", items)
    /\ UNCHANGED <<setting, counters, requests, breaker, flags>>

\* announce_retry
Retrying == items' = Become("retried", Withdrawn)

Responding == kind = "respond" /\ at \in {"establishing", "streaming"} /\ ~cancelled

\* Mutant: an overflow hands back a retry that was never counted.
OverflowMutant ==
    /\ Responding /\ ~holds /\ ~overflowCompacted
    /\ overflowCompacted' = TRUE /\ retries' = retries - 1
    /\ Retrying
    /\ IF compactor THEN CompactFor("overflow") ELSE GoTo("top")
    /\ UNCHANGED <<setting, round, recoveries, emptyRetryUsed, compactions,
                   requests, breaker, flags>>

\* failed_stream, an overflow for the first time
Overflow ==
    /\ Responding /\ ~holds /\ ~overflowCompacted
    /\ overflowCompacted' = TRUE
    /\ Retrying
    /\ IF compactor THEN CompactFor("overflow") ELSE GoTo("top")
    /\ UNCHANGED <<setting, round, retries, recoveries, emptyRetryUsed, compactions,
                   requests, breaker, flags>>

\* Mutant: a retry is not counted.
RetryMutant ==
    /\ Responding /\ retries < MaxRetries
    /\ Retrying
    /\ GoTo("sleeping")
    /\ UNCHANGED <<setting, counters, requests, breaker, flags>>

\* retried_or_failed, an error worth another try
Retry ==
    /\ Responding /\ retries < MaxRetries
    /\ retries' = retries + 1
    /\ Retrying
    /\ GoTo("sleeping")
    /\ UNCHANGED <<setting, round, recoveries, emptyRetryUsed, overflowCompacted, compactions,
                   requests, breaker, flags>>

Slept ==
    /\ at = "sleeping"
    /\ GoTo("top")
    /\ UNCHANGED <<setting, counters, requests, items, breaker, flags>>

\* ... and one that is not, or was tried often enough
StreamFails ==
    /\ Responding
    /\ EndWith("failed", Finished)
    /\ UNCHANGED <<setting, counters, requests, breaker, flags>>

NextRound(its) == items' = its /\ round' = round + 1 /\ GoTo("top")

Answered == at = "streaming" /\ kind = "respond" /\ ~cancelled
Silent == \A i \in DOMAIN items : ~Ours(i)

\* decide: the stream finished with a reason
Decide ==
    /\ Answered
    /\ \/ /\ stopped /\ Calls = {}
          /\ EndWith("completed", Finished)
          /\ UNCHANGED <<round, recoveries, emptyRetryUsed>>
       \/ /\ ~stopped /\ Silent /\ ~emptyRetryUsed
          /\ emptyRetryUsed' = TRUE
          /\ GoTo("top") /\ UNCHANGED <<items, round, recoveries>>
       \/ /\ ~stopped /\ Silent /\ emptyRetryUsed
          /\ EndWith("completed", items)
          /\ UNCHANGED <<round, recoveries, emptyRetryUsed>>
       \/ /\ Calls # {}
          /\ items' = Finished /\ GoTo("acting")
          /\ UNCHANGED <<round, recoveries, emptyRetryUsed>>
       \/ /\ ~stopped /\ ~Silent /\ Calls = {} /\ recoveries < MaxRecoveries \* cut by length
          /\ recoveries' = recoveries + 1
          /\ NextRound(Finished)
          /\ UNCHANGED emptyRetryUsed
       \/ /\ ~stopped /\ ~Silent /\ Calls = {}
          /\ items' = Finished /\ GoTo("stopHooks")
          /\ UNCHANGED <<round, recoveries, emptyRetryUsed>>
    /\ UNCHANGED <<setting, retries, overflowCompacted, compactions, requests,
                   breaker, flags>>

\* stop_hooks: another round, with the hook's reason, or the end
StopHooks ==
    /\ Raced("stopHooks")
    /\ \/ NextRound(items)
       \/ \E s \in {"completed", "failed"} : EndWith(s, items) /\ UNCHANGED round
    /\ UNCHANGED <<setting, retries, recoveries, emptyRetryUsed, overflowCompacted,
                   compactions, requests, breaker, flags>>

\* Round::run closes its calls one by one, an interrupted walk all the rest.
Land ==
    /\ at = "acting"
    /\ \E i \in Calls : Open(i) /\ Closing(i)
    /\ UNCHANGED <<setting, at, why, counters, requests, breaker, flags, status>>

\* act: every call has its outcome, the hooks have seen them
Acted ==
    /\ at = "acting" /\ \A i \in Calls : ~Open(i)
    /\ \/ cancelled /\ Interrupt
       \/ ~cancelled /\ EndWith("completed", items) \* a hook blocked, or stopped
       \/ ~cancelled /\ ~stopped /\ GoTo("barrier") /\ UNCHANGED items
    /\ UNCHANGED <<setting, counters, requests, breaker, flags>>

Barrier ==
    /\ Raced("barrier")
    /\ NextRound(items)
    /\ UNCHANGED <<setting, retries, recoveries, emptyRetryUsed, overflowCompacted,
                   compactions, requests, breaker, flags>>

AwaitCancelled ==
    \E place \in {"starting", "assembling", "establishing", "sleeping", "stopHooks", "barrier"} :
        CancelledAt(place)

\* What the loop does when what it awaits has answered.
Loop == \/ AwaitCancelled \/ Started \/ RoundTrip \/ Assembled \/ Denied
        \/ CompactStart \/ CompactShrinks \/ CompactUseless \/ ManualDone \/ Established
        \/ StreamCancelled \/ AgentEnds \/ Overflow \/ Retry \/ Slept \/ StreamFails
        \/ Decide \/ StopHooks \/ Land \/ Acted \/ Barrier

Done == at = "idle" /\ turns = MaxTurns /\ UNCHANGED vars

Next == OpenTurn \/ Reconfigure \/ Cancel \/ Stop \/ Drop \/ Panic \/ Loop
        \/ TextStart \/ CallStart \/ BlockEnd \/ Done

Spec == Init /\ [][Next]_vars

\* Where the loop may wait for code that does not look at its token: a link, the
\* compaction strategy, the round's calls (which ToolRound follows).
Unraced == {"assembling", "compacting", "acting"}

\* A cancelled token is ready in every select that races it, so the loop goes on
\* from there.  Nothing is assumed of the awaits that are not raced, nor of the
\* grace after which the turn is dropped.
FairSpec == Spec /\ WF_vars(cancelled /\ at \notin Unraced /\ Loop)

(***************************************************************************)
(* Properties.                                                             *)
(***************************************************************************)
ItemSet == [turn : Nat, kind : ItemKinds, part : Parts, open : BOOLEAN]

\* Types.
TypeOK ==
    /\ turns \in Nat /\ kind \in Kinds /\ holds \in BOOLEAN /\ compactor \in BOOLEAN
    /\ at \in Places /\ why \in Reasons /\ status \in Statuses
    /\ round \in Nat /\ retries \in Nat /\ recoveries \in Nat /\ compactions \in Nat
    /\ emptyRetryUsed \in BOOLEAN /\ overflowCompacted \in BOOLEAN
    /\ requests \in Nat /\ rebuilt \in BOOLEAN
    /\ items \in Seq(ItemSet)
    /\ failures \in Nat /\ paid \in Nat
    /\ cancelled \in BOOLEAN /\ stopped \in BOOLEAN

\* What goes to the model, or to be summarised, has nothing in it of a stream that
\* was tried again, in this turn or in any before it, and no item of this turn that
\* is still open: the items of a failed attempt are withdrawn, finished ones too,
\* before the next.  (What a turn leaves that fails or is interrupted stays.)
CleanRequest ==
    at \in {"compacting", "establishing"} =>
        \A i \in DOMAIN items : /\ items[i].part # "retried"
                                /\ Current(i) => ~Open(i)

\* A turn that completed leaves no item open, and one that was interrupted no text
\* that still looks as if it streamed, whether the loop or the grace ended it.
EndedClosed ==
    at = "idle" => \A i \in DOMAIN items : Current(i) /\ Open(i) =>
        status = "failed" \/ (status = "interrupted" /\ items[i].kind = "call")

Markers == {i \in DOMAIN items : Current(i) /\ items[i].kind = "marker"}

\* "one keypress, one ending, wherever in the round it arrived": a turn has one
\* interruption marker if it was interrupted and none if it was not, and a turn
\* that was cancelled before it ended has not completed.
OneEnding ==
    /\ status = "interrupted" => \E i \in Markers : Markers = {i}
    /\ status # "interrupted" => Markers = {}
    /\ cancelled => status # "completed"

\* However streams fail, come back empty or are cut short, a turn sends no more
\* requests than its rounds and retries and the one overflow and one empty
\* response it forgives.
RequestsBounded == requests <= MaxRounds + MaxRetries + 2

\* "no more summaries are paid for until one shrinks something": over all the
\* turns that run on one configuration the threshold asks in vain at most Trip
\* times in a row.
PaidInVain == paid <= Trip

\* An esc ends the turn from wherever the loop may wait, a link, the strategy and
\* the calls apart, without the grace: on its way out the loop neither asks for a
\* summary nor goes another round.
EscEnds == (cancelled /\ at \notin Unraced \union {"idle"}) ~> at = "idle"
=============================================================================
