---------------------------- MODULE SessionActor ----------------------------
(***************************************************************************)
(* The session actor of bingo-core (crates/bingo-core/src/session.rs and   *)
(* session/): one task per session that owns the input gate, the queue,    *)
(* the commands in flight, the running turn and the open interactions, and *)
(* handles one mailbox message at a time.                                  *)
(*                                                                         *)
(* The variable actor is the Actor struct.  The private methods of the     *)
(* code that one handler calls after another (enqueue, start_gate,         *)
(* drain_queue, finish_close ...) are operators from an actor to an actor, *)
(* so that a handler is the composition of the calls the code makes, and   *)
(* an action is one whole handler.                                         *)
(*                                                                         *)
(* Tasks beside the actor (the gate's hooks, a command, the turn loop, the *)
(* completion chain) report back by mail.  Reports of different tasks      *)
(* arrive in any order, so handling a report is enabled whenever its task  *)
(* is under way; what the report says is chosen when it is handled.  The   *)
(* one report whose place in the mailbox matters, the turn's request for   *)
(* steering, is kept in barrier.                                           *)
(***************************************************************************)
EXTENDS Naturals, Sequences, FiniteSets

CONSTANTS
  Intents,      \* client-minted intent ids of submits and deliveries
  None,         \* no intent
  Lines,        \* the kinds of line the environment sends in this instance
  Models,       \* whether a model answers the session (FALSE: a Log session)
  Links,        \* whether a plugin links a chain (a delivery passes the gate)
  Faults,       \* an append to the store may fail
  MaxAsks,      \* bound: interactions opened
  MaxCompacts,  \* bound: turns opened by a command's compaction
  MaxRetries    \* bound: lines sent again under an intent already used

\* What a line is: prose that steers, prose the person asked to hold, a
\* command line, a peer's waking or held delivery, and the prose a command
\* turned into (CommandOutcome::Prompt).
SubmitKinds == {"prose", "held", "command"}
DeliverKinds == {"peer", "peerHeld"}
LineKinds == SubmitKinds \cup DeliverKinds \cup {"prompt"}

ASSUME ConstantsAssumption ==
  /\ None \notin Intents
  /\ Lines \subseteq SubmitKinds \cup DeliverKinds
  /\ Models \subseteq BOOLEAN /\ Links \subseteq BOOLEAN /\ Faults \in BOOLEAN
  /\ MaxAsks \in Nat /\ MaxCompacts \in Nat /\ MaxRetries \in Nat

VARIABLE actor

vars == <<actor>>

GateKinds == {"submit", "prose", "queued", "deliver"}

Waiting == [intent : Intents, kind : GateKinds]

Flight == [intent : Intents \cup {None}, kind : GateKinds, cut : BOOLEAN]

NoFlight == [intent |-> None, kind |-> "submit", cut |-> FALSE]

\* turn = 0: an interaction opened under no turn.
Pending == [id : Nat, turn : Nat, byCommand : BOOLEAN]

\* What became of an intent, in order: its acks (queued, started, applied,
\* rejected), or how its line left the session without one: handed back by
\* a withdraw, journalled by the turn it steered, or dropped on the way to
\* that turn.
Fate == {"queued", "started", "applied", "rejected", "withdrawn", "steered", "lost"}

Final == Fate \ {"queued"}

\* A user item of the journal: whose words, under which turn (0: none).
Said == [intent : Intents, turn : Nat]

Actor ==
  [ model     : BOOLEAN,
    links     : BOOLEAN,
    waiting   : Seq(Waiting),          \* gate: inputs behind the one in flight
    flight    : Flight,                \* gate: the input its plugin work is on
    queue     : Seq(Intents),
    inflight  : SUBSET Intents,        \* commands running
    holding   : Intents \cup {None},   \* the command the queue waits for
    cut       : SUBSET Intents,        \* commands whose token is cancelled
    running   : Nat,                   \* the turn in flight, 0 when none
    ended     : BOOLEAN,               \* its loop has reported; completion runs
    stop      : BOOLEAN,               \* its token is cancelled
    barrier   : {"none", "asked", "answered"},
    steers    : Seq(Intents),          \* the barrier's reply, not yet read
    pending   : SUBSET Pending,
    closing   : BOOLEAN,
    closed    : BOOLEAN,
    failed    : BOOLEAN,               \* it was an append that failed
    turns     : Nat,
    asks      : Nat,
    compacts  : Nat,
    line      : [Intents -> LineKinds \cup {"unsent"}],
    arrived   : Seq(Intents),          \* history: the order lines arrived in
    fate      : [Intents -> Seq(Fate)],
    said      : Seq(Said) ]            \* the user items of the journal

Init ==
  \E model \in Models, links \in Links :
  actor = [ model |-> model, links |-> links,
            waiting |-> <<>>, flight |-> NoFlight, queue |-> <<>>,
            inflight |-> {}, holding |-> None, cut |-> {},
            running |-> 0, ended |-> FALSE, stop |-> FALSE,
            barrier |-> "none", steers |-> <<>>, pending |-> {},
            closing |-> FALSE, closed |-> FALSE, failed |-> FALSE,
            turns |-> 0, asks |-> 0, compacts |-> 0,
            line |-> [i \in Intents |-> "unsent"], arrived |-> <<>>,
            fate |-> [i \in Intents |-> <<>>], said |-> <<>> ]

-----------------------------------------------------------------------------
(* The queue (session/queue.rs) and the actor's own predicates.            *)

SeqRange(q) == {q[k] : k \in DOMAIN q}

IsCommand(s, i) == s.line[i] = "command"

IsHeld(s, i) == s.line[i] \in {"held", "peerHeld"}

Steerable(s, i) == ~IsCommand(s, i) /\ ~IsHeld(s, i)

Ready(s) == \E k \in DOMAIN s.queue : ~IsHeld(s, s.queue[k])

\* Mutant: a command that holds the queue does not count.
BusyMutant(s) == s.running # 0

Busy(s) == s.running # 0 \/ s.holding # None

GateBusy(s) == s.flight.intent # None \/ s.waiting # <<>>

\* The length of the longest head of q all of whose entries are in keep.
RunLength(q, keep) ==
  CHOOSE n \in 0..Len(q) :
    /\ \A k \in 1..n : q[k] \in keep
    /\ n < Len(q) => q[n + 1] \notin keep

Taken(q, keep) == SubSeq(q, 1, RunLength(q, keep))

\* Mutant: what was taken stays in the queue.
LeftMutant(q, keep) == q

Left(q, keep) == SubSeq(q, RunLength(q, keep) + 1, Len(q))

ProseOf(s) == {i \in Intents : ~IsCommand(s, i)}

SteersOf(s) == {i \in Intents : Steerable(s, i)}

Ack(s, i, outcome) == [s EXCEPT !.fate[i] = Append(@, outcome)]

AckAll(s, is, outcome) ==
  [s EXCEPT !.fate =
     [i \in Intents |-> IF i \in is THEN Append(s.fate[i], outcome) ELSE s.fate[i]]]

Enqueue(s, i) == Ack([s EXCEPT !.queue = Append(@, i)], i, "queued")

-----------------------------------------------------------------------------
(* Opening a turn, and the gate.                                           *)

\* The user items one turn, or none, records for its inputs, in order.
UserItems(inputs, turn) ==
  [k \in 1..Len(inputs) |-> [intent |-> inputs[k], turn |-> turn]]

StartTurn(s, inputs) ==
  LET turn == s.turns + 1
  IN  AckAll([s EXCEPT !.turns = turn, !.running = turn,
                       !.ended = FALSE, !.stop = FALSE,
                       !.said = @ \o UserItems(inputs, turn)],
             SeqRange(inputs), "started")

\* Mutant: the new line goes ahead of the prose held in the queue.
HeldThenMutant(s, i) ==
  StartTurn([s EXCEPT !.queue = Left(@, ProseOf(s))],
            <<i>> \o Taken(s.queue, ProseOf(s)))

\* The prose held in an idle session's queue goes first.
HeldThen(s, i) ==
  StartTurn([s EXCEPT !.queue = Left(@, ProseOf(s))],
            Append(Taken(s.queue, ProseOf(s)), i))

LogInput(s, i) ==
  Ack([s EXCEPT !.said = Append(@, [intent |-> i, turn |-> 0])], i, "applied")

StartGate(s) ==
  IF s.flight.intent # None \/ s.closing \/ s.closed \/ s.waiting = <<>>
  THEN s
  ELSE [s EXCEPT !.waiting = Tail(@),
                 !.flight = [intent |-> Head(s.waiting).intent,
                             kind |-> Head(s.waiting).kind, cut |-> FALSE]]

GateInput(s, i, kind) ==
  LET w == [intent |-> i, kind |-> kind]
  IN  StartGate([s EXCEPT !.waiting =
        IF kind \in {"queued", "prose"} THEN <<w>> \o @ ELSE Append(@, w)])

DrainQueue(s) ==
  IF Busy(s) \/ GateBusy(s) \/ s.queue = <<>>
  THEN s
  ELSE IF IsCommand(s, Head(s.queue))
       THEN GateInput([s EXCEPT !.queue = Tail(@)], Head(s.queue), "queued")
       ELSE StartTurn([s EXCEPT !.queue = Left(@, ProseOf(s))],
                      Taken(s.queue, ProseOf(s)))

-----------------------------------------------------------------------------
(* What a gate verdict, a delivery or a command's outcome comes to.        *)

SubmitProse(s, i) ==
  IF ~s.model THEN LogInput(s, i)
  ELSE IF Busy(s) \/ Ready(s) THEN Enqueue(s, i)
  ELSE HeldThen(s, i)

DeliverReady(s, i) ==
  IF s.closed \/ s.closing THEN Ack(s, i, "rejected")
  ELSE IF ~s.model THEN LogInput(s, i)
  ELSE IF Busy(s) \/ Ready(s) \/ IsHeld(s, i) THEN Enqueue(s, i)
  ELSE HeldThen(s, i)

\* A command runs on its own task; one that is not instant holds the queue.
RunCommand(s, i, instant) ==
  [s EXCEPT !.inflight = @ \cup {i}, !.cut = @ \ {i},
            !.holding = IF instant THEN @ ELSE i]

\* instant: what Command::is_instant says of this line now.
SubmitCommand(s, i, queued, instant) ==
  IF ~instant /\ ~queued /\ (Busy(s) \/ Ready(s))
  THEN Enqueue(s, i)
  ELSE RunCommand(s, i, instant)

\* The verdicts the gate's plugin work can come to for a line of this kind:
\* a chain or a hook may reject any line; a submit hook may redirect prose.
Verdicts(s, i, kind) ==
  {"rejected"} \cup
  (CASE kind = "deliver" -> {"delivered"}
     [] kind # "deliver" /\ IsCommand(s, i) -> {"instant", "holds"}
     [] OTHER -> {"prose", "redirected"})

ApplyGate(s, i, kind, verdict) ==
  CASE verdict = "rejected"   -> Ack(s, i, "rejected")
    [] verdict = "redirected" -> Ack(s, i, "applied")
    [] verdict = "prose"      -> SubmitProse(s, i)
    [] verdict = "delivered"  -> DeliverReady(s, i)
    [] OTHER -> SubmitCommand(s, i, kind = "queued", verdict = "instant")

\* Mutant: the questions of a command that is over stay open.
CancelCommandAsksMutant(s) == s

CancelCommandAsks(s) == [s EXCEPT !.pending = {p \in @ : ~p.byCommand}]

FinishClose(s) ==
  AckAll([s EXCEPT !.queue = <<>>, !.closed = TRUE, !.closing = FALSE],
         SeqRange(s.queue), "rejected")

CloseGate(s) ==
  AckAll([s EXCEPT !.waiting = <<>>, !.flight = NoFlight],
         {s.waiting[k].intent : k \in DOMAIN s.waiting}
           \cup ({s.flight.intent} \ {None}),
         "rejected")

\* Mutant: the running turn's token is left alone.
CancelTokensMutant(s) == [s EXCEPT !.cut = s.inflight]

\* The turn's token, and the actor's, every command's parent.
CancelTokens(s) == [s EXCEPT !.stop = s.running # 0, !.cut = s.inflight]

\* The tokens, the gate, the interactions; the end waits for a running turn.
Closed(s) ==
  LET cancelled == [CloseGate(CancelTokens(s)) EXCEPT !.pending = {}]
  IN  IF s.running # 0 THEN [cancelled EXCEPT !.closing = TRUE]
      ELSE FinishClose(cancelled)

-----------------------------------------------------------------------------
(* The handlers, one action each.                                          *)

Retries(s) == Len(s.arrived) - Cardinality({i \in Intents : s.line[i] # "unsent"})

\* A client sends a line under a fresh intent, or once more under one it
\* has already used.
Arrives(i, kind) ==
  /\ kind \in Lines
  /\ \/ actor.line[i] = "unsent"
     \/ actor.line[i] = kind /\ Retries(actor) < MaxRetries

Sent(i, kind) == [actor EXCEPT !.line[i] = kind, !.arrived = Append(@, i)]

Submit(i, kind) ==
  /\ ~actor.closed
  /\ kind \in SubmitKinds
  /\ Arrives(i, kind)
  /\ actor' = IF actor.closing
              THEN Ack(Sent(i, kind), i, "rejected")
              ELSE GateInput(Sent(i, kind), i, "submit")

Deliver(i, kind) ==
  /\ ~actor.closed
  /\ kind \in DeliverKinds
  /\ Arrives(i, kind)
  /\ actor' = IF GateBusy(actor) \/ actor.links
              THEN GateInput(Sent(i, kind), i, "deliver")
              ELSE DeliverReady(Sent(i, kind), i)

\* Mutant: a held delivery never moves the queue, ready or not.
MovesQueueMutant(s, i, verdict) == ~(verdict = "delivered" /\ IsHeld(s, i))

\* A delivery that was held does not move a queue that has nothing ready in
\* it; any other verdict does.
MovesQueue(s, i, verdict) == ~(verdict = "delivered" /\ IsHeld(s, i) /\ ~Ready(s))

\* The gate's report.
Gated(verdict) ==
  LET i == actor.flight.intent
      kind == actor.flight.kind
      taken == [actor EXCEPT !.flight = NoFlight]
      applied == StartGate(ApplyGate(taken, i, kind, verdict))
  IN  /\ ~actor.closed
      /\ i # None
      /\ verdict \in Verdicts(actor, i, kind)
      /\ actor.flight.cut => verdict = "rejected"
      /\ actor' = IF MovesQueue(applied, i, verdict) THEN DrainQueue(applied)
                  ELSE applied

\* The command is no longer in flight, and holds nothing.
CommandOver(s, i) ==
  [s EXCEPT !.inflight = @ \ {i}, !.cut = @ \ {i},
            !.holding = IF @ = i THEN None ELSE @]

\* A command's report: an ack of what it did, its failure, or prose that
\* re-enters the gate under the same intent.
Reported(s, i, outcome) ==
  LET finished == CommandOver(s, i)
      asked == IF s.holding = i THEN CancelCommandAsks(finished) ELSE finished
  IN  IF outcome = "prompt"
      THEN GateInput([asked EXCEPT !.line[i] = "prompt"], i, "prose")
      ELSE Ack(asked, i, outcome)

CommandFinished(i, outcome) ==
  /\ ~actor.closed
  /\ i \in actor.inflight
  /\ actor' = DrainQueue(Reported(actor, i, outcome))

\* Mutant: esc reaches for the holding command without looking for one.
InterruptMutant ==
  /\ ~actor.closed
  /\ actor' = IF actor.running # 0
              THEN [actor EXCEPT !.stop = TRUE, !.pending = {}]
              ELSE CancelCommandAsks([actor EXCEPT !.cut = @ \cup {actor.holding}])

\* Esc: the running turn, else the command the queue waits for, else the
\* input in flight at the gate.  With none of them it is refused.
Interrupt ==
  /\ ~actor.closed
  /\ actor' =
       IF actor.running # 0
       THEN [actor EXCEPT !.stop = TRUE, !.pending = {}]
       ELSE IF actor.holding # None
       THEN CancelCommandAsks([actor EXCEPT !.cut = @ \cup {actor.holding}])
       ELSE [actor EXCEPT !.flight.cut = actor.flight.intent # None]

Without(q, k) == SubSeq(q, 1, k - 1) \o SubSeq(q, k + 1, Len(q))

\* A surface takes back a line that is still queued.
Withdraw(i) ==
  /\ ~actor.closed
  /\ \E k \in DOMAIN actor.queue :
       /\ actor.queue[k] = i
       /\ \A j \in 1..(k - 1) : actor.queue[j] # i
       /\ actor' = Ack([actor EXCEPT !.queue = Without(@, k)], i, "withdrawn")

\* A command asks the host to compact: a turn with no inputs.
Compact ==
  /\ ~actor.closed
  /\ actor.inflight # {}
  /\ actor.compacts < MaxCompacts
  /\ actor.model
  /\ actor.running = 0
  /\ actor' = StartTurn([actor EXCEPT !.compacts = @ + 1], <<>>)

\* A gate, a bridged call, a command or the host's ask door opens an
\* interaction; it names whatever turn runs.
Ask ==
  /\ ~actor.closed
  /\ actor.asks < MaxAsks
  /\ actor' = [actor EXCEPT
       !.asks = @ + 1,
       !.pending = @ \cup {[id |-> actor.asks + 1, turn |-> actor.running,
                            byCommand |-> actor.holding # None]}]

Answer(p) ==
  /\ ~actor.closed
  /\ p \in actor.pending
  /\ actor' = [actor EXCEPT !.pending = @ \ {p}]

-----------------------------------------------------------------------------
(* The turn's task: its barrier and its end.                               *)

\* The turn loop reaches its barrier and mails Absorb.
ReachBarrier ==
  /\ ~actor.closed
  /\ actor.running # 0 /\ ~actor.ended /\ ~actor.stop
  /\ actor.barrier = "none"
  /\ actor' = [actor EXCEPT !.barrier = "asked"]

\* The actor answers it with the prose a running turn may be steered with.
Absorb ==
  /\ ~actor.closed
  /\ actor.barrier = "asked"
  /\ actor' = [actor EXCEPT !.barrier = "answered",
                            !.queue = Left(@, SteersOf(actor)),
                            !.steers = Taken(actor.queue, SteersOf(actor))]

\* The turn reads the reply, unless its token is cancelled first, and its
\* user items reach the journal before anything it sends later.
Steer ==
  /\ ~actor.closed
  /\ actor.barrier = "answered" /\ ~actor.stop
  /\ actor' = AckAll([actor EXCEPT !.barrier = "none", !.steers = <<>>,
                        !.said = @ \o UserItems(actor.steers, actor.running)],
                     SeqRange(actor.steers), "steered")

\* Mutant: a cancelled turn still waits for its barrier's reply.
LoopOverMutant(s) == s.barrier = "none"

\* A cancelled turn does not read the reply of a barrier it was waiting at;
\* its Absorb, mailed first, is handled before its end.
LoopOver(s) == s.barrier = "none" \/ (s.barrier = "answered" /\ s.stop)

\* The turn's loop has ended.
TurnFinished ==
  /\ ~actor.closed
  /\ actor.running # 0 /\ ~actor.ended
  /\ LoopOver(actor)
  /\ actor' = AckAll([actor EXCEPT !.ended = TRUE, !.pending = {},
                        !.barrier = "none", !.steers = <<>>],
                     SeqRange(actor.steers), "lost")

\* The actor lets go of the turn it was running.
TurnOver(s) == [s EXCEPT !.running = 0, !.ended = FALSE, !.stop = FALSE]

\* The completion chain has run: the turn is over, and a waiting close ends
\* the session, else the queue moves.
CompletionReady ==
  LET over == TurnOver(actor)
  IN  /\ ~actor.closed
      /\ actor.running # 0 /\ actor.ended
      /\ actor' = IF actor.closing THEN FinishClose(over) ELSE DrainQueue(over)

Close ==
  /\ ~actor.closed
  /\ actor' = Closed(actor)

\* Deleting reserves an idle session first, and closes it on commit.
ReserveDelete ==
  /\ ~actor.closed
  /\ actor.running = 0
  /\ actor' = Closed(actor)

-----------------------------------------------------------------------------
(* A store that fails.  Every append a handler awaits may be the one: the  *)
(* handler is left where it stands, and what it has in hand with it.       *)

\* Where a method stands at its appends: a turn's user items one by one, then
\* its acks; a line that was queued; a Log's user item, then its ack; the
\* rejections of a list of lines; the queue's next unit.
Opening(s, inputs) ==
  LET turn == s.turns + 1
      recorded(k) == [s EXCEPT !.said = @ \o UserItems(SubSeq(inputs, 1, k), turn)]
  IN  {recorded(k) : k \in 0..Len(inputs)}
        \cup {AckAll(recorded(Len(inputs)), SeqRange(SubSeq(inputs, 1, k)), "started") :
              k \in 0..Len(inputs)}

Queueing(s, i) == {[s EXCEPT !.queue = Append(@, i)]}

Logging(s, i) == {s, [s EXCEPT !.said = Append(@, [intent |-> i, turn |-> 0])]}

Rejecting(s, lines) ==
  {AckAll(s, SeqRange(SubSeq(lines, 1, k)), "rejected") : k \in 0..Len(lines)}

Draining(s) ==
  IF Busy(s) \/ GateBusy(s) \/ s.queue = <<>> THEN {}
  ELSE IF IsCommand(s, Head(s.queue)) THEN {[s EXCEPT !.queue = Tail(@)]}
  ELSE Opening([s EXCEPT !.queue = Left(@, ProseOf(s))], Taken(s.queue, ProseOf(s)))

Prosing(s, i) ==
  IF ~s.model THEN Logging(s, i)
  ELSE IF Busy(s) \/ Ready(s) THEN Queueing(s, i)
  ELSE Opening([s EXCEPT !.queue = Left(@, ProseOf(s))], Append(Taken(s.queue, ProseOf(s)), i))

Delivering(s, i) ==
  IF s.closed \/ s.closing THEN {s}
  ELSE IF s.model /\ IsHeld(s, i) THEN Queueing(s, i)
  ELSE Prosing(s, i)

Applying(s, i, kind, verdict) ==
  CASE verdict \in {"rejected", "redirected"} -> {s}
    [] verdict = "prose"     -> Prosing(s, i)
    [] verdict = "delivered" -> Delivering(s, i)
    [] OTHER -> IF verdict = "holds" /\ kind # "queued" /\ (Busy(s) \/ Ready(s))
                THEN Queueing(s, i) ELSE {}

Ending(s) == Rejecting([s EXCEPT !.queue = <<>>], s.queue)

\* The lines at the gate, the one in flight first.
GateLines(s) ==
  (IF s.flight.intent = None THEN <<>> ELSE <<s.flight.intent>>)
    \o [k \in DOMAIN s.waiting |-> s.waiting[k].intent]

\* storage_failed answers what is still queued; then the actor returns, and
\* its gate, its commands and its turn are gone with it.
Halt(s) ==
  AckAll([s EXCEPT !.waiting = <<>>, !.flight = NoFlight, !.queue = <<>>,
                   !.inflight = {}, !.holding = None, !.cut = {},
                   !.running = 0, !.ended = FALSE, !.stop = FALSE,
                   !.barrier = "none", !.steers = <<>>, !.pending = {},
                   !.closing = FALSE, !.closed = TRUE, !.failed = TRUE],
         SeqRange(s.queue), "rejected")

Halts(places) == \E s \in places : actor' = Halt(s)

SubmitFails(i, kind) ==
  /\ kind \in SubmitKinds /\ Arrives(i, kind)
  /\ actor.closing
  /\ Halts({Sent(i, kind)})

DeliverFails(i, kind) ==
  /\ kind \in DeliverKinds /\ Arrives(i, kind)
  /\ ~GateBusy(actor) /\ ~actor.links
  /\ Halts(Delivering(Sent(i, kind), i))

GatedFails(verdict) ==
  LET i == actor.flight.intent
      kind == actor.flight.kind
      taken == [actor EXCEPT !.flight = NoFlight]
      applied == StartGate(ApplyGate(taken, i, kind, verdict))
  IN  /\ i # None
      /\ verdict \in Verdicts(actor, i, kind)
      /\ actor.flight.cut => verdict = "rejected"
      /\ \/ Halts(Applying(taken, i, kind, verdict))
         \/ MovesQueue(applied, i, verdict) /\ Halts(Draining(applied))

CommandFails(i, outcome) ==
  LET reported == Reported(actor, i, outcome)
  IN  /\ i \in actor.inflight
      /\ Halts({reported} \cup Draining(reported))

\* Withdraw, and the barrier's reply, which took lines off the queue too.
TakingFails ==
  \/ \E k \in DOMAIN actor.queue :
       /\ \A j \in 1..(k - 1) : actor.queue[j] # actor.queue[k]
       /\ Halts({[actor EXCEPT !.queue = Without(@, k)]})
  \/ actor.barrier = "asked" /\ Halts({[actor EXCEPT !.queue = Left(@, SteersOf(actor))]})

SteerFails ==
  /\ actor.barrier = "answered" /\ ~actor.stop
  /\ \E k \in DOMAIN actor.steers :
       LET read == SubSeq(actor.steers, 1, k - 1)
       IN  Halts({AckAll([actor EXCEPT !.said = @ \o UserItems(read, actor.running)],
                         SeqRange(read), "steered")})

CompletionFails ==
  LET over == TurnOver(actor)
  IN  /\ actor.running # 0 /\ actor.ended
      /\ Halts(IF actor.closing THEN Ending(over) ELSE Draining(over))

CloseFails ==
  \/ Halts(Rejecting(actor, GateLines(actor)))
  \/ actor.running = 0 /\ Halts(Ending(CloseGate(actor)))

\* An append with nothing before it (an emitted event, a recorded item, the
\* first of a handler), or one further on.
StorageFailed ==
  /\ ~actor.closed
  /\ Faults
  /\ \/ Halts({actor})
     \/ \E i \in Intents, kind \in Lines : SubmitFails(i, kind) \/ DeliverFails(i, kind)
     \/ \E v \in {"rejected", "redirected", "prose", "delivered", "instant", "holds"} : GatedFails(v)
     \/ \E i \in Intents, o \in {"applied", "rejected", "prompt"} : CommandFails(i, o)
     \/ TakingFails \/ SteerFails \/ CompletionFails \/ CloseFails

\* A closed session's actor has returned.
Stopped == actor.closed /\ UNCHANGED actor

Next ==
  \/ \E i \in Intents, kind \in Lines : Submit(i, kind)
  \/ \E i \in Intents, kind \in Lines : Deliver(i, kind)
  \/ \E v \in {"rejected", "redirected", "prose", "delivered", "instant", "holds"} : Gated(v)
  \/ \E i \in Intents, o \in {"applied", "rejected", "prompt"} : CommandFinished(i, o)
  \/ Interrupt
  \/ \E i \in Intents : Withdraw(i)
  \/ Compact
  \/ Ask
  \/ \E p \in actor.pending : Answer(p)
  \/ ReachBarrier
  \/ Absorb
  \/ Steer
  \/ TurnFinished
  \/ CompletionReady
  \/ Close
  \/ ReserveDelete
  \/ StorageFailed
  \/ Stopped

Spec == Init /\ [][Next]_vars

\* Work whose token is cancelled ends within the interrupt's grace, and the
\* actor serves its mailbox.  Nothing else is fair: a turn, a command or a
\* hook nobody stops may run for ever, and nobody has to send anything.
Fairness ==
  /\ WF_vars(actor.flight.cut /\ Gated("rejected"))
  /\ \A i \in Intents :
       WF_vars(i \in actor.cut /\ \E o \in {"applied", "rejected", "prompt"} : CommandFinished(i, o))
  /\ WF_vars(Absorb)
  /\ WF_vars(actor.stop /\ TurnFinished)
  /\ WF_vars(actor.stop /\ CompletionReady)

FairSpec == Spec /\ Fairness

-----------------------------------------------------------------------------
(* Properties.                                                             *)

\* Every field of the Actor struct keeps its type.
TypeOK == actor \in Actor

\* No input is stranded: an open session with no turn, no command holding
\* its queue and nothing at its gate has nothing in its queue that is ready
\* to run.  drain_queue is called from several handlers and returns early
\* when the session or the gate is busy, so each handler that ends that
\* state has to call it.
NothingStranded ==
  ~actor.closed /\ ~Busy(actor) /\ ~GateBusy(actor) => ~Ready(actor)

Occurs(q, i) == Cardinality({k \in DOMAIN q : q[k] = i})

Once(b) == IF b THEN 1 ELSE 0

\* The number of places a line is in: waiting at the gate, in flight there,
\* queued, running as a command, in a barrier's reply, or settled (counted
\* once for each final outcome it was given).
Homes(s, i) ==
    Cardinality({k \in DOMAIN s.waiting : s.waiting[k].intent = i})
  + Once(s.flight.intent = i)
  + Occurs(s.queue, i)
  + Once(i \in s.inflight)
  + Occurs(s.steers, i)
  + Cardinality({k \in DOMAIN s.fate[i] : s.fate[i][k] \in Final})

\* A line that was sent is in exactly one place: it is never in two of the
\* gate, the queue, a command and a turn, never dropped from all of them
\* without an outcome, and never given two final outcomes.  Where an append
\* failed, the lines in the failing handler's hand, at the gate, in a command
\* or on their way to the turn get no outcome; no line gets two even then.
OneHome ==
  \A i \in Intents :
    /\ Homes(actor, i) <= Once(actor.line[i] # "unsent")
    /\ ~actor.failed => Homes(actor, i) = Once(actor.line[i] # "unsent")

ArrivalOf(i) == CHOOSE k \in DOMAIN actor.arrived : actor.arrived[k] = i

\* Prose is journalled in the order it arrived, whichever way it came in
\* (through the gate, straight to an idle session, out of the queue, as
\* steering), commands and the prompts they expand to apart.
SaidInOrder ==
  \A a, b \in DOMAIN actor.said :
    LET i == actor.said[a].intent  j == actor.said[b].intent
    IN  a < b /\ actor.line[i] # "prompt" /\ actor.line[j] # "prompt"
          => ArrivalOf(i) < ArrivalOf(j)

\* A question a holding command asked is open only while a command holds
\* the queue (ADR-0012 section 5): the handler that ends the hold closes it.
CommandAsksEndWithIt ==
  \A p \in actor.pending : p.byCommand => actor.holding # None

\* One command holds the queue at a time: while a command that waited its
\* turn is on its way through the gate to run, no other command holds it
\* (it will not be queued again, whatever it finds there).
HeldByOne ==
  /\ actor.flight.intent # None /\ actor.flight.kind = "queued" => actor.holding = None
  /\ actor.holding # None => actor.holding \in actor.inflight

\* One esc stops what the person is waiting on (ADR-0068 section 2): a
\* turn, a command or a gate input whose token was cancelled is over after
\* a while.
EscStops ==
  /\ \A t \in 1..(Cardinality(Intents) + MaxCompacts) :
       (actor.running = t /\ actor.stop) ~> actor.running # t
  /\ \A i \in Intents :
       /\ (i \in actor.inflight /\ i \in actor.cut) ~> (i \notin actor.inflight \/ actor.closed)
       /\ (actor.flight.intent = i /\ actor.flight.cut) ~> (actor.flight.intent # i \/ actor.closed)

\* A close that waits for the running turn to wind down ends the session.
CloseCompletes == actor.closing ~> actor.closed

-----------------------------------------------------------------------------
(* The inductive invariant behind the safety properties, as predicates of  *)
(* an actor so that each method can be shown to keep them.                 *)

\* A close that is waiting waits for a turn.
ClosingWaits(s) == s.closing => s.running # 0

AsksHeld(s) == \A p \in s.pending : p.byCommand => s.holding # None

\* A queued command goes straight into flight, when nothing holds the queue.
HoldsOne(s) ==
  /\ \A k \in DOMAIN s.waiting : s.waiting[k].kind = "queued" => s.closed
  /\ s.flight.intent # None /\ s.flight.kind = "queued" => s.holding = None
  /\ s.holding # None => s.holding \in s.inflight

Sound(s) == s \in Actor /\ ClosingWaits(s) /\ AsksHeld(s) /\ HoldsOne(s)

IInv == Sound(actor) /\ NothingStranded

-----------------------------------------------------------------------------
(* What the documents of the repository say and the code does not keep.    *)

\* turn.rs, barrier: "steering queued during the round joins the
\* transcript".  A line taken off the queue for a turn is never dropped.
SteeringJoinsTranscript ==
  \A i \in Intents : \A k \in DOMAIN actor.fate[i] : actor.fate[i][k] # "lost"
=============================================================================
