---------------------------- MODULE SessionTree ----------------------------
(***************************************************************************)
(* A client attached to a tree of sessions: the actors' fan-out into       *)
(* bounded buffers, the streams that drain them and tell of a lag, the     *)
(* forwarder that follows every session of the tree and heals what lagged, *)
(* and the client's fold.                                                  *)
(***************************************************************************)
EXTENDS Naturals, Sequences, SequencesExt, FiniteSets

CONSTANTS Root,      \* the session the client attached to
          Children,  \* the sessions that may be under it
          Parent,    \* [Children -> the session that opened it]
          MaxFrames, \* bound on the frames of all sessions together; see Said
          Capacity,  \* SUBSCRIBER_CAPACITY: frames a subscriber may be behind
          MaxFaults, \* bound on reads of the store that fail
          Sayings    \* the kinds of frames sessions publish in this instance

Sessions == {Root} \union Children

ASSUME TreeAssumption ==
    /\ Root \notin Children /\ IsFiniteSet(Children)
    /\ Parent \in [Children -> Sessions]
    /\ MaxFrames \in Nat
    /\ Capacity \in Nat \ {0}
    /\ MaxFaults \in Nat
    /\ Sayings \subseteq {"delta", "note", "opened", "resolved"}

VARIABLES
    life,      \* life[s]: where the session is; see Lives
    log,       \* log[s][q]: the kind of the frame numbered q
    ckpt,      \* ckpt[s]: checkpoint_seq, below it the window is released
    due,       \* sessions the host has listed and not yet announced
    news,      \* the gateway's broadcast, as this attachment receives it
    missed,    \* the broadcast dropped something unread
    streams,   \* the streams in the forwarder's SelectAll
    followed,  \* what the forwarder knows of each session; see Followed
    epochs,    \* the last epoch minted
    todo,      \* what the forwarder is in the middle of; <<>>: it polls
    owners,    \* the interactions whose session the attachment knows
    over,      \* the forwarder has returned
    seen,      \* seen[s]: the seq of the client's fold of s
    base,      \* base[s]: where the client joined s
    stale,     \* frames the client got a second time
    liveOnly,  \* TreeBackfill::LiveOnly
    faults     \* reads of the store that failed

actors == <<life, log, ckpt, due>>
gateway == <<news, missed>>
forwarder == <<followed, epochs, todo, owners, over>>
client == <<seen, base, stale, liveOnly>>
vars == <<life, log, ckpt, due, news, missed, streams, followed, epochs, todo,
          owners, over, seen, base, stale, liveOnly, faults>>

(***************************************************************************)
(* Frames.  A delta is any frame the journal does not keep; "lost" is a    *)
(* number spent on an append that failed, "end" what a failed store lets   *)
(* the actor still say.                                                    *)
(***************************************************************************)
Kinds == {"delta", "note", "opened", "resolved", "closed", "lost", "end"}
Durable(k) == k \in {"note", "opened", "resolved", "closed"}

Kept(s) == {q \in DOMAIN log[s] : Durable(log[s][q])}
\* Mutant: catch-up does not stop at the cut.
BetweenMutant(s, lo, hi) == {q \in Kept(s) : q > lo}

Between(s, lo, hi) == {q \in Kept(s) : q > lo /\ q < hi}
Asking(l) == {q \in DOMAIN l : /\ l[q] = "opened"
                               /\ \A r \in q + 1 .. Len(l) : l[r] # "resolved"}

\* The members of S up to n in their order.
Ascending(S, n) ==
    LET upto[k \in 0 .. n] == IF k = 0 THEN <<>>
                              ELSE IF k \in S THEN Append(upto[k - 1], k) ELSE upto[k - 1]
    IN  upto[n]

Lives == {"unborn",    \* no such session yet
          "stored",    \* only the store knows it
          "live",      \* it runs here, and the host lists it
          "closed",    \* it stopped, the host still lists it
          "gone"}      \* it was deleted
Running(s) == life[s] = "live"
Listed(s) == life[s] \in {"live", "closed"}

(***************************************************************************)
(* A stream.  at says where it is: reading the store ("catch"), giving     *)
(* what is past, about to try its buffer ("try"), about to look for a lag  *)
(* ("look"), waiting for a frame ("recv"), or over.                        *)
(***************************************************************************)
Giving(past) == IF past = <<>> THEN "try" ELSE "past"
Past(s, e, past, tx) ==
    [session |-> s, epoch |-> e, at |-> Giving(past), since |-> 0, cut |-> 0,
     past |-> past, buf |-> <<>>, lag |-> <<>>, tx |-> tx]
Finished(st) == [Past(st.session, st.epoch, <<>>, FALSE) EXCEPT !.at = "over"]

\* Mutant: a full buffer drops the frame and tells nobody.
OfferedMutant(st, q) ==
    IF st.tx /\ Len(st.buf) < Capacity THEN [st EXCEPT !.buf = Append(@, q)] ELSE st

\* fanout for one subscriber: the frame, or the gap it leaves.
Offered(st, q) ==
    IF ~st.tx THEN st
    ELSE IF st.lag # <<>> THEN [st EXCEPT !.lag = <<@[1], q>>]
    ELSE IF Len(st.buf) < Capacity THEN [st EXCEPT !.buf = Append(@, q)]
    ELSE [st EXCEPT !.lag = <<q, q>>]

Fanout(S, s, q) == {IF st.session = s THEN Offered(st, q) ELSE st : st \in S}

\* subscribers.clear
Cleared(S, s) == {IF st.session = s THEN [st EXCEPT !.tx = FALSE] ELSE st : st \in S}

\* Actor::subscribe: what the window still holds, or a read of the store.
Subscribe(s, e, since) ==
    IF since < ckpt[s]
    THEN [Past(s, e, <<>>, TRUE) EXCEPT !.at = "catch", !.since = since,
                                        !.cut = Len(log[s]) + 1]
    ELSE Past(s, e, Ascending({q \in Kept(s) : q > ckpt[s] /\ q > since}, Len(log[s])), TRUE)

(***************************************************************************)
(* Initially the client has attached: the gateway was subscribed to, the   *)
(* root's snapshot and stream were cut by one message, and the descendants *)
(* are still to be adopted.                                                *)
(***************************************************************************)
Absent == [last |-> 0, source |-> "absent", epoch |-> 0]
Unknown == [last |-> 0, source |-> "unknown", epoch |-> 0]

\* adopt_descendants
AdoptAll == <<<<"live">>>> \o (IF liveOnly THEN <<>> ELSE <<<<"stored", Root>>>>)

Init ==
    /\ life \in [Sessions -> {"unborn", "stored", "live"}]
    /\ life[Root] = "live"
    /\ \A s \in Children : life[s] # "unborn" => life[Parent[s]] # "unborn"
    /\ log = [s \in Sessions |->
                CASE s = Root -> <<"note">>
                  [] life[s] = "unborn" -> <<>>
                  [] life[s] = "stored" /\ "opened" \in Sayings -> <<"note", "opened">>
                  [] OTHER -> <<"note">>]
    /\ ckpt \in [Sessions -> {0, 1}]
    /\ \A s \in Sessions : s = Root \/ life[s] = "unborn" => ckpt[s] = 0
    /\ due = {} /\ news = <<>> /\ missed = FALSE
    /\ liveOnly \in BOOLEAN
    /\ base = [s \in Sessions |-> IF s = Root THEN 1 ELSE 0]
    /\ seen = base
    /\ epochs = 1
    /\ followed = [s \in Sessions |-> IF s = Root
                     THEN [last |-> 0, source |-> "live", epoch |-> 1] ELSE Unknown]
    /\ streams = {Subscribe(Root, 1, 1)}
    /\ todo = AdoptAll
    /\ owners = {} /\ over = FALSE /\ stale = {} /\ faults = 0

(***************************************************************************)
(* The sessions.                                                           *)
(***************************************************************************)
\* The bound counts a frame of a session below the root's own children twice.
Said == MapThenSumSet(LAMBDA s : IF s = Root \/ Parent[s] = Root THEN Len(log[s])
                                 ELSE 2 * Len(log[s]), Sessions)

Say(s, kinds) ==
    /\ log' = [log EXCEPT ![s] = @ \o kinds]
    /\ Said' <= MaxFrames

\* Actor::publish
Publish(s, k) ==
    /\ Running(s)
    /\ k = "opened" => Asking(log[s]) = {}
    /\ k = "resolved" => Asking(log[s]) # {}
    /\ Say(s, <<k>>)
    /\ streams' = Fanout(streams, s, Len(log'[s]))
    /\ UNCHANGED <<life, ckpt, due, gateway, forwarder, client, faults>>

\* checkpoint::acknowledge, of a frame that was a Compacted
Checkpointed(s) ==
    /\ Running(s)
    /\ \E q \in Kept(s) : q > ckpt[s] /\ log[s][q] = "note" /\ ckpt' = [ckpt EXCEPT ![s] = q]
    /\ UNCHANGED <<life, log, due, gateway, streams, forwarder, client, faults>>

\* Host::create and Host::resume_frames: the session runs, the host lists it.
\* create's check_parent_limits found the parent in the host's list; it may have been
\* deleted since.  A resume asks nothing of the parent.
Open(s) ==
    /\ \/ /\ life[s] = "unborn" /\ life[Parent[s]] \notin {"unborn", "stored"}
          /\ Say(s, <<"note">>)
       \/ life[s] = "stored" /\ Say(s, IF Asking(log[s]) = {} THEN <<"note">>
                                       ELSE <<"note", "resolved">>)
    /\ life' = [life EXCEPT ![s] = "live"]
    /\ due' = due \union {s}
    /\ UNCHANGED <<ckpt, gateway, streams, forwarder, client, faults>>


\* ... GatewayEvent::SessionCreated: it waits in the broadcast, or so many other
\* events follow it that it, and all before it, are forgotten unread.
Announce(s) ==
    /\ s \in due
    /\ due' = due \ {s}
    /\ \/ news' = Append(news, s) /\ UNCHANGED missed
       \/ news' = <<>> /\ missed' = TRUE
    /\ UNCHANGED <<life, log, ckpt, streams, forwarder, client, faults>>

\* close and finish_close: questions are cancelled, the end is published, and
\* every subscriber's sender is dropped.  A deleted session (delete_one) also
\* leaves the host's list.
Close(s) ==
    /\ Running(s)
    /\ Say(s, IF Asking(log[s]) = {} THEN <<"closed">> ELSE <<"resolved", "closed">>)
    /\ LET first == Fanout(streams, s, Len(log[s]) + 1)
       IN  streams' = Cleared(IF Asking(log[s]) = {} THEN first
                              ELSE Fanout(first, s, Len(log'[s])), s)
    /\ \E l \in {"closed", "gone"} : life' = [life EXCEPT ![s] = l]
    /\ UNCHANGED <<ckpt, due, gateway, forwarder, client, faults>>

\* publish when the append fails, and storage_failed
StorageFailed(s) ==
    /\ Running(s)
    /\ Say(s, <<"lost", "end">>)
    /\ streams' = Cleared(Fanout(streams, s, Len(log'[s])), s)
    /\ life' = [life EXCEPT ![s] = "closed"]
    /\ UNCHANGED <<ckpt, due, gateway, forwarder, client, faults>>

(***************************************************************************)
(* The forwarder follows sessions.                                         *)
(***************************************************************************)
\* Mutant: from the last frame forwarded on, instead of after it.
SinceMutant(s) == followed[s].last - 1

Since(s) == followed[s].last
Arriving(s) == followed[s].source \in {"live", "replaying"}

\* Host::descendants: by the host's list alone, parents before children.
Up(s) == LET up[n \in 0 .. Cardinality(Children)] ==
                 IF n = 0 THEN s
                 ELSE IF up[n - 1] \in Children THEN Parent[up[n - 1]] ELSE Root
         IN  {up[n] : n \in 0 .. Cardinality(Children)} \ {Root}
Descendants == {s \in Children : \A a \in Up(s) : Listed(a)}

\* The children a read of the store finds; a deleted one may be there still.
StoredChildren(p) ==
    {{s \in Children : Parent[s] = p /\ life[s] \notin {"unborn", "gone"}} \union G :
        G \in SUBSET {s \in Children : Parent[s] = p /\ life[s] = "gone"}}

Then(tasks) == todo' = tasks \o Tail(todo)
Task(name) == todo # <<>> /\ todo[1][1] = name

FollowFrom(s, last, stream, source) ==
    /\ epochs' = epochs + 1
    /\ followed' = [followed EXCEPT ![s] = [last |-> last, source |-> source,
                                            epoch |-> epochs + 1]]
    /\ streams' = streams \union {stream}

Follow(s, stream, source) == FollowFrom(s, Since(s), stream, source)

\* One task for each of the sessions k, and two.
Each(k, name) == [i \in DOMAIN k |-> <<name, k[i]>>]
AdoptOrReplay(k) == [i \in 1 .. 2 * Len(k) |->
                       <<IF i % 2 = 1 THEN "adopt" ELSE "replay", k[(i + 1) \div 2]>>]

Fault == faults < MaxFaults /\ faults' = faults + 1

\* adopt_descendants, the host's half
ListLive ==
    /\ Task("live")
    /\ Then(Each(SetToSeq(Descendants), "adopt"))
    /\ UNCHANGED <<actors, gateway, streams, followed, epochs, owners, over, client, faults>>

\* adopt_stored, one level: each child is adopted, else replayed, and searched.
ListStored ==
    /\ Task("stored")
    /\ \/ \E kids \in StoredChildren(todo[1][2]) :
            /\ Then(AdoptOrReplay(SetToSeq(kids)) \o Each(SetToSeq(kids), "stored"))
            /\ UNCHANGED faults
       \/ Fault /\ Then(<<>>)
    /\ UNCHANGED <<actors, gateway, streams, followed, epochs, owners, over, client>>

\* adopt: what happens before its await
Adopt ==
    /\ Task("adopt")
    /\ LET s == todo[1][2]
       IN  Then(IF Arriving(s) \/ ~Listed(s) THEN <<>>
                ELSE IF liveOnly /\ followed[s].source = "unknown" THEN <<<<"tail", s>>>>
                ELSE <<<<"join", s>>>>)
    /\ UNCHANGED <<actors, gateway, streams, followed, epochs, owners, over, client, faults>>

\* adopt, answered by events_since: from the head, or from where a replay ended
Join ==
    /\ Task("join")
    /\ LET s == todo[1][2]
       IN  IF Running(s) THEN Follow(s, Subscribe(s, epochs + 1, Since(s)), "live")
           ELSE UNCHANGED <<streams, followed, epochs>>
    /\ Then(<<>>)
    /\ UNCHANGED <<actors, gateway, owners, over, client, faults>>

\* adopt, answered by tail_events: only what comes from here on
JoinTail ==
    /\ Task("tail")
    /\ LET s == todo[1][2]
           cut == Len(log[s])
       IN  IF Running(s)
           THEN /\ FollowFrom(s, cut, Subscribe(s, epochs + 1, cut), "live")
                /\ base' = [base EXCEPT ![s] = cut]
           ELSE UNCHANGED <<streams, followed, epochs, base>>
    /\ Then(<<>>)
    /\ UNCHANGED <<actors, gateway, owners, over, seen, stale, liveOnly, faults>>

\* replay: the journal of a session that does not run here
Replay ==
    /\ Task("replay")
    /\ Then(<<>>)
    /\ LET s == todo[1][2]
       IN  \/ /\ ~Arriving(s)
              /\ Follow(s, Past(s, epochs + 1,
                                Ascending(Between(s, Since(s), Len(log[s]) + 1), Len(log[s])),
                                FALSE),
                        "replaying")
              /\ UNCHANGED faults
           \/ /\ IF Arriving(s) \/ life[s] = "gone" THEN UNCHANGED faults ELSE Fault
              /\ UNCHANGED <<streams, followed, epochs>>
    /\ UNCHANGED <<actors, gateway, owners, over, client>>

\* heal: a stream ended at its marker; go on after the last frame forwarded
Heal ==
    /\ Task("heal")
    /\ LET s == todo[1][2]
       IN  IF followed[s].source = "live" /\ Running(s)
           THEN Follow(s, Subscribe(s, epochs + 1, Since(s)), "live")
           ELSE UNCHANGED <<streams, followed, epochs>>
    /\ Then(<<>>)
    /\ UNCHANGED <<actors, gateway, owners, over, client, faults>>

(***************************************************************************)
(* The forwarder polls its streams.                                        *)
(***************************************************************************)
Polling == todo = <<>> /\ ~over

Becomes(st, st2) == streams' = (streams \ {st}) \union {st2}

\* note_interaction: only a session that runs here can be answered
Noted(s, q) ==
    CASE log[s][q] = "opened" /\ followed[s].source = "live" -> owners \union {<<s, q>>}
      [] log[s][q] = "resolved" -> {o \in owners : o[1] # s}
      [] OTHER -> owners

\* SessionState::apply: an older frame is stale
Apply(s, q) ==
    IF q <= seen[s] THEN stale' = stale \union {<<s, q>>} /\ UNCHANGED seen
    ELSE seen' = [seen EXCEPT ![s] = q] /\ UNCHANGED stale

\* forward: the frame is the last of its session.  The channel to the client has
\* one writer and one reader, so the client folds the frame in the same step, and
\* a client that is slow is a forwarder that does not poll.
Forward(st, q, st2) ==
    /\ Apply(st.session, q)
    /\ followed' = [followed EXCEPT ![st.session].last = q]
    /\ owners' = Noted(st.session, q)
    /\ Becomes(st, st2)
    /\ UNCHANGED <<actors, gateway, epochs, todo, over, base, liveOnly, faults>>

\* catch_up reads the store up to the cut; what is live has queued meanwhile
CatchUp(st) ==
    /\ Polling /\ st.at = "catch"
    /\ \/ /\ LET past == Ascending(Between(st.session, st.since, st.cut),
                                  Len(log[st.session]))
             IN  Becomes(st, [st EXCEPT !.at = Giving(past), !.past = past,
                                        !.since = 0, !.cut = 0])
          /\ UNCHANGED <<todo, faults>>
       \/ /\ Fault \* the marker, and nothing after it
          /\ Becomes(st, Finished(st))
          /\ todo' = <<<<"heal", st.session>>>>
    /\ UNCHANGED <<actors, gateway, followed, epochs, owners, over, client>>

\* What is past comes first; a replay has no live half, and its buffer no sender.
GivePast(st) ==
    /\ Polling /\ st.at = "past"
    /\ Forward(st, Head(st.past),
               [st EXCEPT !.past = Tail(@), !.at = Giving(Tail(st.past))])

\* live: a frame is there, whether tried for or waited for
GiveLive(st) ==
    /\ Polling /\ st.at \in {"try", "recv"} /\ st.buf # <<>>
    /\ Forward(st, Head(st.buf), [st EXCEPT !.buf = Tail(@), !.at = "try"])

\* live: try_recv or recv finds the sender dropped
Disconnected(st) ==
    /\ Polling /\ st.at \in {"try", "recv"} /\ st.buf = <<>> /\ ~st.tx
    /\ Becomes(st, Finished(st))
    /\ UNCHANGED <<actors, gateway, followed, epochs, todo, owners, over, client, faults>>

\* live: try_recv finds nothing, and goes on to the lag in the same poll
FoundEmpty(st) ==
    /\ Polling /\ st.at = "try" /\ st.buf = <<>> /\ st.tx
    /\ Becomes(st, [st EXCEPT !.at = "look"])
    /\ todo' = <<<<"look", st.epoch>>>>
    /\ UNCHANGED <<actors, gateway, followed, epochs, owners, over, client, faults>>

\* live: the lag is taken and the stream ends, or it waits
LookForLag(st) ==
    /\ Task("look") /\ st.epoch = todo[1][2]
    /\ IF st.lag # <<>>
       THEN /\ Becomes(st, Finished(st))
            /\ todo' = <<<<"heal", st.session>>>>
       ELSE /\ Becomes(st, [st EXCEPT !.at = "recv"])
            /\ todo' = <<>>
    /\ UNCHANGED <<actors, gateway, followed, epochs, owners, over, client, faults>>

\* Mutant: the end of a stream that was replaced is taken for the session's.
SupersededMutant(st) == FALSE

Superseded(st) == followed[st.session].epoch # st.epoch

\* ended
Ended(st) ==
    /\ Polling /\ st.at = "over"
    /\ LET s == st.session
           absent == [followed EXCEPT ![s].source = "absent"]
       IN  CASE Superseded(st) ->
                    streams' = streams \ {st} /\ UNCHANGED <<followed, todo, over>>
             [] ~Superseded(st) /\ s = Root ->
                    streams' = {} /\ over' = TRUE /\ UNCHANGED <<followed, todo>>
             [] ~Superseded(st) /\ s # Root /\ followed[s].source = "replaying" ->
                    /\ streams' = streams \ {st}
                    /\ followed' = absent
                    /\ todo' = <<<<"adopt", s>>>>
                    /\ UNCHANGED over
             [] OTHER ->
                    /\ streams' = streams \ {st}
                    /\ followed' = IF Listed(s) THEN followed ELSE absent
                    /\ UNCHANGED <<todo, over>>
    /\ UNCHANGED <<actors, gateway, epochs, owners, client, faults>>

\* gateway_event
HearNews ==
    /\ Polling /\ (missed \/ news # <<>>)
    /\ IF missed
       THEN /\ missed' = FALSE /\ todo' = AdoptAll /\ UNCHANGED news
       ELSE /\ news' = Tail(news) /\ UNCHANGED missed
            /\ todo' = IF followed[Parent[Head(news)]].source # "unknown"
                       THEN <<<<"adopt", Head(news)>>>> ELSE <<>>
    /\ UNCHANGED <<actors, streams, followed, epochs, owners, over, client, faults>>

\* Everything that was said has arrived, and the sessions have no more to say.
Quiet ==
    /\ over \/ /\ todo = <<>> /\ ~missed /\ news = <<>>
               /\ \A st \in streams : st.at = "recv" /\ st.buf = <<>> /\ st.tx
    /\ UNCHANGED vars

Poll == \E st \in streams : \/ CatchUp(st) \/ GivePast(st) \/ GiveLive(st)
                            \/ Disconnected(st) \/ FoundEmpty(st) \/ LookForLag(st)
                            \/ Ended(st)
Work == ListLive \/ ListStored \/ Adopt \/ Join \/ JoinTail \/ Replay \/ Heal \/ HearNews

\* Once the forwarder has returned, what the sessions do reaches nobody here.
Sessioning ==
    /\ ~over
    /\ \/ \E s \in Sessions : \/ \E k \in Sayings : Publish(s, k)
                              \/ Checkpointed(s) \/ Close(s) \/ StorageFailed(s)
       \/ \E s \in Children : Open(s) \/ Announce(s)

Next == Sessioning \/ Poll \/ Work \/ Quiet

Spec == Init /\ [][Next]_vars

\* The forwarder is a task that runs while it has something to do, since its
\* client reads; nobody has to publish anything.
FairSpec == /\ Spec
            /\ WF_vars(Poll) /\ WF_vars(Work)
            /\ \A s \in Children : WF_vars(Announce(s))

(***************************************************************************)
(* Properties.                                                             *)
(***************************************************************************)
Stream == [session : Sessions, epoch : Nat,
           at : {"catch", "past", "try", "look", "recv", "over"},
           since : Nat, cut : Nat, past : Seq(Nat), buf : Seq(Nat),
           lag : {<<>>} \union (Nat \X Nat), tx : BOOLEAN]

Followed == [last : Nat, epoch : Nat, source : {"live", "replaying", "absent", "unknown"}]

Tasks == {<<"live">>} \union ({"stored", "heal"} \X Sessions) \union ({"look"} \X Nat)
           \union ({"adopt", "join", "tail", "replay"} \X Children)

\* Types.
TypeOK ==
    /\ life \in [Sessions -> Lives]
    /\ log \in [Sessions -> Seq(Kinds)]
    /\ ckpt \in [Sessions -> Nat]
    /\ due \subseteq Children
    /\ news \in Seq(Children) /\ missed \in BOOLEAN
    /\ streams \subseteq Stream
    /\ followed \in [Sessions -> Followed]
    /\ epochs \in Nat /\ todo \in Seq(Tasks)
    /\ \A o \in owners : o[2] <= seen[o[1]] /\ log[o[1]][o[2]] = "opened"
    /\ over \in BOOLEAN /\ liveOnly \in BOOLEAN /\ faults \in Nat
    /\ seen \in [Sessions -> Nat] /\ base \in [Sessions -> Nat]
    /\ stale \subseteq Sessions \X Nat

Later(a, b) == IF a > b THEN a ELSE b
Feed == INSTANCE FrameFeed WITH
            kept <- [s \in Sessions |-> Kept(s)],
            head <- [s \in Sessions |-> Len(log[s])],
            at <- [s \in Sessions |-> Later(seen[s], base[s])],
            late <- liveOnly

\* The tree attachment implements the feed: across lags, heals, replays and
\* catch-ups no journalled frame of any session is passed over or out of order.
ImplementsFeed == Feed!Spec

\* "a stream resumed here repeats nothing" (host/tree.rs): a client gets a frame
\* twice only where its own snapshot already covered it.
NoRepeats == \A f \in stale : f[2] <= base[f[1]]

\* The old half of a heal does not end the attachment: only the root's own end does.
EndsWithRoot == over => ~Running(Root)

Known(s) == followed[s].source # "unknown"

\* A session directly under the root is always found; a deeper one once it is known.
Behind == \E s \in Sessions : /\ Running(s) /\ Running(Root)
                              /\ s = Root \/ Parent[s] = Root \/ Known(s)
                              /\ \E q \in Kept(s) : q > Later(seen[s], base[s])

Deep == {s \in Children : Parent[s] # Root}

\* The host still lists all above s, and the forwarder knows its parent.
InReach(s) == /\ Running(s) /\ Running(Root)
              /\ Known(Parent[s]) /\ \A a \in Up(s) : Listed(a)

=============================================================================
