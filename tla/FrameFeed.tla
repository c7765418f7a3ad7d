----------------------------- MODULE FrameFeed -----------------------------
(***************************************************************************)
(* What a client that follows a tree of sessions is promised, whatever     *)
(* buffers, lags and replays lie in between: of each session it sees the   *)
(* frames in the order of their numbers, from where it joined, and no      *)
(* frame the journal keeps is passed over.  Frames the journal never keeps *)
(* (deltas, notices) may be.                                               *)
(***************************************************************************)
EXTENDS Naturals

CONSTANT Sessions

VARIABLES kept,  \* kept[s]: the numbers of the journal's frames of s
          head,  \* head[s]: the last number s has used
          at,    \* at[s]: where the client is with s
          late   \* the client asked only for what comes after it joins

vars == <<kept, head, at, late>>

Init == /\ head \in [Sessions -> Nat]
        /\ kept \in [Sessions -> SUBSET Nat]
        /\ \A s \in Sessions : \A q \in kept[s] : q <= head[s]
        /\ at \in [Sessions -> Nat]
        /\ \A s \in Sessions : at[s] <= head[s]
        /\ late \in BOOLEAN

\* The session goes on: new numbers, and of these the journal keeps some.
Publish(s) ==
    /\ head'[s] > head[s]
    /\ head' = [head EXCEPT ![s] = head'[s]]
    /\ kept[s] \subseteq kept'[s]
    /\ kept'[s] \ kept[s] \subseteq head[s] + 1 .. head'[s]
    /\ kept' = [kept EXCEPT ![s] = kept'[s]]
    /\ UNCHANGED <<at, late>>

\* The client gets frame q: nothing the journal keeps lies in between.
Deliver(s, q) ==
    /\ q \in at[s] + 1 .. head[s]
    /\ \A k \in kept[s] : k <= at[s] \/ k >= q
    /\ at' = [at EXCEPT ![s] = q]
    /\ UNCHANGED <<kept, head, late>>

\* A client that wants no past begins at the head of a session.
Join(s) ==
    /\ late
    /\ at[s] = 0
    /\ at' = [at EXCEPT ![s] = head[s]]
    /\ UNCHANGED <<kept, head, late>>

Next == \E s \in Sessions : \/ Publish(s)
                            \/ \E q \in 1 .. head[s] : Deliver(s, q)
                            \/ Join(s)

Spec == Init /\ [][Next]_vars
=============================================================================
