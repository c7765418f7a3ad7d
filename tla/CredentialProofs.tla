-------------------------- MODULE CredentialProofs --------------------------
(***************************************************************************)
(* The safety of a sign-in for any number of callers, sign-ins and faults. *)
(* SignInInv is inductive: tokens are handed out once (Fresh), a caller    *)
(* inside the lock holds what its place says (Bound), what replace compared *)
(* is still in the file when it saves (Paired), and one that waited while  *)
(* another renewed can tell (Noticed).                                     *)
(***************************************************************************)
EXTENDS Credential, TLAPS

\* A token the issuer has yet to mint is nowhere.
Fresh ==
  /\ file.access <= issuer.minted /\ file.refresh <= issuer.minted
  /\ last.refresh <= issuer.minted
  /\ \A t \in issuer.takes : t <= issuer.minted
  /\ other.loaded.entry.access <= issuer.minted /\ other.loaded.entry.refresh <= issuer.minted
  /\ \A c \in Callers : /\ call[c].entry.refresh <= issuer.minted
                        /\ call[c].reply.access <= issuer.minted /\ call[c].reply.refresh <= issuer.minted
                        /\ kind = "mcp" => call[c].seen <= issuer.minted

\* What a provider's caller holds: what it renewed is of the entry's sign-in,
\* and what was refused is of no use any more.
Bound(c) ==
  /\ call[c].at \in {"renewed", "saving"} =>
       call[c].reply.line = call[c].entry.line /\ call[c].reply.access # 0
  /\ call[c].at \in {"sent", "refused", "erasing"} => ~call[c].entry.key
  /\ call[c].at \in {"refused", "erasing"} => call[c].entry.refresh \notin issuer.takes
  /\ call[c].at # "storing"

\* The file is what was put there last and comes from the last decision, unless
\* that credential has expired.
Stands ==
  ~other.crossed =>
    /\ file # NoEntry => file = last /\ file.line = decided
    /\ file = NoEntry /\ decided # 0 => ~last.key /\ last.refresh \notin issuer.takes

\* Between the comparison and the rename of replace the file is what was compared.
Paired ==
  ~other.crossed =>
    \A c \in Callers : call[c].at \in {"saving", "erasing"} => file = call[c].entry

\* A caller can tell that another renewed while it waited.
Told == kind = "provider" \/ ~other.crossed

\* A caller that waited while another renewed sees another generation, or
\* another bearer, than the one it decided on: a bearer is stored once.
Noticed(c) ==
  /\ Told => (call[c].since => call[c].at \in {"waiting", "locked"})
  /\ kind = "provider" => /\ call[c].seen <= generation
                          /\ call[c].since => call[c].seen < generation
  /\ kind = "mcp" => call[c].at \notin {"superseded", "replacing", "remembering", "saving", "erasing"}
  /\ kind = "mcp" /\ ~other.crossed =>
                     /\ call[c].since => /\ call[c].at = "waiting"
                                         /\ file = NoEntry \/ file.access # call[c].seen
                     /\ call[c].at \in {"renewed", "storing"} =>
                          /\ file.access # call[c].reply.access /\ call[c].reply.access # 0
                          /\ \A d \in Callers : call[d].at = "waiting" => call[d].seen # call[c].reply.access

SignInInv ==
  /\ TypeOK /\ Fresh
  /\ kind = "provider" => Stands /\ Paired /\ \A c \in Callers : Bound(c)
  /\ \A c \in Callers : Noticed(c)

-----------------------------------------------------------------------------
(* Entries. *)

\* The fields of an entry; NoEntry is one that names nothing.
LEMMA EntryFields ==
  /\ \A e \in Entry : /\ e.key \in BOOLEAN /\ e.access \in Tokens /\ e.refresh \in Tokens
                      /\ e.client \in Logins /\ e.line \in Logins /\ e.mintedFor \in Logins
  /\ NoEntry \in Entry /\ NoEntry.access = 0 /\ NoEntry.refresh = 0 /\ NoEntry.line = 0
  /\ NoEntry.client = 0
BY CredentialAssumption DEF Entry, NoEntry, Tokens, Logins

\* A renewal is of the entry's sign-in, with a new bearer.
LEMMA GrantedIs ==
  ASSUME NEW c, call[c].entry \in Entry, issuer.minted \in Tokens, CanMint, NEW rotates \in BOOLEAN
  PROVE  /\ Granted(c, rotates) \in Entry
         /\ Granted(c, rotates).access = Minted /\ Granted(c, rotates).refresh \in {Minted, call[c].entry.refresh}
         /\ Granted(c, rotates).line = call[c].entry.line
         /\ Minted \in Tokens
<1>1. Minted \in Tokens
  BY CredentialAssumption DEF Minted, CanMint, Tokens
<1>. DEFINE e == call[c].entry
            g == [e EXCEPT !.access = Minted, !.refresh = IF rotates THEN Minted ELSE @]
<1>2. g \in Entry /\ g.access = Minted /\ g.refresh \in {Minted, e.refresh} /\ g.line = e.line
  BY <1>1 DEF Entry
<1>. QED
  BY <1>1, <1>2 DEF Granted

\* What a sign-in brings is an entry of its own line, with new tokens.
Brings(e) == e \in Entry /\ e.access = Minted /\ e.refresh \in {0, Minted} /\ e # NoEntry

LEMMA SignedInBrings ==
  ASSUME issuer.minted \in Tokens, CanMint, Signs \in Logins,
         NEW key \in BOOLEAN, NEW renewable \in BOOLEAN, NEW client \in Logins
  PROVE  Brings(SignedIn(key, renewable, client))
<1>1. Minted \in Tokens /\ 0 \in Tokens /\ Minted # 0
  BY CredentialAssumption DEF Minted, CanMint, Tokens
<1>2. /\ SignedIn(key, renewable, client) \in Entry
      /\ SignedIn(key, renewable, client).access = Minted
      /\ SignedIn(key, renewable, client).refresh \in {0, Minted}
  BY <1>1 DEF SignedIn, Entry
<1>. QED
  BY <1>1, <1>2, EntryFields DEF Brings

\* The same of another process, and of an MCP server, whose line was counted before.
LEMMA ElsewhereBrings ==
  ASSUME issuer.minted \in Tokens, CanMint, Signs \in Logins, NEW client \in Logins
  PROVE  Brings(SignedIn(FALSE, TRUE, client))
<1>1. Minted \in Tokens /\ 0 \in Tokens /\ Minted # 0
  BY CredentialAssumption DEF Minted, CanMint, Tokens
<1>. DEFINE e == SignedIn(FALSE, TRUE, client)
<1>2. e \in Entry /\ e.access = Minted /\ e.refresh \in {0, Minted}
  BY <1>1 DEF SignedIn, Entry
<1>. HIDE DEF e
<1>3. Brings(e)
  BY <1>1, <1>2, EntryFields DEF Brings
<1>. QED
  BY <1>3 DEF e

LEMMA McpBrings ==
  ASSUME issuer.minted \in Tokens, CanMint,
         NEW renewable \in BOOLEAN, NEW client \in Logins, NEW line \in Logins
  PROVE  Brings([SignedIn(FALSE, renewable, client) EXCEPT !.line = line])
<1>1. Minted \in Tokens /\ 0 \in Tokens /\ Minted # 0
  BY CredentialAssumption DEF Minted, CanMint, Tokens
<1>. DEFINE e == [SignedIn(FALSE, renewable, client) EXCEPT !.line = line]
<1>2. e \in Entry /\ e.access = Minted /\ e.refresh \in {0, Minted}
  BY <1>1 DEF SignedIn, Entry
<1>. HIDE DEF e
<1>3. Brings(e)
  BY <1>1, <1>2, EntryFields DEF Brings
<1>. QED
  BY <1>3 DEF e

-----------------------------------------------------------------------------
(* What the steps of a caller make of it. *)

Becomes(c, at, seen, entry, reply, since) ==
  /\ call' \in [Callers -> Call]
  /\ \A d \in Callers : d # c => call'[d] = call[d]
  /\ call'[c].at = at /\ call'[c].seen = seen /\ call'[c].entry = entry
  /\ call'[c].reply = reply /\ call'[c].since = since

\* Nobody is asking for anything to begin with.
LEMMA RestingIs ==
  /\ Resting \in Call /\ Resting.at = "idle" /\ Resting.seen = 0 /\ Resting.entry = NoEntry
  /\ Resting.reply = NoEntry /\ Resting.since = FALSE
BY EntryFields, CredentialAssumption DEF Resting, Call, Places, Logins

\* The fields of a caller.
LEMMA CallFields ==
  ASSUME TypeOK, NEW c \in Callers
  PROVE  /\ call[c].at \in Places /\ call[c].seen \in Nat /\ call[c].entry \in Entry
         /\ call[c].client \in Logins /\ call[c].reply \in Entry /\ call[c].since \in BOOLEAN
BY DEF TypeOK, Call

\* A call that returns rests.
LEMMA ReturnsIs ==
  ASSUME TypeOK, NEW c \in Callers, Returns(c)
  PROVE  Becomes(c, "idle", 0, NoEntry, NoEntry, FALSE) /\ refreshing' = Nobody
<1>1. call \in [Callers -> Call] /\ call' = [call EXCEPT ![c] = Resting] /\ refreshing' = Nobody
  BY DEF TypeOK, Returns
<1>2. call' \in [Callers -> Call] /\ call'[c] = Resting /\ \A d \in Callers : d # c => call'[d] = call[d]
  BY <1>1, RestingIs
<1>. QED
  BY <1>1, <1>2, RestingIs DEF Becomes

\* A caller that goes to another place keeps what it holds.
LEMMA GoesIs ==
  ASSUME TypeOK, NEW c \in Callers, NEW place \in Places, Goes(c, place)
  PROVE  /\ Becomes(c, place, call[c].seen, call[c].entry, call[c].reply, call[c].since)
         /\ refreshing' = refreshing
BY DEF TypeOK, Goes, Becomes, Call

\* A caller that renewed rests, and those that wait know they did.
LEMMA RenewsIs ==
  ASSUME TypeOK, NEW c \in Callers, Renews(c)
  PROVE  /\ call' \in [Callers -> Call] /\ call'[c] = Resting /\ refreshing' = Nobody
         /\ \A d \in Callers :
              d # c => /\ call'[d].at = call[d].at /\ call'[d].seen = call[d].seen
                       /\ call'[d].entry = call[d].entry /\ call'[d].reply = call[d].reply
                       /\ call'[d].since = (call[d].at # "idle")
<1>1. call \in [Callers -> Call]
  BY DEF TypeOK
<1>2. /\ refreshing' = Nobody
      /\ call' = [d \in Callers |-> IF d = c THEN Resting
                                    ELSE [call[d] EXCEPT !.since = call[d].at # "idle"]]
  BY DEF Renews
<1>3. \A d \in Callers :
        LET r == [call[d] EXCEPT !.since = call[d].at # "idle"]
        IN  /\ r \in Call /\ r.at = call[d].at /\ r.seen = call[d].seen
            /\ r.entry = call[d].entry /\ r.reply = call[d].reply
            /\ r.since = (call[d].at # "idle")
  BY <1>1 DEF Call
<1>. QED
  BY <1>2, <1>3, RestingIs

-----------------------------------------------------------------------------
(* What is left to see of a caller's step, part by part. *)

Calls ==
  /\ refreshing \in Callers \cup {Nobody} /\ call \in [Callers -> Call]
  /\ \A c \in Callers : call[c].at \in Inside <=> refreshing = c
  /\ \A c \in Callers : call[c].at \in Inside => call[c].entry # NoEntry

Plain ==
  /\ kind \in Kinds
  /\ file \in Entry /\ last \in Entry /\ decided \in Logins
  /\ cache \in Cached /\ generation \in Nat /\ retired \in BOOLEAN
  /\ person \in Person
  /\ issuer \in [minted : Tokens, takes : SUBSET (1..MaxMinted)]
  /\ faults \in 0..MaxFaults
  /\ other \in [loaded : Cached, crossed : BOOLEAN]

\* One caller moves, and takes, keeps or drops the lock as its place says.
LEMMA CallsStep ==
  ASSUME TypeOK, NEW c \in Callers, NEW at, NEW seen, NEW entry, NEW reply, NEW since,
         Becomes(c, at, seen, entry, reply, since),
         at \in Inside => entry # NoEntry,
         \/ at \in Inside /\ refreshing' = c /\ refreshing \in {c, Nobody}
         \/ at \notin Inside /\ refreshing' = Nobody /\ refreshing \in {c, Nobody}
         \/ at \notin Inside /\ refreshing' = refreshing /\ refreshing # c
  PROVE  Calls'
BY CredentialAssumption DEF TypeOK, Calls, Becomes

\* The entry another process loaded.
LEMMA LoadedIs ==
  ASSUME TypeOK
  PROVE  /\ other.loaded.entry \in Entry
         /\ other.loaded.entry.access \in Nat /\ other.loaded.entry.refresh \in Nat
<1>1. other.loaded.entry \in Entry
  BY DEF TypeOK, Cached
<1>. QED
  BY <1>1, EntryFields DEF Tokens

LEMMA FreshStep ==
  ASSUME SignInInv, NEW c \in Callers, NEW at, NEW seen, NEW entry, NEW reply, NEW since,
         Becomes(c, at, seen, entry, reply, since), kind' = kind,
         issuer'.minted \in Nat, issuer.minted <= issuer'.minted,
         file' \in Entry, last' \in Entry, entry \in Entry, reply \in Entry, seen \in Nat,
         issuer'.takes \subseteq Nat,
         file'.access <= issuer'.minted, file'.refresh <= issuer'.minted,
         last'.refresh <= issuer'.minted,
         \A t \in issuer'.takes : t <= issuer'.minted,
         entry.refresh <= issuer'.minted, reply.access <= issuer'.minted, reply.refresh <= issuer'.minted,
         kind = "mcp" => seen <= issuer'.minted, other' = other
  PROVE  Fresh'
<1>1. issuer.minted \in Nat
  BY DEF SignInInv, TypeOK, Tokens
<1>2. \A d \in Callers : call[d].entry.refresh \in Nat /\ call[d].reply.access \in Nat /\ call[d].reply.refresh \in Nat /\ call[d].seen \in Nat
  BY CallFields, EntryFields DEF SignInInv, Tokens
<1>3. ASSUME NEW d \in Callers
      PROVE  /\ call'[d].entry.refresh <= issuer'.minted /\ call'[d].reply.access <= issuer'.minted /\ call'[d].reply.refresh <= issuer'.minted
             /\ kind = "mcp" => call'[d].seen <= issuer'.minted
  BY <1>1, <1>2, <1>3 DEF SignInInv, Fresh, Becomes
<1>4. other.loaded.entry.access <= issuer'.minted /\ other.loaded.entry.refresh <= issuer'.minted
  BY <1>1, LoadedIs DEF SignInInv, Fresh
<1>. QED
  BY <1>3, <1>4 DEF Fresh

LEMMA NoticedStep ==
  ASSUME SignInInv, NEW c \in Callers, NEW at, NEW seen, NEW entry, NEW reply, NEW since,
         Becomes(c, at, seen, entry, reply, since), kind' = kind, other' = other,
         generation' \in Nat, generation <= generation', seen \in Nat,
         kind = "mcp" => file' = file \/ file' = NoEntry,
         Told => (since => at \in {"waiting", "locked"}),
         kind = "provider" => seen <= generation /\ (since => seen < generation),
         kind = "mcp" => at \notin {"superseded", "replacing", "remembering", "saving", "erasing"},
         kind = "mcp" /\ ~other.crossed =>
           /\ since => at = "waiting" /\ (file = NoEntry \/ file.access # seen)
           /\ at \in {"renewed", "storing"} =>
                /\ file.access # reply.access /\ reply.access # 0
                /\ \A d \in Callers : call[d].at = "waiting" => call[d].seen # reply.access
           /\ at = "waiting" => \A d \in Callers : call[d].at \in {"renewed", "storing"} => call[d].reply.access # seen
  PROVE  \A d \in Callers : Noticed(d)'
<1>1. generation \in Nat /\ \A d \in Callers : call[d].seen \in Nat
  BY CallFields DEF SignInInv, TypeOK
<1>. SUFFICES ASSUME NEW d \in Callers
              PROVE  Noticed(d)'
  OBVIOUS
<1>2. Told' => (call'[d].since => call'[d].at \in {"waiting", "locked"})
  BY DEF SignInInv, Noticed, Becomes, Told
<1>3. kind = "provider" => /\ call'[d].seen <= generation'
                           /\ call'[d].since => call'[d].seen < generation'
  BY <1>1 DEF SignInInv, Noticed, Becomes
<1>4. /\ kind = "mcp" => call'[d].at \notin {"superseded", "replacing", "remembering", "saving", "erasing"}
      /\ kind = "mcp" /\ ~other.crossed =>
           (call'[d].since => /\ call'[d].at = "waiting"
                              /\ file' = NoEntry \/ file'.access # call'[d].seen)
  BY <1>1 DEF SignInInv, Noticed, Becomes
<1>5. ASSUME kind = "mcp", ~other.crossed, call'[d].at \in {"renewed", "storing"}
      PROVE  /\ file'.access # call'[d].reply.access /\ call'[d].reply.access # 0
             /\ \A e \in Callers : call'[e].at = "waiting" => call'[e].seen # call'[d].reply.access
  <2>1. CASE d = c
    BY <1>5, <2>1, EntryFields DEF SignInInv, Noticed, Becomes
  <2>2. CASE d # c
    <3>1. call[d].at \in {"renewed", "storing"} /\ call'[d] = call[d]
      BY <1>5, <2>2 DEF Becomes
    <3>2. /\ file.access # call[d].reply.access /\ call[d].reply.access # 0
          /\ \A e \in Callers : call[e].at = "waiting" => call[e].seen # call[d].reply.access
      BY <1>5, <3>1 DEF SignInInv, Noticed
    <3>. QED
      BY <1>5, <3>1, <3>2, EntryFields DEF Becomes
  <2>. QED
    BY <2>1, <2>2
<1>. QED
  BY <1>2, <1>3, <1>4, <1>5 DEF Noticed

\* What the comparison saw is in the file while only the callers move.
LEMMA PairedStep ==
  ASSUME SignInInv, NEW c \in Callers, NEW at, NEW seen, NEW entry, NEW reply, NEW since,
         Becomes(c, at, seen, entry, reply, since), kind = "provider", file' = file, other' = other,
         at \in {"saving", "erasing"} => other.crossed \/ file = entry
  PROVE  Paired'
BY DEF SignInInv, Paired, Becomes

\* Nobody but the one who holds the lock is inside replace.
LEMMA PairedAfter ==
  ASSUME Calls', NEW c \in Callers, refreshing' = c, call'[c].at \notin {"saving", "erasing"}
  PROVE  Paired'
<1>1. \A d \in Callers : call'[d].at \in Inside <=> refreshing' = d
  BY DEF Calls
<1>2. "saving" \in Inside /\ "erasing" \in Inside
  BY DEF Inside, Places
<1>. QED
  BY <1>1, <1>2 DEF Paired

LEMMA BoundStep ==
  ASSUME SignInInv, NEW c \in Callers, NEW at, NEW seen, NEW entry, NEW reply, NEW since,
         Becomes(c, at, seen, entry, reply, since), kind = "provider",
         \A t \in issuer'.takes : t \in issuer.takes \/ t = Minted,
         at \in {"renewed", "saving"} => reply.line = entry.line /\ reply.access # 0,
         at \in {"sent", "refused", "erasing"} => ~entry.key,
         at \in {"refused", "erasing"} => entry.refresh \notin issuer'.takes,
         at # "storing"
  PROVE  \A d \in Callers : Bound(d)'
<1>. SUFFICES ASSUME NEW d \in Callers
              PROVE  Bound(d)'
  OBVIOUS
<1>1. CASE d = c
  BY <1>1 DEF Becomes, Bound
<1>2. CASE d # c
  <2>1. call'[d] = call[d] /\ Bound(d)
    BY <1>2 DEF Becomes, SignInInv
  <2>2. call[d].entry.refresh # Minted
    BY CallFields, EntryFields DEF SignInInv, Fresh, Minted, TypeOK, Tokens
  <2>. QED
    BY <2>1, <2>2 DEF Bound
<1>. QED
  BY <1>1, <1>2

\* A step that leaves the file, the decisions and the issuer keeps the invariant
\* when what the caller takes along fits its new place.
LEMMA MoveKeeps ==
  ASSUME SignInInv, NEW c \in Callers,
         NEW at, NEW seen \in Nat, NEW entry \in Entry, NEW reply \in Entry, NEW since,
         Becomes(c, at, seen, entry, reply, since), Plain',
         UNCHANGED <<kind, file, decision, issuer>>, generation <= generation',
         at \in Inside => entry # NoEntry,
         \/ at \in Inside /\ refreshing' = c /\ refreshing \in {c, Nobody}
         \/ at \notin Inside /\ refreshing' = Nobody /\ refreshing \in {c, Nobody}
         \/ at \notin Inside /\ refreshing' = refreshing /\ refreshing # c,
         entry.refresh <= issuer.minted, reply.access <= issuer.minted, reply.refresh <= issuer.minted,
         kind = "mcp" => seen <= issuer.minted,
         Told => (since => at \in {"waiting", "locked"}),
         kind = "provider" =>
           /\ seen <= generation /\ (since => seen < generation)
           /\ at \in {"renewed", "saving"} => reply.line = entry.line /\ reply.access # 0
           /\ at \in {"sent", "refused", "erasing"} => ~entry.key
           /\ at \in {"refused", "erasing"} => entry.refresh \notin issuer.takes
           /\ at \in {"saving", "erasing"} => file = entry
           /\ at # "storing",
         kind = "mcp" => at \notin {"superseded", "replacing", "remembering", "saving", "erasing"},
         kind = "mcp" /\ ~other.crossed =>
           /\ since => at = "waiting" /\ (file = NoEntry \/ file.access # seen)
           /\ at \in {"renewed", "storing"} =>
                /\ file.access # reply.access /\ reply.access # 0
                /\ \A d \in Callers : call[d].at = "waiting" => call[d].seen # reply.access
           /\ at = "waiting" => \A d \in Callers : call[d].at \in {"renewed", "storing"} => call[d].reply.access # seen
  PROVE  SignInInv'
<1>1. /\ TypeOK /\ Fresh /\ kind' = kind /\ issuer' = issuer /\ file' = file /\ last' = last
      /\ decided' = decided /\ other' = other
  BY DEF SignInInv, decision
<1>2. TypeOK'
  <2>1. Calls'
    BY <1>1, CallsStep
  <2>. QED
    BY <2>1 DEF TypeOK, Plain, Calls
<1>3. Fresh'
  <2>1. issuer.minted \in Nat /\ issuer.takes \subseteq Nat /\ file \in Entry /\ last \in Entry
    BY <1>1 DEF TypeOK, Tokens
  <2>2. /\ file.access <= issuer.minted /\ file.refresh <= issuer.minted
        /\ last.refresh <= issuer.minted /\ \A t \in issuer.takes : t <= issuer.minted
    BY <1>1 DEF Fresh
  <2>. QED
    BY <1>1, <2>1, <2>2, FreshStep
<1>4. \A d \in Callers : Noticed(d)'
  <2>1. generation' \in Nat
    BY DEF Plain
  <2>. QED
    BY <1>1, <2>1, NoticedStep
<1>5. kind = "provider" => Stands' /\ Paired' /\ \A d \in Callers : Bound(d)'
  <2>. SUFFICES ASSUME kind = "provider"
                PROVE  Stands' /\ Paired' /\ \A d \in Callers : Bound(d)'
    OBVIOUS
  <2>1. Stands'
    BY <1>1 DEF SignInInv, Stands
  <2>2. \A d \in Callers : Bound(d)'
    BY <1>1, BoundStep
  <2>3. Paired'
    BY <1>1, PairedStep
  <2>. QED
    BY <2>1, <2>2, <2>3
<1>. QED
  BY <1>1, <1>2, <1>3, <1>4, <1>5 DEF SignInInv

\* A caller that returns without having changed anything.
LEMMA RestKeeps ==
  ASSUME SignInInv, NEW c \in Callers, Returns(c), Plain', refreshing \in {c, Nobody},
         UNCHANGED <<kind, file, decision, issuer>>, generation <= generation'
  PROVE  SignInInv'
<1>1. Becomes(c, "idle", 0, NoEntry, NoEntry, FALSE) /\ refreshing' = Nobody
  BY ReturnsIs DEF SignInInv
<1>2. issuer.minted \in Nat /\ generation \in Nat
  BY DEF SignInInv, TypeOK, Tokens
<1>3. "idle" \notin Inside
  BY DEF Inside
<1>4. /\ NoEntry \in Entry /\ NoEntry.refresh <= issuer.minted /\ NoEntry.access <= issuer.minted
      /\ 0 <= issuer.minted /\ 0 <= generation
  BY <1>2, EntryFields
<1>. QED
  BY <1>1, <1>3, <1>4, MoveKeeps

\* A caller that goes on inside the lock with what it has.
LEMMA GoKeeps ==
  ASSUME SignInInv, NEW c \in Callers, NEW place \in Inside, Goes(c, place), Plain',
         call[c].at \in Inside, Told => ~call[c].since,
         UNCHANGED <<kind, file, decision, issuer>>, generation <= generation',
         place \notin {"renewed", "storing"},
         kind = "provider" =>
           /\ place = "saving" => call[c].reply.line = call[c].entry.line /\ call[c].reply.access # 0
           /\ place \in {"sent", "refused", "erasing"} => ~call[c].entry.key
           /\ place \in {"refused", "erasing"} => call[c].entry.refresh \notin issuer.takes
           /\ place \in {"saving", "erasing"} => file = call[c].entry,
         kind = "mcp" => place \notin {"superseded", "replacing", "remembering", "saving", "erasing"}
  PROVE  SignInInv'
<1>1. /\ Becomes(c, place, call[c].seen, call[c].entry, call[c].reply, call[c].since)
      /\ refreshing' = refreshing
  BY GoesIs DEF SignInInv, Inside
<1>2. refreshing = c /\ call[c].entry # NoEntry
  BY DEF SignInInv, TypeOK
<1>3. /\ call[c].seen \in Nat /\ call[c].entry \in Entry /\ call[c].reply \in Entry
  BY CallFields DEF SignInInv
<1>4. /\ call[c].entry.refresh <= issuer.minted /\ call[c].reply.access <= issuer.minted /\ call[c].reply.refresh <= issuer.minted
      /\ kind = "mcp" => call[c].seen <= issuer.minted
  BY DEF SignInInv, Fresh
<1>5. /\ kind = "provider" => call[c].seen <= generation
      /\ kind = "provider" => Told
      /\ kind = "mcp" /\ ~other.crossed => Told
  BY DEF SignInInv, Noticed, Told
<1>6. place # "waiting"
  BY DEF Inside
<1>. QED
  BY <1>1, <1>2, <1>3, <1>4, <1>5, <1>6, MoveKeeps

-----------------------------------------------------------------------------
(* The steps of a caller. *)

\* Filling the cache keeps its type, and holding an entry does.
LEMMA CacheTypes ==
  /\ TypeOK => Filled \in Cached /\ Looked \in Cached
  /\ Empty \in Cached /\ Expired \in Cached /\ \A e \in Entry : Holds(e) \in Cached
BY EntryFields DEF TypeOK, Filled, Looked, Cached, Empty, Expired, Holds

\* A caller inside the lock holds it, and has an entry.
LEMMA Locked ==
  ASSUME SignInInv, NEW c \in Callers, call[c].at \in Inside
  PROVE  refreshing = c /\ call[c].entry # NoEntry
BY DEF SignInInv, TypeOK

\* Faults are counted up to their bound.
LEMMA FaultIs == TypeOK /\ Fault => faults' \in 0..MaxFaults
BY CredentialAssumption DEF TypeOK, Fault

LEMMA AccessTokenKeeps ==
  ASSUME SignInInv, NEW c \in Callers, NEW renew \in BOOLEAN, AccessToken(c, renew)
  PROVE  SignInInv'
<1>1. Plain'
  BY CacheTypes DEF SignInInv, TypeOK, Plain, AccessToken, decision
<1>2. /\ call[c].at = "idle" /\ UNCHANGED <<kind, file, decision, issuer>> /\ generation' = generation
      /\ refreshing' = refreshing /\ generation \in Nat
  BY DEF AccessToken, SignInInv, TypeOK
<1>3. refreshing # c
  BY <1>2 DEF SignInInv, TypeOK, Inside
<1>4. CASE call' = call
  <2>1. Becomes(c, call[c].at, call[c].seen, call[c].entry, call[c].reply, call[c].since)
    BY <1>4 DEF Becomes, SignInInv, TypeOK
  <2>2. /\ call[c].seen \in Nat /\ call[c].entry \in Entry /\ call[c].reply \in Entry
    BY CallFields DEF SignInInv
  <2>3. /\ call[c].entry.refresh <= issuer.minted /\ call[c].reply.access <= issuer.minted /\ call[c].reply.refresh <= issuer.minted
        /\ kind = "mcp" => call[c].seen <= issuer.minted
    BY DEF SignInInv, Fresh
  <2>4. /\ kind = "provider" => call[c].seen <= generation
        /\ Told => ~call[c].since
        /\ kind = "provider" => Told
        /\ kind = "mcp" /\ ~other.crossed => Told
    BY <1>2 DEF SignInInv, Noticed, Told
  <2>5. call[c].at \notin Inside
    BY <1>2 DEF Inside
  <2>. QED
    BY <1>1, <1>2, <1>3, <2>1, <2>2, <2>3, <2>4, <2>5, MoveKeeps
<1>5. CASE \E seen \in Nat : /\ Waits(c, seen)
                             /\ kind = "provider" => seen = generation
                             /\ kind = "mcp" => seen = file.access
  <2>1. PICK seen \in Nat : /\ Waits(c, seen)
                            /\ kind = "provider" => seen = generation
                            /\ kind = "mcp" => seen = file.access
    BY <1>5
  <2>2. Becomes(c, "waiting", seen, NoEntry, NoEntry, FALSE)
    <3>. DEFINE r == [Resting EXCEPT !.at = "waiting", !.seen = seen]
    <3>1. r \in Call /\ r.at = "waiting" /\ r.seen = seen /\ r.entry = NoEntry /\ r.reply = NoEntry /\ r.since = FALSE
      BY RestingIs DEF Call, Places
    <3>2. call \in [Callers -> Call] /\ call' = [call EXCEPT ![c] = r]
      BY <2>1 DEF Waits, SignInInv, TypeOK
    <3>. HIDE DEF r
    <3>3. call' \in [Callers -> Call] /\ call'[c] = r /\ \A d \in Callers : d # c => call'[d] = call[d]
      BY <3>1, <3>2
    <3>. QED
      BY <3>1, <3>3 DEF Becomes
  <2>3. issuer.minted \in Nat
    BY DEF SignInInv, TypeOK, Tokens
  <2>4. /\ NoEntry \in Entry /\ NoEntry.refresh <= issuer.minted /\ NoEntry.access <= issuer.minted
    BY <2>3, EntryFields
  <2>5. kind = "mcp" => seen <= issuer.minted
    BY <2>1 DEF SignInInv, Fresh
  <2>6. kind = "mcp" /\ ~other.crossed =>
          \A d \in Callers : call[d].at \in {"renewed", "storing"} => call[d].reply.access # seen
    BY <2>1 DEF SignInInv, Noticed
  <2>7. "waiting" \notin Inside
    BY DEF Inside
  <2>8. kind = "provider" => seen <= generation
    BY <2>1, <1>2
  <2>9. seen \in Nat /\ generation <= generation'
    BY <1>2, <2>1
  <2>. QED
    BY <1>1, <1>2, <1>3, <2>2, <2>4, <2>5, <2>6, <2>7, <2>8, <2>9, MoveKeeps
<1>6. kind \in {"provider", "mcp"} /\ file.access \in Nat
  BY EntryFields, CredentialAssumption DEF SignInInv, TypeOK, Tokens
<1>. QED
  BY <1>2, <1>4, <1>5, <1>6 DEF AccessToken

LEMMA LockKeeps ==
  ASSUME SignInInv, NEW c \in Callers, Lock(c)
  PROVE  SignInInv'
<1>1. Plain'
  BY DEF SignInInv, TypeOK, Plain, Lock, cached, decision
<1>2. /\ call[c].at = "waiting" /\ UNCHANGED <<kind, file, decision, issuer>> /\ generation' = generation
      /\ refreshing = Nobody /\ generation \in Nat
  BY DEF Lock, SignInInv, TypeOK, cached
<1>3. CASE Returns(c)
  BY <1>1, <1>2, <1>3, RestKeeps
<1>4. CASE /\ file # NoEntry /\ (kind = "mcp" => file.access = call[c].seen)
           /\ refreshing' = c
           /\ call' = [call EXCEPT ![c].at = "locked", ![c].entry = file]
  <2>1. Becomes(c, "locked", call[c].seen, file, call[c].reply, call[c].since)
    BY <1>4 DEF Becomes, SignInInv, TypeOK, Call, Places
  <2>2. /\ call[c].seen \in Nat /\ file \in Entry /\ call[c].reply \in Entry
    BY CallFields DEF SignInInv, TypeOK
  <2>3. /\ file.refresh <= issuer.minted /\ call[c].reply.access <= issuer.minted /\ call[c].reply.refresh <= issuer.minted
        /\ kind = "mcp" => call[c].seen <= issuer.minted
    BY DEF SignInInv, Fresh
  <2>4. /\ kind = "provider" => call[c].seen <= generation /\ (call[c].since => call[c].seen < generation)
        /\ kind = "mcp" /\ ~other.crossed => ~call[c].since
    BY <1>4 DEF SignInInv, Noticed
  <2>5. "locked" \in Inside
    BY DEF Inside, Places
  <2>. QED
    BY <1>1, <1>2, <1>4, <2>1, <2>2, <2>3, <2>4, <2>5, MoveKeeps
<1>. QED
  BY <1>3, <1>4 DEF Lock

\* A caller that sends knows that nobody renewed since it asked.
LEMMA SendsKeeps ==
  ASSUME SignInInv, NEW c \in Callers, call[c].at = "locked", Sends(c), Plain', Told => ~call[c].since,
         UNCHANGED <<kind, file, decision, issuer>>, generation' = generation,
         kind = "provider" => ~call[c].entry.key
  PROVE  SignInInv'
<1>1. /\ call[c].at \in Inside /\ refreshing = c /\ call[c].entry # NoEntry /\ generation \in Nat
      /\ "sent" \in Inside /\ "refused" \in Inside
  BY Locked DEF Inside, Places, SignInInv, TypeOK
<1>2. CASE call[c].entry.refresh = 0 /\ Goes(c, "refused")
  <2>1. call[c].entry.refresh \notin issuer.takes
    BY <1>2 DEF SignInInv, TypeOK
  <2>. QED
    BY <1>1, <1>2, <2>1, GoKeeps
<1>3. CASE /\ call' = [call EXCEPT ![c].at = "sent", ![c].client = file.client]
           /\ refreshing' = refreshing
  <2>1. Becomes(c, "sent", call[c].seen, call[c].entry, call[c].reply, call[c].since)
    BY <1>3, EntryFields, ZenonT(40) DEF Becomes, SignInInv, TypeOK, Call, Places
  <2>2. /\ call[c].seen \in Nat /\ call[c].entry \in Entry /\ call[c].reply \in Entry
    BY CallFields DEF SignInInv, TypeOK
  <2>3. /\ call[c].entry.refresh <= issuer.minted /\ call[c].reply.access <= issuer.minted /\ call[c].reply.refresh <= issuer.minted
        /\ kind = "mcp" => call[c].seen <= issuer.minted
    BY DEF SignInInv, Fresh
  <2>4. /\ kind = "provider" => call[c].seen <= generation
        /\ kind = "provider" => Told
        /\ kind = "mcp" /\ ~other.crossed => Told
    BY DEF SignInInv, Noticed, Told
  <2>. QED
    BY <1>1, <1>3, <2>1, <2>2, <2>3, <2>4, MoveKeeps
<1>. QED
  BY <1>2, <1>3 DEF Sends

LEMMA RefreshKeeps ==
  ASSUME SignInInv, NEW c \in Callers, Refresh(c)
  PROVE  SignInInv'
<1>1. Plain'
  BY CacheTypes DEF SignInInv, TypeOK, Plain, Refresh, decision
<1>2. /\ call[c].at = "locked" /\ UNCHANGED <<kind, file, decision, issuer>> /\ generation' = generation
      /\ call[c].at \in Inside /\ refreshing = c /\ generation \in Nat /\ kind = "provider"
  BY Locked DEF Refresh, SignInInv, TypeOK, Inside, Places
<1>3. CASE Returns(c)
  BY <1>1, <1>2, <1>3, RestKeeps
<1>4. CASE generation = call[c].seen /\ ~call[c].entry.key /\ Sends(c)
  <2>1. ~call[c].since
    BY <1>2, <1>4 DEF SignInInv, Noticed
  <2>. QED
    BY <1>1, <1>2, <1>4, <2>1, SendsKeeps
<1>. QED
  BY <1>3, <1>4 DEF Refresh

LEMMA RenewKeeps ==
  ASSUME SignInInv, NEW c \in Callers, Renew(c)
  PROVE  SignInInv'
<1>1. Plain'
  BY DEF SignInInv, TypeOK, Plain, Renew, cached, decision
<1>2. /\ call[c].at = "locked" /\ UNCHANGED <<kind, file, decision, issuer>> /\ generation' = generation
      /\ call[c].at \in Inside /\ refreshing = c /\ generation \in Nat /\ kind = "mcp"
  BY Locked DEF Renew, SignInInv, TypeOK, Inside, Places, cached
<1>3. CASE Returns(c)
  BY <1>1, <1>2, <1>3, RestKeeps
<1>4. CASE Sends(c)
  <2>1. Told => ~call[c].since
    BY <1>2, <1>4 DEF SignInInv, Noticed, Told
  <2>. QED
    BY <1>1, <1>2, <1>4, <2>1, SendsKeeps
<1>. QED
  BY <1>3, <1>4 DEF Renew

\* An answer that comes brings tokens that were nowhere; one that gets lost has
\* minted them all the same.
LEMMA ExchangeKeeps ==
  ASSUME SignInInv, NEW c \in Callers, NEW rotates \in BOOLEAN, Exchange(c, rotates)
  PROVE  SignInInv'
<1>1. /\ call[c].at = "sent" /\ CanMint /\ UNCHANGED <<kind, file, cached, person, decision>>
      /\ Grants(rotates, c) /\ (faults' = faults \/ Fault)
      /\ \/ /\ call' = [call EXCEPT ![c].at = "renewed", ![c].reply = Granted(c, rotates)]
            /\ refreshing' = refreshing
         \/ Returns(c)
  BY DEF Exchange
<1>2. /\ call[c].at \in Inside /\ refreshing = c /\ call[c].entry # NoEntry
      /\ "renewed" \in Inside /\ "idle" \notin Inside
  BY <1>1, Locked DEF Inside, Places
<1>3. /\ issuer.minted \in Nat /\ issuer.minted < MaxMinted /\ issuer \in [minted : Tokens, takes : SUBSET (1..MaxMinted)]
      /\ Minted = issuer.minted + 1 /\ Minted \in 1..MaxMinted
  BY <1>1, CredentialAssumption DEF SignInInv, TypeOK, Tokens, CanMint, Minted
<1>4. /\ issuer'.minted = Minted /\ \A t \in issuer'.takes : t \in issuer.takes \/ t = Minted
      /\ issuer' \in [minted : Tokens, takes : SUBSET (1..MaxMinted)]
  <2>. DEFINE left == IF rotates THEN (issuer.takes \ {call[c].entry.refresh}) \cup {Minted} ELSE issuer.takes
  <2>1. left \in SUBSET (1..MaxMinted) /\ (\A t \in left : t \in issuer.takes \/ t = Minted) /\ Minted \in Tokens
    BY <1>3 DEF Tokens
  <2>2. issuer' = [issuer EXCEPT !.minted = Minted, !.takes = left]
    BY <1>1, <1>3 DEF Grants
  <2>. HIDE DEF left
  <2>3. issuer' = [minted |-> Minted, takes |-> left]
    BY <1>3, <2>2
  <2>. QED
    BY <2>1, <2>3
<1>5. Plain'
  BY <1>1, <1>4, FaultIs DEF SignInInv, TypeOK, Plain, cached, decision
<1>6. /\ kind' = kind /\ file' = file /\ last' = last /\ decided' = decided /\ generation' = generation
      /\ other' = other /\ generation \in Nat /\ file \in Entry /\ last \in Entry
  BY <1>1 DEF cached, decision, SignInInv, TypeOK
<1>7. /\ call[c].seen \in Nat /\ call[c].entry \in Entry /\ call[c].reply \in Entry
  BY CallFields DEF SignInInv
<1>8. /\ file.access <= Minted /\ file.refresh <= Minted /\ last.refresh <= Minted
      /\ \A t \in issuer'.takes : t <= Minted
      /\ call[c].entry.refresh <= Minted
      /\ kind = "mcp" => call[c].seen <= Minted
      /\ file.access < Minted
      /\ kind = "mcp" => \A d \in Callers : call[d].seen < Minted
  <2>1. /\ file.access \in Nat /\ file.refresh \in Nat /\ last.refresh \in Nat /\ call[c].entry.refresh \in Nat
        /\ \A t \in issuer.takes : t \in Nat
    BY <1>3, <1>6, <1>7, EntryFields DEF Tokens
  <2>2. \A d \in Callers : call[d].seen \in Nat
    BY CallFields DEF SignInInv
  <2>. QED
    BY <1>3, <1>4, <2>1, <2>2 DEF SignInInv, Fresh
<1>9. Stands /\ kind = "provider" => Stands'
  <2>1. last.refresh # Minted
    BY <1>3, <1>6, EntryFields DEF SignInInv, Fresh, Tokens
  <2>. QED
    BY <1>4, <1>6, <2>1 DEF Stands
<1>10. CASE Returns(c)
  <2>1. Becomes(c, "idle", 0, NoEntry, NoEntry, FALSE) /\ refreshing' = Nobody
    BY <1>10, ReturnsIs DEF SignInInv
  <2>2. TypeOK'
    <3>1. Calls'
      BY <1>2, <2>1, CallsStep DEF SignInInv
    <3>. QED
      BY <3>1, <1>5 DEF TypeOK, Plain, Calls
  <2>3. Fresh'
    <3>1. /\ NoEntry \in Entry /\ NoEntry.refresh <= Minted /\ NoEntry.access <= Minted /\ 0 <= Minted
          /\ Minted \in Nat /\ issuer.minted <= Minted /\ issuer'.takes \subseteq Nat
      BY <1>3, <1>4, EntryFields
    <3>. QED
      BY <1>4, <1>6, <1>8, <2>1, <3>1, FreshStep
  <2>4. \A d \in Callers : Noticed(d)'
    <3>1. 0 <= generation /\ generation <= generation
      BY <1>6
    <3>. QED
      BY <1>6, <2>1, <3>1, NoticedStep
  <2>5. kind = "provider" => Paired' /\ \A d \in Callers : Bound(d)'
    BY <1>4, <1>6, <2>1, BoundStep, PairedStep
  <2>. QED
    BY <1>6, <1>9, <2>2, <2>3, <2>4, <2>5 DEF SignInInv
<1>11. CASE /\ call' = [call EXCEPT ![c].at = "renewed", ![c].reply = Granted(c, rotates)]
            /\ refreshing' = refreshing
  <2>. DEFINE g == Granted(c, rotates)
  <2>1. g \in Entry /\ g.access = Minted /\ g.refresh \in {Minted, call[c].entry.refresh} /\ g.line = call[c].entry.line
    BY <1>1, <1>3, <1>7, GrantedIs DEF Tokens
  <2>. HIDE DEF g
  <2>2. Becomes(c, "renewed", call[c].seen, call[c].entry, g, call[c].since)
    BY <1>11, <2>1 DEF Becomes, SignInInv, TypeOK, Call, Places, g
  <2>3. TypeOK'
    <3>1. Calls'
      BY <1>2, <1>11, <2>2, CallsStep DEF SignInInv
    <3>. QED
      BY <3>1, <1>5 DEF TypeOK, Plain, Calls
  <2>4. Fresh'
    <3>1. /\ g.access <= Minted /\ g.refresh <= Minted /\ Minted \in Nat /\ issuer.minted <= Minted /\ issuer'.takes \subseteq Nat
      BY <1>3, <1>4, <1>8, <2>1
    <3>. QED
      BY <1>4, <1>6, <1>7, <1>8, <2>1, <2>2, <3>1, FreshStep
  <2>5. \A d \in Callers : Noticed(d)'
    <3>1. /\ kind = "provider" => call[c].seen <= generation
          /\ Told => ~call[c].since
          /\ kind = "provider" => Told
          /\ kind = "mcp" /\ ~other.crossed => Told
      BY <1>1 DEF SignInInv, Noticed, Told
    <3>2. g.access # 0 /\ file.access # g.access
      BY <1>3, <1>6, <1>8, <2>1, EntryFields DEF Tokens
    <3>3. kind = "mcp" => \A d \in Callers : call[d].seen # g.access
      BY <1>3, <1>8, <2>1
    <3>. QED
      BY <1>6, <1>7, <2>2, <3>1, <3>2, <3>3, NoticedStep
  <2>6. kind = "provider" => Paired' /\ \A d \in Callers : Bound(d)'
    <3>1. g.access # 0
      BY <1>3, <2>1
    <3>. QED
      BY <1>4, <1>6, <2>1, <2>2, <3>1, BoundStep, PairedStep
  <2>. QED
    BY <1>6, <1>9, <2>3, <2>4, <2>5, <2>6 DEF SignInInv
<1>. QED
  BY <1>1, <1>10, <1>11

LEMMA RefusesKeeps ==
  ASSUME SignInInv, NEW c \in Callers, Refuses(c)
  PROVE  SignInInv'
<1>1. /\ call[c].at = "sent" /\ UNCHANGED <<kind, file, cached, person, faults, decision>>
      /\ \/ /\ Goes(c, "refused")
            /\ issuer' = [issuer EXCEPT !.takes = @ \ {call[c].entry.refresh}]
         \/ Returns(c) /\ issuer' = issuer
  BY DEF Refuses
<1>2. /\ call[c].at \in Inside /\ refreshing = c /\ call[c].entry # NoEntry /\ "refused" \in Inside /\ "refused" \in Places
  BY <1>1, Locked DEF Inside, Places
<1>3. issuer \in [minted : Tokens, takes : SUBSET (1..MaxMinted)]
  BY DEF SignInInv, TypeOK
<1>4. /\ kind' = kind /\ file' = file /\ last' = last /\ decided' = decided /\ generation' = generation
      /\ other' = other /\ generation \in Nat /\ file \in Entry /\ last \in Entry
  BY <1>1 DEF cached, decision, SignInInv, TypeOK
<1>5. CASE Returns(c) /\ issuer' = issuer
  <2>1. Plain'
    BY <1>1, <1>5 DEF SignInInv, TypeOK, Plain, cached, decision
  <2>. QED
    BY <1>2, <1>4, <1>5, <2>1, RestKeeps DEF decision
<1>6. CASE Goes(c, "refused") /\ issuer' = [issuer EXCEPT !.takes = @ \ {call[c].entry.refresh}]
  <2>1. /\ issuer'.minted = issuer.minted /\ issuer'.takes = issuer.takes \ {call[c].entry.refresh}
        /\ issuer' \in [minted : Tokens, takes : SUBSET (1..MaxMinted)]
    BY <1>3, <1>6
  <2>2. Plain'
    BY <1>1, <2>1 DEF SignInInv, TypeOK, Plain, cached, decision
  <2>3. /\ Becomes(c, "refused", call[c].seen, call[c].entry, call[c].reply, call[c].since)
        /\ refreshing' = refreshing
    BY <1>2, <1>6, GoesIs DEF SignInInv
  <2>4. /\ call[c].seen \in Nat /\ call[c].entry \in Entry /\ call[c].reply \in Entry
    BY CallFields DEF SignInInv
  <2>5. TypeOK'
    <3>1. Calls'
      BY <1>2, <2>3, CallsStep DEF SignInInv
    <3>. QED
      BY <3>1, <2>2 DEF TypeOK, Plain, Calls
  <2>6. Fresh'
    <3>1. /\ issuer.minted \in Nat /\ issuer'.takes \subseteq Nat
          /\ file.access <= issuer.minted /\ file.refresh <= issuer.minted
          /\ last.refresh <= issuer.minted /\ \A t \in issuer'.takes : t <= issuer.minted
          /\ call[c].entry.refresh <= issuer.minted /\ call[c].reply.access <= issuer.minted /\ call[c].reply.refresh <= issuer.minted
          /\ kind = "mcp" => call[c].seen <= issuer.minted
          /\ issuer.minted <= issuer.minted
      BY <1>3, <2>1 DEF SignInInv, Fresh, Tokens
    <3>. QED
      BY <1>4, <2>1, <2>3, <2>4, <3>1, FreshStep
  <2>7. \A d \in Callers : Noticed(d)'
    <3>1. /\ kind = "provider" => call[c].seen <= generation
          /\ Told => ~call[c].since
          /\ kind = "provider" => Told
          /\ kind = "mcp" /\ ~other.crossed => Told
      BY <1>1 DEF SignInInv, Noticed, Told
    <3>. QED
      BY <1>4, <2>3, <2>4, <3>1, NoticedStep
  <2>8. kind = "provider" => Stands' /\ Paired' /\ \A d \in Callers : Bound(d)'
    <3>. SUFFICES ASSUME kind = "provider"
                  PROVE  Stands' /\ Paired' /\ \A d \in Callers : Bound(d)'
      OBVIOUS
    <3>1. Stands'
      BY <1>4, <2>1 DEF SignInInv, Stands
    <3>2. ~call[c].entry.key
      BY <1>1 DEF SignInInv, Bound
    <3>3. Paired'
      BY <1>4, <2>3, PairedStep
    <3>. QED
      BY <2>1, <2>3, <3>1, <3>2, <3>3, BoundStep
  <2>. QED
    BY <1>4, <2>5, <2>6, <2>7, <2>8 DEF SignInInv
<1>. QED
  BY <1>1, <1>5, <1>6

LEMMA UnreachableKeeps ==
  ASSUME SignInInv, NEW c \in Callers, Unreachable(c)
  PROVE  SignInInv'
<1>1. Plain' /\ generation' = generation /\ generation \in Nat
  BY FaultIs DEF SignInInv, TypeOK, Plain, Unreachable, cached, decision
<1>2. refreshing = c
  BY Locked DEF Unreachable, Inside, Places
<1>. QED
  BY <1>1, <1>2, RestKeeps DEF Unreachable

\* What a provider's caller does, an MCP server's never gets to.
LEMMA ProviderPlaces ==
  ASSUME SignInInv, NEW c \in Callers
  PROVE  /\ call[c].at \in {"superseded", "replacing", "remembering", "saving", "erasing"} =>
              kind = "provider" /\ ~call[c].since
         /\ call[c].at = "storing" => kind = "mcp"
BY CredentialAssumption DEF SignInInv, Noticed, TypeOK, Bound, Told

\* A caller that finds another entry than its own leaves it.
LEMMA SupersededKeeps ==
  ASSUME SignInInv, NEW c \in Callers, kind = "provider", call[c].at \in {"renewed", "refused"},
         Superseded(c), UNCHANGED <<kind, file, cached, person, issuer, decision>>
  PROVE  SignInInv'
<1>1. Plain' /\ generation' = generation /\ generation \in Nat /\ Goes(c, "superseded")
  BY DEF SignInInv, TypeOK, Plain, Superseded, cached, decision
<1>2. call[c].at \in Inside /\ "superseded" \in Inside /\ ~call[c].since
  BY DEF SignInInv, Noticed, Inside, Places, Told
<1>. QED
  BY <1>1, <1>2, GoKeeps

\* A renewal is to be stored over the entry it renewed.
LEMMA RenewedKeeps ==
  ASSUME SignInInv, NEW c \in Callers, Renewed(c)
  PROVE  SignInInv'
<1>1. /\ kind = "provider" /\ call[c].at = "renewed"
      /\ UNCHANGED <<kind, file, cached, person, issuer, decision>>
      /\ \/ file = call[c].entry /\ Goes(c, "saving") /\ faults' = faults
         \/ Superseded(c)
         \/ Fault /\ Returns(c)
  BY DEF Renewed
<1>2. call[c].at \in Inside /\ refreshing = c /\ "saving" \in Inside
  BY <1>1, Locked DEF Inside, Places
<1>3. Superseded(c) => SignInInv'
  BY <1>1, SupersededKeeps
<1>4. CASE Fault /\ Returns(c)
  <2>1. Plain' /\ generation' = generation /\ generation \in Nat
    BY <1>1, <1>4, FaultIs DEF SignInInv, TypeOK, Plain, cached, decision
  <2>. QED
    BY <1>1, <1>2, <1>4, <2>1, RestKeeps
<1>5. CASE file = call[c].entry /\ Goes(c, "saving") /\ faults' = faults
  <2>1. Plain' /\ generation' = generation /\ generation \in Nat
    BY <1>1, <1>5 DEF SignInInv, TypeOK, Plain, cached, decision
  <2>2. ~call[c].since /\ call[c].reply.line = call[c].entry.line /\ call[c].reply.access # 0
    BY <1>1 DEF SignInInv, Noticed, Told, Bound
  <2>. QED
    BY <1>1, <1>2, <1>5, <2>1, <2>2, GoKeeps
<1>. QED
  BY <1>1, <1>3, <1>4, <1>5

\* What a renewal stores is of the sign-in that is in the file.
LEMMA SavedKeeps ==
  ASSUME SignInInv, NEW c \in Callers, Saved(c)
  PROVE  SignInInv'
<1>1. /\ call[c].at = "saving" /\ UNCHANGED <<kind, cached, person, issuer, other, decided>>
      /\ \/ Stores(call[c].reply) /\ Goes(c, "remembering") /\ faults' = faults
         \/ Fault /\ Returns(c) /\ UNCHANGED <<file, last>>
  BY DEF Saved
<1>2. /\ call[c].at \in Inside /\ refreshing = c /\ call[c].entry # NoEntry
      /\ "remembering" \in Inside /\ "remembering" \in Places /\ kind = "provider" /\ ~call[c].since
  BY <1>1, Locked, ProviderPlaces DEF Inside, Places
<1>4. CASE Fault /\ Returns(c) /\ UNCHANGED <<file, last>>
  <2>1. Plain' /\ generation' = generation /\ generation \in Nat
    BY <1>1, <1>4, FaultIs DEF SignInInv, TypeOK, Plain, cached
  <2>. QED
    BY <1>1, <1>2, <1>4, <2>1, RestKeeps DEF decision
<1>5. CASE Stores(call[c].reply) /\ Goes(c, "remembering") /\ faults' = faults
  <2>1. /\ call[c].seen \in Nat /\ call[c].entry \in Entry /\ call[c].reply \in Entry
    BY CallFields DEF SignInInv
  <2>2. /\ file' = call[c].reply /\ last' = call[c].reply /\ decided' = decided /\ generation' = generation
        /\ generation \in Nat /\ kind' = kind /\ issuer' = issuer /\ other' = other
    BY <1>1, <1>5 DEF Stores, cached, SignInInv, TypeOK
  <2>3. Plain'
    BY <1>1, <1>5, <2>1, <2>2 DEF SignInInv, TypeOK, Plain, cached
  <2>4. /\ Becomes(c, "remembering", call[c].seen, call[c].entry, call[c].reply, call[c].since)
        /\ refreshing' = refreshing
    BY <1>2, <1>5, GoesIs DEF SignInInv
  <2>c. Calls'
    BY <1>2, <2>4, CallsStep DEF SignInInv
  <2>5. TypeOK'
    BY <2>c, <2>3 DEF TypeOK, Plain, Calls
  <2>6. Fresh'
    <3>1. /\ issuer.minted \in Nat /\ issuer.takes \subseteq Nat
          /\ \A t \in issuer.takes : t <= issuer.minted
          /\ call[c].entry.refresh <= issuer.minted /\ call[c].reply.access <= issuer.minted
          /\ call[c].reply.refresh <= issuer.minted
          /\ issuer.minted <= issuer.minted
      BY DEF SignInInv, Fresh, Tokens, TypeOK
    <3>. QED
      BY <1>2, <2>1, <2>2, <2>4, <3>1, FreshStep
  <2>7. \A d \in Callers : Noticed(d)'
    <3>1. call[c].seen <= generation /\ generation <= generation
      BY <1>2, <2>2 DEF SignInInv, Noticed
    <3>. QED
      BY <1>2, <2>1, <2>2, <2>4, <3>1, NoticedStep
  <2>8. Stands'
    <3>1. call[c].reply.line = call[c].entry.line /\ call[c].reply # NoEntry
      BY <1>1, <1>2, <2>1, EntryFields DEF SignInInv, Bound
    <3>2. ~other.crossed => file = call[c].entry /\ file.line = decided
      BY <1>1, <1>2 DEF SignInInv, Stands, Paired
    <3>. QED
      BY <2>2, <3>1, <3>2 DEF Stands
  <2>9. \A d \in Callers : Bound(d)'
    BY <1>2, <2>2, <2>4, BoundStep
  <2>10. Paired'
    BY <1>2, <2>c, <2>4, PairedAfter DEF Becomes
  <2>. QED
    BY <1>2, <2>2, <2>5, <2>6, <2>7, <2>8, <2>9, <2>10 DEF SignInInv
<1>. QED
  BY <1>1, <1>4, <1>5

\* The only credential a refusal removes is the one that was refused.
LEMMA ExpireKeeps ==
  ASSUME SignInInv, NEW c \in Callers, Expire(c)
  PROVE  SignInInv'
<1>1. /\ kind = "provider" /\ call[c].at = "refused"
      /\ UNCHANGED <<kind, file, cached, person, issuer, decision>>
      /\ \/ file = call[c].entry /\ Goes(c, "erasing") /\ faults' = faults
         \/ Superseded(c)
         \/ Fault /\ Goes(c, "expiring")
  BY DEF Expire
<1>2. /\ call[c].at \in Inside /\ refreshing = c
      /\ "expiring" \in Inside /\ "erasing" \in Inside
  BY <1>1, Locked DEF Inside, Places
<1>3. ~call[c].since /\ ~call[c].entry.key /\ call[c].entry.refresh \notin issuer.takes
  BY <1>1 DEF SignInInv, Noticed, Told, Bound
<1>4. Superseded(c) => SignInInv'
  BY <1>1, SupersededKeeps
<1>5. (faults' = faults \/ Fault) => Plain' /\ generation' = generation /\ generation \in Nat
  BY <1>1, FaultIs DEF SignInInv, TypeOK, Plain, cached, decision
<1>6. Fault /\ Goes(c, "expiring") => SignInInv'
  BY <1>1, <1>2, <1>3, <1>5, GoKeeps
<1>7. file = call[c].entry /\ Goes(c, "erasing") /\ faults' = faults => SignInInv'
  BY <1>1, <1>2, <1>3, <1>5, GoKeeps
<1>. QED
  BY <1>1, <1>4, <1>6, <1>7

LEMMA ErasedKeeps ==
  ASSUME SignInInv, NEW c \in Callers, Erased(c)
  PROVE  SignInInv'
<1>1. /\ call[c].at = "erasing" /\ UNCHANGED <<kind, cached, person, issuer, decision>>
      /\ Goes(c, "expiring")
      /\ \/ file' = NoEntry /\ faults' = faults
         \/ Fault /\ file' = file
  BY DEF Erased
<1>2. /\ call[c].at \in Inside /\ refreshing = c /\ call[c].entry # NoEntry
      /\ "expiring" \in Inside /\ "expiring" \in Places /\ kind = "provider" /\ ~call[c].since
  BY <1>1, Locked, ProviderPlaces DEF Inside, Places
<1>3. call[c].seen <= generation
  BY <1>2 DEF SignInInv, Noticed
<1>5. CASE Fault /\ file' = file
  <2>1. Plain' /\ generation' = generation /\ generation \in Nat
    BY <1>1, <1>5, FaultIs DEF SignInInv, TypeOK, Plain, cached, decision
  <2>. QED
    BY <1>1, <1>2, <1>5, <2>1, GoKeeps
<1>6. CASE file' = NoEntry /\ faults' = faults
  <2>1. /\ call[c].seen \in Nat /\ call[c].entry \in Entry /\ call[c].reply \in Entry
    BY CallFields DEF SignInInv
  <2>2. /\ last' = last /\ decided' = decided /\ generation' = generation /\ other' = other
        /\ generation \in Nat /\ kind' = kind /\ issuer' = issuer /\ last \in Entry
    BY <1>1, <1>6 DEF cached, decision, SignInInv, TypeOK
  <2>3. Plain'
    BY <1>1, <1>6, <2>1, <2>2, EntryFields DEF SignInInv, TypeOK, Plain, cached
  <2>4. /\ Becomes(c, "expiring", call[c].seen, call[c].entry, call[c].reply, call[c].since)
        /\ refreshing' = refreshing
    BY <1>1, <1>2, GoesIs DEF SignInInv
  <2>c. Calls'
    BY <1>2, <2>4, CallsStep DEF SignInInv
  <2>5. TypeOK'
    BY <2>c, <2>3 DEF TypeOK, Plain, Calls
  <2>6. Fresh'
    <3>1. /\ issuer.minted \in Nat /\ issuer.takes \subseteq Nat
          /\ \A t \in issuer.takes : t <= issuer.minted
          /\ call[c].entry.refresh <= issuer.minted /\ call[c].reply.access <= issuer.minted
          /\ call[c].reply.refresh <= issuer.minted /\ last.refresh <= issuer.minted
          /\ issuer.minted <= issuer.minted
      BY DEF SignInInv, Fresh, Tokens, TypeOK
    <3>2. /\ NoEntry.access <= issuer.minted /\ NoEntry.refresh <= issuer.minted /\ NoEntry \in Entry
      BY <3>1, EntryFields
    <3>. QED
      BY <1>2, <1>6, <2>1, <2>2, <2>4, <3>1, <3>2, FreshStep
  <2>7. \A d \in Callers : Noticed(d)'
    <3>1. generation <= generation
      BY <2>2
    <3>. QED
      BY <1>2, <1>3, <2>1, <2>2, <2>4, <3>1, NoticedStep
  <2>8. Stands'
    <3>1. ~other.crossed => file = call[c].entry /\ file = last
      BY <1>1, <1>2 DEF SignInInv, Stands, Paired
    <3>2. ~other.crossed => ~last.key /\ last.refresh \notin issuer.takes
      BY <1>1, <1>2, <3>1 DEF SignInInv, Bound
    <3>. QED
      BY <1>6, <2>2, <3>2 DEF Stands
  <2>9. \A d \in Callers : Bound(d)'
    BY <1>2, <2>2, <2>4, BoundStep
  <2>10. Paired'
    BY <1>2, <2>c, <2>4, PairedAfter DEF Becomes
  <2>. QED
    BY <1>2, <2>2, <2>5, <2>6, <2>7, <2>8, <2>9, <2>10 DEF SignInInv
<1>. QED
  BY <1>1, <1>5, <1>6

LEMMA ForgetsKeeps ==
  ASSUME SignInInv, NEW c \in Callers, Forgets(c)
  PROVE  SignInInv'
<1>1. Plain' /\ generation <= generation'
  BY CacheTypes DEF SignInInv, TypeOK, Plain, Forgets, Remember, decision
<1>2. call[c].at \in Inside /\ "replacing" \in Inside
  BY DEF Forgets, Inside, Places
<1>3. kind = "provider" /\ ~call[c].since
  BY ProviderPlaces DEF Forgets
<1>. QED
  BY <1>1, <1>2, <1>3, GoKeeps DEF Forgets

LEMMA ReplacementKeeps ==
  ASSUME SignInInv, NEW c \in Callers, NEW over \in BOOLEAN, Replacement(c, over)
  PROVE  SignInInv'
<1>1. Plain' /\ generation' = generation /\ generation \in Nat /\ UNCHANGED <<kind, file, decision, issuer>>
  BY DEF SignInInv, TypeOK, Plain, Replacement, cached, decision
<1>2. call[c].at \in Inside /\ "remembering" \in Inside /\ refreshing = c /\ call[c].entry # NoEntry
  BY Locked DEF Replacement, Inside, Places
<1>3. kind = "provider" /\ ~call[c].since
  BY ProviderPlaces DEF Replacement
<1>4. CASE Returns(c)
  BY <1>1, <1>2, <1>4, RestKeeps
<1>5. CASE call' = [call EXCEPT ![c].at = "remembering", ![c].reply = file] /\ refreshing' = refreshing
  <2>1. Becomes(c, "remembering", call[c].seen, call[c].entry, file, call[c].since)
    BY <1>5 DEF Becomes, SignInInv, TypeOK, Call, Places
  <2>2. /\ call[c].seen \in Nat /\ call[c].entry \in Entry /\ file \in Entry
    BY CallFields DEF SignInInv, TypeOK
  <2>3. /\ call[c].entry.refresh <= issuer.minted /\ file.access <= issuer.minted /\ file.refresh <= issuer.minted
    BY DEF SignInInv, Fresh
  <2>4. call[c].seen <= generation /\ generation <= generation' /\ kind # "mcp"
    BY <1>1, <1>3 DEF SignInInv, Noticed
  <2>. QED
    BY <1>1, <1>2, <1>3, <1>5, <2>1, <2>2, <2>3, <2>4, MoveKeeps
<1>. QED
  BY <1>4, <1>5 DEF Replacement

LEMMA RememberExpiredKeeps ==
  ASSUME SignInInv, NEW c \in Callers, RememberExpired(c)
  PROVE  SignInInv'
<1>1. Plain' /\ generation <= generation'
  BY CacheTypes DEF SignInInv, TypeOK, Plain, RememberExpired, Remember, decision
<1>2. refreshing = c
  BY Locked DEF RememberExpired, Inside, Places
<1>. QED
  BY <1>1, <1>2, RestKeeps DEF RememberExpired

LEMMA SetRetiredKeeps ==
  ASSUME SignInInv, NEW c \in Callers, SetRetired(c)
  PROVE  SignInInv'
<1>1. Plain' /\ generation <= generation'
  BY DEF SignInInv, TypeOK, Plain, SetRetired, decision
<1>2. refreshing = c
  BY Locked DEF SetRetired, Inside, Places
<1>. QED
  BY <1>1, <1>2, RestKeeps DEF SetRetired

LEMMA RegisteredKeeps ==
  ASSUME SignInInv, NEW c \in Callers, Registered(c)
  PROVE  SignInInv'
<1>1. Plain' /\ generation' = generation /\ generation \in Nat /\ UNCHANGED <<kind, file, decision, issuer>>
  BY DEF SignInInv, TypeOK, Plain, Registered, cached, decision
<1>2. /\ call[c].at = "renewed" /\ kind = "mcp"
      /\ call[c].at \in Inside /\ "storing" \in Inside /\ refreshing = c /\ call[c].entry # NoEntry
  BY Locked DEF Registered, Inside, Places
<1>3. CASE Returns(c)
  BY <1>1, <1>2, <1>3, RestKeeps
<1>4. CASE call' = [call EXCEPT ![c].at = "storing", ![c].reply.client = file.client] /\ refreshing' = refreshing
  <2>. DEFINE r == [call[c].reply EXCEPT !.client = file.client]
  <2>1. call[c].seen \in Nat /\ call[c].entry \in Entry /\ call[c].reply \in Entry /\ file \in Entry
    BY CallFields DEF SignInInv, TypeOK
  <2>2. r \in Entry /\ r.access = call[c].reply.access /\ r.refresh = call[c].reply.refresh
    BY <2>1 DEF Entry
  <2>3. call' = [call EXCEPT ![c].at = "storing", ![c].reply = r]
    BY <1>4 DEF SignInInv, TypeOK, Call
  <2>. HIDE DEF r
  <2>4. Becomes(c, "storing", call[c].seen, call[c].entry, r, call[c].since)
    BY <2>2, <2>3 DEF Becomes, SignInInv, TypeOK, Call, Places
  <2>5. /\ call[c].entry.refresh <= issuer.minted /\ r.access <= issuer.minted /\ r.refresh <= issuer.minted
        /\ call[c].seen <= issuer.minted
    BY <1>2, <2>2 DEF SignInInv, Fresh
  <2>6. /\ Told <=> ~other.crossed
        /\ ~other.crossed =>
             /\ ~call[c].since /\ file.access # r.access /\ r.access # 0
             /\ \A d \in Callers : call[d].at = "waiting" => call[d].seen # r.access
    BY <1>2, <2>2 DEF SignInInv, Noticed, Told
  <2>7. generation <= generation'
    BY <1>1
  <2>. QED
    BY <1>1, <1>2, <1>4, <2>1, <2>2, <2>4, <2>5, <2>6, <2>7, MoveKeeps
<1>. QED
  BY <1>3, <1>4 DEF Registered

\* When a caller has renewed, everybody else was idle or waiting, and those that
\* waited are told apart from those that ask later.
LEMMA RenewsLeaves ==
  ASSUME SignInInv, NEW c \in Callers, call[c].at \in Inside, Renews(c)
  PROVE  /\ Calls'
         /\ \A d \in Callers : /\ call'[d].at \in {"idle", "waiting"}
                               /\ call'[d].since => d # c /\ call'[d].at = "waiting"
                               /\ d # c => call'[d].seen = call[d].seen
                               /\ call'[d].at = "waiting" => d # c /\ call[d].at = "waiting"
                               /\ \/ call'[d].entry = call[d].entry /\ call'[d].reply = call[d].reply
                                  \/ call'[d].entry = NoEntry /\ call'[d].reply = NoEntry
         /\ call'[c].seen = 0
<1>1. TypeOK /\ refreshing = c
  BY Locked DEF SignInInv
<1>2. /\ call' \in [Callers -> Call] /\ call'[c] = Resting /\ refreshing' = Nobody
      /\ \A d \in Callers :
           d # c => /\ call'[d].at = call[d].at /\ call'[d].seen = call[d].seen
                    /\ call'[d].entry = call[d].entry /\ call'[d].reply = call[d].reply
                    /\ call'[d].since = (call[d].at # "idle")
  BY <1>1, RenewsIs
<1>3. \A d \in Callers : d # c => call[d].at \in {"idle", "waiting"}
  BY <1>1, CallFields DEF TypeOK, Inside
<1>4. \A d \in Callers : call'[d].at \in {"idle", "waiting"}
  BY <1>2, <1>3, RestingIs
<1>5. Calls'
  BY <1>2, <1>4, CredentialAssumption DEF Calls, Inside
<1>. QED
  BY <1>2, <1>3, <1>4, <1>5, RestingIs

\* After a renewal nobody is past the lock, so only what the file and the issuer
\* say is left to see.
LEMMA RenewsKeeps ==
  ASSUME SignInInv, NEW c \in Callers, call[c].at \in Inside, Renews(c), Plain',
         kind' = kind, issuer' = issuer, other' = other,
         file'.access <= issuer.minted, file'.refresh <= issuer.minted, last'.refresh <= issuer.minted,
         kind = "provider" => Stands' /\ generation' = generation + 1,
         kind = "mcp" /\ ~other.crossed =>
           \A d \in Callers : call[d].at = "waiting" => file'.access # call[d].seen
  PROVE  SignInInv'
<1>1. /\ Calls'
      /\ \A d \in Callers : /\ call'[d].at \in {"idle", "waiting"}
                            /\ call'[d].since => d # c /\ call'[d].at = "waiting"
                            /\ d # c => call'[d].seen = call[d].seen
                            /\ call'[d].at = "waiting" => d # c /\ call[d].at = "waiting"
                            /\ \/ call'[d].entry = call[d].entry /\ call'[d].reply = call[d].reply
                               \/ call'[d].entry = NoEntry /\ call'[d].reply = NoEntry
      /\ call'[c].seen = 0
  BY RenewsLeaves
<1>2. TypeOK'
  BY <1>1 DEF TypeOK, Plain, Calls
<1>3. issuer.minted \in Nat /\ generation \in Nat /\ NoEntry.refresh = 0 /\ NoEntry.access = 0
  BY EntryFields DEF SignInInv, TypeOK, Tokens
<1>4. Fresh'
  <2>1. ASSUME NEW d \in Callers
        PROVE  /\ call'[d].entry.refresh <= issuer.minted /\ call'[d].reply.access <= issuer.minted
               /\ call'[d].reply.refresh <= issuer.minted
               /\ kind = "mcp" => call'[d].seen <= issuer.minted
    <3>1. /\ call[d].entry.refresh <= issuer.minted /\ call[d].reply.access <= issuer.minted
          /\ call[d].reply.refresh <= issuer.minted
          /\ kind = "mcp" => call[d].seen <= issuer.minted
      BY DEF SignInInv, Fresh
    <3>. QED
      BY <1>1, <1>3, <3>1
  <2>2. /\ \A t \in issuer.takes : t <= issuer.minted
        /\ other.loaded.entry.access <= issuer.minted /\ other.loaded.entry.refresh <= issuer.minted
    BY DEF SignInInv, Fresh
  <2>. QED
    BY <2>1, <2>2 DEF Fresh
<1>5. kind = "provider" => Paired' /\ \A d \in Callers : Bound(d)'
  BY <1>1 DEF Bound, Paired
<1>6. ASSUME NEW d \in Callers
      PROVE  Noticed(d)'
  <2>1. call[d].seen \in Nat /\ (kind = "provider" => call[d].seen <= generation)
    BY CallFields DEF SignInInv, Noticed
  <2>2. kind = "provider" => /\ call'[d].seen <= generation'
                             /\ call'[d].since => call'[d].seen < generation'
    BY <1>1, <1>3, <2>1
  <2>3. kind = "mcp" /\ ~other.crossed => (call'[d].since => call'[d].at = "waiting" /\ file'.access # call'[d].seen)
    BY <1>1
  <2>. QED
    BY <1>1, <2>2, <2>3 DEF Noticed
<1>. QED
  BY <1>2, <1>4, <1>5, <1>6 DEF SignInInv

LEMMA RememberRenewedKeeps ==
  ASSUME SignInInv, NEW c \in Callers, RememberRenewed(c)
  PROVE  SignInInv'
<1>1. call[c].at \in Inside /\ kind = "provider"
  BY ProviderPlaces DEF RememberRenewed, Inside, Places
<1>2. /\ Renews(c) /\ UNCHANGED <<kind, file, person, issuer, faults, decision>>
      /\ cache' = Holds(call[c].reply) /\ generation' = generation + 1 /\ retired' = retired
  BY DEF RememberRenewed, Remember
<1>3. Plain'
  BY <1>2, CacheTypes, CallFields DEF SignInInv, TypeOK, Plain, decision
<1>4. Stands'
  BY <1>1, <1>2 DEF SignInInv, Stands, decision
<1>5. file'.access <= issuer.minted /\ file'.refresh <= issuer.minted /\ last'.refresh <= issuer.minted
  BY <1>2 DEF SignInInv, Fresh, decision
<1>6. kind # "mcp" /\ other' = other
  BY <1>1, <1>2 DEF decision
<1>. QED
  BY <1>1, <1>2, <1>3, <1>4, <1>5, <1>6, RenewsKeeps

LEMMA WriteKeeps ==
  ASSUME SignInInv, NEW c \in Callers, Write(c)
  PROVE  SignInInv'
<1>1. call[c].at \in Inside /\ kind = "mcp" /\ call[c].at = "storing" /\ refreshing = c
  BY ProviderPlaces, Locked DEF Write, Inside, Places
<1>2. /\ UNCHANGED <<kind, cached, person, issuer, other, decided>>
      /\ \/ Stores(call[c].reply) /\ Renews(c) /\ faults' = faults
         \/ Fault /\ Returns(c) /\ UNCHANGED <<file, last>>
  BY DEF Write
<1>3. CASE Stores(call[c].reply) /\ Renews(c) /\ faults' = faults
  <2>1. call[c].reply \in Entry /\ file' = call[c].reply /\ last' = call[c].reply
    BY <1>3, CallFields DEF SignInInv, Stores
  <2>2. Plain'
    BY <1>2, <1>3, <2>1 DEF SignInInv, TypeOK, Plain, cached
  <2>3. call[c].reply.access <= issuer.minted /\ call[c].reply.refresh <= issuer.minted
    BY DEF SignInInv, Fresh
  <2>4. ~other.crossed => \A d \in Callers : call[d].at = "waiting" => call[c].reply.access # call[d].seen
    BY <1>1 DEF SignInInv, Noticed
  <2>. QED
    BY <1>1, <1>2, <1>3, <2>1, <2>2, <2>3, <2>4, RenewsKeeps
<1>4. CASE Fault /\ Returns(c) /\ UNCHANGED <<file, last>>
  <2>1. Plain' /\ generation <= generation'
    BY <1>2, <1>4, FaultIs DEF SignInInv, TypeOK, Plain, cached
  <2>. QED
    BY <1>1, <1>2, <1>4, <2>1, RestKeeps DEF decision
<1>. QED
  BY <1>2, <1>3, <1>4

LEMMA RetireKeeps ==
  ASSUME SignInInv, NEW c \in Callers, Retire(c)
  PROVE  SignInInv'
<1>1. /\ call[c].at = "refused" /\ kind = "mcp"
      /\ call[c].at \in Inside /\ "expiring" \in Inside /\ "expiring" \in Places
      /\ refreshing = c /\ call[c].entry # NoEntry
  BY Locked DEF Retire, Inside, Places
<1>2. /\ Goes(c, "expiring") /\ UNCHANGED <<kind, cached, person, issuer, decision>>
      /\ \/ file' = NoEntry /\ faults' = faults
         \/ Fault /\ file' = file
  BY DEF Retire
<1>3. (Told => ~call[c].since) /\ (kind = "mcp" /\ ~other.crossed => Told)
  BY <1>1 DEF SignInInv, Noticed, Told
<1>4. Plain'
  BY <1>2, FaultIs, EntryFields DEF SignInInv, TypeOK, Plain, cached, decision
<1>5. /\ kind' = kind /\ issuer' = issuer /\ last' = last /\ generation' = generation /\ generation \in Nat
      /\ other' = other
      /\ file' \in {file, NoEntry} /\ file' \in Entry /\ last \in Entry /\ generation <= generation
  BY <1>2, EntryFields DEF cached, decision, SignInInv, TypeOK
<1>6. /\ Becomes(c, "expiring", call[c].seen, call[c].entry, call[c].reply, call[c].since)
      /\ refreshing' = refreshing
  BY <1>1, <1>2, GoesIs DEF SignInInv
<1>7. /\ call[c].seen \in Nat /\ call[c].entry \in Entry /\ call[c].reply \in Entry
  BY CallFields DEF SignInInv
<1>8. TypeOK'
  <2>1. Calls'
    BY <1>1, <1>6, CallsStep DEF SignInInv
  <2>. QED
    BY <2>1, <1>4 DEF TypeOK, Plain, Calls
<1>9. Fresh'
  <2>1. /\ issuer.minted \in Nat /\ issuer.takes \subseteq Nat
        /\ \A t \in issuer.takes : t <= issuer.minted
        /\ call[c].entry.refresh <= issuer.minted /\ call[c].reply.access <= issuer.minted
        /\ call[c].reply.refresh <= issuer.minted /\ last.refresh <= issuer.minted
        /\ issuer.minted <= issuer.minted /\ call[c].seen <= issuer.minted
    BY <1>1 DEF SignInInv, Fresh, Tokens, TypeOK
  <2>2. file'.access <= issuer.minted /\ file'.refresh <= issuer.minted
    BY <1>5, <2>1, EntryFields DEF SignInInv, Fresh
  <2>. QED
    BY <1>5, <1>6, <1>7, <2>1, <2>2, FreshStep
<1>10. \A d \in Callers : Noticed(d)'
  BY <1>1, <1>3, <1>5, <1>6, <1>7, NoticedStep
<1>. QED
  BY <1>1, <1>5, <1>8, <1>9, <1>10 DEF SignInInv

-----------------------------------------------------------------------------
(* The steps of the person, and of another process. *)

\* The callers hold nothing of a sign-in that is new, and a removal takes nothing
\* from them.
LEMMA DecidingKeeps ==
  ASSUME SignInInv, Plain', UNCHANGED <<kind, call, refreshing>>, generation <= generation',
         issuer'.minted \in {issuer.minted, Minted},
         \A t \in issuer'.takes : t \in issuer.takes \/ (t = Minted /\ issuer'.minted = Minted),
         \/ file' \in {file, NoEntry}
         \/ file'.access = Minted /\ file'.refresh \in {0, Minted} /\ issuer'.minted = Minted
         \/ file' = other.loaded.entry /\ other'.crossed,
         last' \in {last, file'},
         other.crossed => other'.crossed,
         other'.loaded.entry \in {other.loaded.entry, file, NoEntry},
         kind = "provider" => Stands' /\ Paired'
  PROVE  SignInInv'
<1>1. TypeOK'
  BY DEF SignInInv, TypeOK, Plain
<1>2. issuer.minted \in Nat /\ Minted = issuer.minted + 1 /\ issuer'.minted \in Nat /\ issuer.minted <= issuer'.minted
  BY DEF SignInInv, TypeOK, Tokens, Minted
<1>3. /\ file.access \in Nat /\ file.refresh \in Nat /\ last.refresh \in Nat /\ issuer.takes \subseteq Nat
      /\ NoEntry.access = 0 /\ NoEntry.refresh = 0
      /\ other.loaded.entry.access \in Nat /\ other.loaded.entry.refresh \in Nat
  BY EntryFields, LoadedIs DEF SignInInv, TypeOK, Tokens
<1>4. \A d \in Callers : /\ call[d].entry.refresh \in Nat /\ call[d].reply.access \in Nat
                         /\ call[d].reply.refresh \in Nat /\ call[d].seen \in Nat
  BY CallFields, EntryFields DEF SignInInv, Tokens
<1>5. /\ file.access <= issuer.minted /\ file.refresh <= issuer.minted /\ last.refresh <= issuer.minted
      /\ \A t \in issuer.takes : t <= issuer.minted
      /\ other.loaded.entry.access <= issuer.minted /\ other.loaded.entry.refresh <= issuer.minted
      /\ \A c \in Callers : /\ call[c].entry.refresh <= issuer.minted
                            /\ call[c].reply.access <= issuer.minted /\ call[c].reply.refresh <= issuer.minted
                            /\ kind = "mcp" => call[c].seen <= issuer.minted
  BY DEF SignInInv, Fresh
<1>6. Fresh'
  <2>1. file'.access <= issuer'.minted /\ file'.refresh <= issuer'.minted
    BY <1>2, <1>3, <1>5
  <2>2. last'.refresh <= issuer'.minted
    BY <1>2, <1>3, <1>5, <2>1
  <2>3. \A t \in issuer'.takes : t <= issuer'.minted
    BY <1>2, <1>3, <1>5
  <2>4. \A c \in Callers : /\ call[c].entry.refresh <= issuer'.minted
                           /\ call[c].reply.access <= issuer'.minted /\ call[c].reply.refresh <= issuer'.minted
                           /\ kind = "mcp" => call[c].seen <= issuer'.minted
    BY <1>2, <1>4, <1>5
  <2>5. other'.loaded.entry.access <= issuer'.minted /\ other'.loaded.entry.refresh <= issuer'.minted
    BY <1>2, <1>3, <1>5
  <2>. QED
    BY <2>1, <2>2, <2>3, <2>4, <2>5 DEF Fresh
<1>7. ASSUME NEW c \in Callers
      PROVE  Noticed(c)'
  <2>1. Noticed(c) /\ generation \in Nat /\ generation' \in Nat
    BY DEF SignInInv, TypeOK, Plain
  <2>2. kind = "mcp" /\ ~other'.crossed => file'.access # call[c].seen \/ file' \in {file, NoEntry}
    BY <1>2, <1>4, <1>5
  <2>3. ~other'.crossed => file'.access # call[c].reply.access \/ file' \in {file, NoEntry}
    BY <1>2, <1>4, <1>5
  <2>4. kind = "provider" => /\ call[c].seen <= generation'
                             /\ call[c].since => call[c].seen < generation'
    BY <1>4, <2>1 DEF Noticed
  <2>5. kind = "mcp" /\ ~other'.crossed /\ call[c].since =>
          call[c].at = "waiting" /\ (file' = NoEntry \/ file'.access # call[c].seen)
    BY <2>1, <2>2 DEF Noticed
  <2>6. kind = "mcp" /\ ~other'.crossed /\ call[c].at \in {"renewed", "storing"} => file'.access # call[c].reply.access
    BY <1>3, <2>1, <2>3 DEF Noticed
  <2>7. Told' => Told
    BY DEF Told
  <2>. QED
    BY <2>1, <2>4, <2>5, <2>6, <2>7 DEF Noticed
<1>8. ASSUME kind = "provider", NEW c \in Callers
      PROVE  Bound(c)'
  <2>1. Bound(c) /\ call[c].entry.refresh # Minted
    BY <1>2, <1>4, <1>5, <1>8 DEF SignInInv
  <2>. QED
    BY <2>1 DEF Bound
<1>. QED
  BY <1>1, <1>6, <1>7, <1>8 DEF SignInInv

\* A step of the person that finds nobody inside replace, or leaves the file.
LEMMA PairedStill ==
  ASSUME SignInInv, UNCHANGED call,
         \/ ~Replacing
         \/ other'.crossed
         \/ kind = "provider" /\ file' = file /\ (other.crossed => other'.crossed)
  PROVE  Paired'
BY DEF SignInInv, Paired, Replacing

\* The person's fields.
LEMMA PersonFields ==
  ASSUME TypeOK
  PROVE  person.signed \in Logins /\ person.left \in 0..MaxLogouts /\ person.entry \in Entry
BY DEF TypeOK, Person

\* A sign-in is of the line it decides, with tokens that were nowhere.
LEMMA SigningKeeps ==
  ASSUME SignInInv, CanMint, NEW e \in Entry, Signing(e), e.access = Minted, e.refresh \in {0, Minted},
         e # NoEntry, person' \in Person, UNCHANGED <<kind, cached, refreshing, call, faults>>,
         NEW crossed \in BOOLEAN, other' = [other EXCEPT !.crossed = crossed],
         other.crossed => crossed,
         kind = "provider" => ~Replacing \/ crossed
  PROVE  SignInInv'
<1>1. /\ file' = e /\ last' = e /\ decided' = e.line
      /\ issuer' = [minted |-> Minted, takes |-> issuer.takes \cup ({e.refresh} \ {0})]
  BY DEF Signing, Stores
<1>2. Minted \in 1..MaxMinted /\ issuer \in [minted : Tokens, takes : SUBSET (1..MaxMinted)]
  BY CredentialAssumption DEF SignInInv, TypeOK, Tokens, CanMint, Minted
<1>3. /\ issuer'.minted = Minted /\ issuer'.takes = issuer.takes \cup ({e.refresh} \ {0})
      /\ issuer' \in [minted : Tokens, takes : SUBSET (1..MaxMinted)]
  BY <1>1, <1>2 DEF Tokens
<1>o. /\ other' \in [loaded : Cached, crossed : BOOLEAN]
      /\ other'.loaded = other.loaded /\ other'.crossed = crossed
  BY DEF SignInInv, TypeOK
<1>4. Plain'
  BY <1>1, <1>3, <1>o, EntryFields DEF SignInInv, TypeOK, Plain, cached
<1>5. generation' = generation /\ generation \in Nat
  BY DEF cached, SignInInv, TypeOK
<1>6. Stands'
  BY <1>1 DEF Stands
<1>7. \A t \in issuer'.takes : t \in issuer.takes \/ (t = Minted /\ issuer'.minted = Minted)
  BY <1>3
<1>8. generation <= generation'
  BY <1>5
<1>9. kind = "provider" => Paired'
  BY <1>o, PairedStill
<1>. QED
  BY <1>1, <1>3, <1>4, <1>o, <1>6, <1>7, <1>8, <1>9, DecidingKeeps

LEMMA LoginKeeps ==
  ASSUME SignInInv, NEW key \in BOOLEAN, NEW renewable \in BOOLEAN, Login(key, renewable)
  PROVE  SignInInv'
<1>. DEFINE e == SignedIn(key, renewable, 1)
<1>1. /\ CanMint /\ Signing(e) /\ UNCHANGED <<kind, cached, refreshing, call, faults, other>>
      /\ person' = [person EXCEPT !.at = "written", !.entry = e, !.signed = Signs]
      /\ ~Replacing
  BY DEF Login, CanSign
<1>2. Signs \in Logins /\ 1 \in Logins /\ issuer.minted \in Tokens /\ person.signed \in Logins
  BY PersonFields, CredentialAssumption DEF Login, CanSign, Signs, Logins, SignInInv, TypeOK
<1>3. Brings(e)
  BY <1>1, <1>2, SignedInBrings
<1>. HIDE DEF e
<1>4. person' \in Person
  BY <1>1, <1>2, <1>3 DEF SignInInv, TypeOK, Person, Brings
<1>5. other.crossed \in BOOLEAN /\ other' = [other EXCEPT !.crossed = other.crossed]
  BY <1>1 DEF SignInInv, TypeOK
<1>. QED
  BY <1>1, <1>3, <1>4, <1>5, SigningKeeps DEF Brings

LEMMA McpLoginKeeps ==
  ASSUME SignInInv, NEW renewable \in BOOLEAN, McpLogin(renewable)
  PROVE  SignInInv'
<1>. DEFINE e == [SignedIn(FALSE, renewable, person.entry.client) EXCEPT !.line = person.signed]
<1>1. /\ CanMint /\ Signing(e) /\ UNCHANGED <<kind, cached, refreshing, call, faults, other>>
      /\ person' = [person EXCEPT !.at = "written", !.entry = e]
  BY DEF McpLogin
<1>2. person.entry.client \in Logins /\ issuer.minted \in Tokens /\ person.signed \in Logins
  BY PersonFields, EntryFields DEF SignInInv, TypeOK
<1>3. Brings(e)
  BY <1>1, <1>2, McpBrings
<1>. HIDE DEF e
<1>4. person' \in Person
  BY <1>1, <1>2, <1>3 DEF SignInInv, TypeOK, Person, Brings
<1>5. other.crossed \in BOOLEAN /\ other' = [other EXCEPT !.crossed = other.crossed]
  BY <1>1 DEF SignInInv, TypeOK
<1>6. kind # "provider"
  BY DEF McpLogin
<1>. QED
  BY <1>1, <1>3, <1>4, <1>5, <1>6, SigningKeeps DEF Brings

LEMMA ElsewhereKeeps ==
  ASSUME SignInInv, NEW signsIn \in BOOLEAN, Elsewhere(signsIn)
  PROVE  SignInInv'
<1>. DEFINE crossed == other.crossed \/ Replacing
<1>0. /\ crossed \in BOOLEAN /\ (other.crossed => crossed) /\ (~Replacing \/ crossed)
      /\ other' = [other EXCEPT !.crossed = crossed] /\ call' = call
      /\ other \in [loaded : Cached, crossed : BOOLEAN]
  BY DEF Elsewhere, SignInInv, TypeOK, Replacing
<1>. HIDE DEF crossed
<1>1. CASE signsIn
  <2>. DEFINE client == IF kind = "mcp" THEN Signs ELSE 1
              e == SignedIn(FALSE, TRUE, client)
  <2>1. /\ CanMint /\ Signing(e) /\ UNCHANGED <<kind, cached, refreshing, call, faults>>
        /\ person' = [person EXCEPT !.signed = Signs] /\ CanSign
    BY <1>1 DEF Elsewhere, CanSign
  <2>2. Signs \in Logins /\ client \in Logins /\ issuer.minted \in Tokens /\ person.signed \in Logins
    BY <2>1, PersonFields, CredentialAssumption DEF CanSign, Signs, Logins, SignInInv, TypeOK
  <2>. HIDE DEF client
  <2>3. Brings(e)
    BY <2>1, <2>2, ElsewhereBrings
  <2>. HIDE DEF e
  <2>4. person' \in Person
    BY <2>1, <2>2 DEF SignInInv, TypeOK, Person
  <2>. QED
    BY <1>0, <2>1, <2>3, <2>4, SigningKeeps DEF Brings
<1>2. CASE ~signsIn
  <2>1. /\ file' = NoEntry /\ decided' = 0 /\ UNCHANGED <<issuer, person, last>>
        /\ UNCHANGED <<kind, cached, refreshing, call, faults>>
    BY <1>2 DEF Elsewhere
  <2>o. other' \in [loaded : Cached, crossed : BOOLEAN] /\ other'.loaded = other.loaded /\ other'.crossed = crossed
    BY <1>0
  <2>2. Plain' /\ generation <= generation'
    BY <2>1, <2>o, EntryFields, CredentialAssumption DEF SignInInv, TypeOK, Plain, cached, Logins
  <2>3. Stands'
    BY <2>1 DEF Stands
  <2>4. Paired'
    BY <1>0, <2>o, PairedStill
  <2>. QED
    BY <1>0, <2>1, <2>o, <2>2, <2>3, <2>4, DecidingKeeps
<1>. QED
  BY <1>1, <1>2

\* Another process that changes the file for another name puts back what it loaded.
LEMMA ElsewhereSavesKeeps ==
  ASSUME SignInInv, ElsewhereLoads \/ ElsewhereSaves
  PROVE  SignInInv'
<1>0. /\ other \in [loaded : Cached, crossed : BOOLEAN] /\ other.loaded \in Cached
      /\ file \in Entry /\ last \in Entry /\ generation \in Nat
  BY DEF SignInInv, TypeOK
<1>e. /\ Empty \in Cached /\ Empty.entry = NoEntry
      /\ Holds(file) \in Cached /\ Holds(file).entry = file
  BY <1>0, CacheTypes DEF Empty, Holds
<1>1. CASE ElsewhereLoads
  <2>1. /\ other' = [other EXCEPT !.loaded = Holds(file)] /\ Fault
        /\ UNCHANGED <<kind, file, cached, refreshing, call, person, issuer, decided, last>>
    BY <1>1 DEF ElsewhereLoads
  <2>2. other' \in [loaded : Cached, crossed : BOOLEAN] /\ other'.loaded = Holds(file) /\ other'.crossed = other.crossed
    BY <1>0, <1>e, <2>1
  <2>3. Plain' /\ generation <= generation'
    BY <1>0, <2>1, <2>2, FaultIs DEF SignInInv, TypeOK, Plain, cached
  <2>4. kind = "provider" => Stands' /\ Paired'
    BY <2>1, <2>2, PairedStill DEF SignInInv, Stands
  <2>. QED
    BY <1>e, <2>1, <2>2, <2>3, <2>4, DecidingKeeps
<1>2. CASE ElsewhereSaves
  <2>. DEFINE e == other.loaded.entry
  <2>1. /\ file' = e /\ last' = (IF e = NoEntry THEN last ELSE e)
        /\ other' = [loaded |-> Empty, crossed |-> other.crossed \/ file # e]
        /\ UNCHANGED <<kind, cached, refreshing, call, person, issuer, faults, decided>>
    BY <1>2 DEF ElsewhereSaves
  <2>2. e \in Entry
    BY LoadedIs DEF SignInInv
  <2>3. /\ other' \in [loaded : Cached, crossed : BOOLEAN] /\ other'.loaded.entry = NoEntry
        /\ other.crossed => other'.crossed
        /\ file # e => other'.crossed
    BY <1>0, <1>e, <2>1
  <2>4. Plain' /\ generation <= generation'
    BY <1>0, <2>1, <2>2, <2>3 DEF SignInInv, TypeOK, Plain, cached
  <2>5. kind = "provider" => Stands'
    BY <2>1, <2>3 DEF SignInInv, Stands
  <2>6. kind = "provider" => Paired'
    BY <2>1, <2>3, PairedStill
  <2>. QED
    BY <2>1, <2>3, <2>4, <2>5, <2>6, DecidingKeeps
<1>. QED
  BY <1>1, <1>2

\* What is left of the person's steps is of the file, the cache and the issuer.
LEMMA PersonKeeps ==
  ASSUME SignInInv,
         \/ \E b \in BOOLEAN : ClientFor(b) \/ Revoke(b)
         \/ LoginRemember \/ ForgetRetirement \/ Logout \/ McpLogout \/ Remove \/ Forget
  PROVE  SignInInv'
<1>s. CanSign => Signs \in Logins
  BY PersonFields, CredentialAssumption DEF SignInInv, Logins, CanSign, Signs
<1>. USE EntryFields, PersonFields, CacheTypes, CredentialAssumption
         DEF cached, decision, SignInInv, TypeOK, Plain, Person, Remember
<1>p. file' = file /\ call' = call /\ other' = other => (kind = "provider" => Paired')
  BY PairedStill
<1>0. generation \in Nat /\ generation <= generation /\ Signs = person.signed + 1
  BY DEF Signs
<1>1. ASSUME NEW b \in BOOLEAN, ClientFor(b)
      PROVE  SignInInv'
  <2>. DEFINE e == [NoEntry EXCEPT !.client = IF b THEN file.client ELSE Signs]
  <2>1. person' = [person EXCEPT !.at = "signing", !.signed = Signs, !.entry = e]
    BY <1>1 DEF ClientFor
  <2>2. Signs \in Logins
    BY <1>1, <1>s DEF ClientFor
  <2>3. e \in Entry
    BY <2>2 DEF Entry, NoEntry
  <2>. HIDE DEF e
  <2>4. Plain'
    BY <1>1, <2>1, <2>2, <2>3 DEF ClientFor
  <2>5. kind = "provider" => Stands' /\ Paired'
    BY <1>1, <1>p DEF ClientFor, Stands
  <2>. QED
    BY <1>0, <1>1, <2>4, <2>5, DecidingKeeps DEF ClientFor
<1>2. ASSUME NEW b \in BOOLEAN, Revoke(b)
      PROVE  SignInInv'
  <2>. DEFINE left == IF b THEN issuer.takes \ {person.entry.refresh} ELSE issuer.takes
  <2>1. issuer' = [issuer EXCEPT !.takes = left] /\ left \subseteq issuer.takes
    BY <1>2 DEF Revoke
  <2>. HIDE DEF left
  <2>2. /\ issuer'.minted = issuer.minted /\ issuer'.takes = left
        /\ issuer' \in [minted : Tokens, takes : SUBSET (1..MaxMinted)]
    BY <2>1
  <2>3. Plain'
    BY <1>2, <2>2 DEF Revoke
  <2>4. kind = "provider" => Stands' /\ Paired'
    BY <1>2, <1>p, <2>1, <2>2 DEF Revoke, Stands
  <2>. QED
    BY <1>0, <1>2, <2>1, <2>2, <2>3, <2>4, DecidingKeeps DEF Revoke
<1>3. CASE LoginRemember
  <2>1. Plain' /\ generation <= generation' /\ (kind = "provider" => Stands' /\ Paired')
    BY <1>3, <1>p DEF LoginRemember, Stands
  <2>. QED
    BY <1>3, <2>1, DecidingKeeps DEF LoginRemember
<1>4. CASE ForgetRetirement
  <2>1. Plain' /\ (kind = "provider" => Stands' /\ Paired')
    BY <1>4, <1>p DEF ForgetRetirement, Stands
  <2>. QED
    BY <1>0, <1>4, <2>1, DecidingKeeps DEF ForgetRetirement
<1>5. CASE Logout
  <2>1. Looked.entry \in Entry /\ person.left + 1 \in 0..MaxLogouts
    BY <1>5 DEF Logout, Cached
  <2>2. Plain' /\ (kind = "provider" => Stands' /\ Paired')
    BY <1>5, <1>p, <2>1 DEF Logout, Stands
  <2>. QED
    BY <1>0, <1>5, <2>2, DecidingKeeps DEF Logout
<1>6. CASE McpLogout
  <2>1. Plain' /\ (kind = "provider" => Stands' /\ Paired')
    BY <1>6, <1>p DEF McpLogout, Stands
  <2>. QED
    BY <1>0, <1>6, <2>1, DecidingKeeps DEF McpLogout
<1>7. CASE Remove
  <2>1. Plain' /\ (kind = "provider" => Stands' /\ Paired')
    BY <1>7, PairedStill DEF Remove, Stands, Logins
  <2>. QED
    BY <1>0, <1>7, <2>1, DecidingKeeps DEF Remove
<1>8. CASE Forget
  <2>1. Plain' /\ generation <= generation' /\ (kind = "provider" => Stands' /\ Paired')
    BY <1>8, <1>p DEF Forget, Stands
  <2>. QED
    BY <1>8, <2>1, DecidingKeeps DEF Forget
<1>. QED
  BY <1>1, <1>2, <1>3, <1>4, <1>5, <1>6, <1>7, <1>8

-----------------------------------------------------------------------------
(* The theorems. *)

\* Whoever signed in before holds the first tokens there are.
LEMMA SignInInit ==
  ASSUME Init
  PROVE  SignInInv
<1>1. /\ file \in Entry /\ file.access \in {0, 1} /\ file.refresh \in {0, 1} /\ file.line \in {0, 1}
      /\ file.refresh <= file.access
      /\ file = NoEntry => file.line = 0
  <2>1. CASE file = NoEntry
    BY <2>1, EntryFields
  <2>2. CASE file \in [key : {FALSE}, access : {1}, refresh : {0, 1}, client : {1},
                      line : {1}, mintedFor : {1}]
    <3>1. 1 \in Tokens /\ 0 \in Tokens /\ 1 \in Logins
      BY CredentialAssumption DEF Tokens, Logins
    <3>2. file \in Entry /\ file.access = 1 /\ file.refresh \in {0, 1} /\ file.line = 1
      BY <2>2, <3>1 DEF Entry
    <3>. QED
      BY <3>2, EntryFields
  <2>. QED
    BY <2>1, <2>2 DEF Init
<1>2. /\ call = [c \in Callers |-> Resting] /\ refreshing = Nobody /\ generation = 0
      /\ cache = Empty /\ retired = FALSE /\ faults = 0 /\ kind \in Kinds
      /\ decided = file.line /\ last = file /\ other = [loaded |-> Empty, crossed |-> FALSE]
      /\ person = [at |-> "away", entry |-> NoEntry, signed |-> file.line, left |-> 0]
      /\ issuer = [minted |-> file.access, takes |-> {file.refresh} \ {0}]
  BY DEF Init
<1>3. issuer.minted = file.access /\ issuer.takes = {file.refresh} \ {0}
  BY <1>2
<1>4. \A c \in Callers : /\ call[c].at = "idle" /\ call[c].seen = 0 /\ call[c].entry = NoEntry
                         /\ call[c].reply = NoEntry /\ call[c].since = FALSE
  BY <1>2, RestingIs
<1>5. TypeOK
  <2>1. Calls
    BY <1>2, <1>4, RestingIs, CredentialAssumption DEF Calls, Inside
  <2>2. person \in Person
    BY <1>1, <1>2, EntryFields, CredentialAssumption DEF Person, Logins
  <2>3. issuer \in [minted : Tokens, takes : SUBSET (1..MaxMinted)]
    BY <1>1, <1>2, CredentialAssumption DEF Tokens
  <2>4. decided \in Logins /\ faults \in 0..MaxFaults
    BY <1>1, <1>2, CredentialAssumption DEF Logins
  <2>. QED
    BY <1>1, <1>2, <2>1, <2>2, <2>3, <2>4, CacheTypes DEF TypeOK, Calls
<1>6. Fresh
  <2>1. NoEntry.refresh = 0 /\ NoEntry.access = 0 /\ other.loaded.entry = NoEntry
    BY <1>2, EntryFields DEF Empty
  <2>. QED
    BY <1>1, <1>2, <1>3, <1>4, <2>1 DEF Fresh
<1>7. Stands /\ Paired
  BY <1>1, <1>2, <1>4 DEF Stands, Paired
<1>8. \A c \in Callers : Bound(c)
  BY <1>4 DEF Bound
<1>9. \A c \in Callers : Noticed(c)
  <2>. SUFFICES ASSUME NEW c \in Callers
                PROVE  Noticed(c)
    OBVIOUS
  <2>1. ~call[c].since /\ call[c].at = "idle" /\ call[c].seen <= generation
    BY <1>2, <1>4
  <2>. QED
    BY <2>1 DEF Noticed
<1>. QED
  BY <1>5, <1>6, <1>7, <1>8, <1>9 DEF SignInInv

\* Every step keeps it.
LEMMA SignInStep ==
  ASSUME SignInInv, [Next]_vars
  PROVE  SignInInv'
<1>1. ASSUME NEW c \in Callers, Asking(c)
      PROVE  SignInInv'
  BY <1>1, AccessTokenKeeps, LockKeeps, RefreshKeeps, RenewKeeps, ExchangeKeeps, ReplacementKeeps,
     RefusesKeeps, UnreachableKeeps, RenewedKeeps, SavedKeeps, ExpireKeeps, ErasedKeeps, ForgetsKeeps, RememberRenewedKeeps,
     RememberExpiredKeeps, RegisteredKeeps, WriteKeeps, RetireKeeps, SetRetiredKeeps
     DEF Asking
<1>2. CASE Deciding
  BY <1>2, LoginKeeps, McpLoginKeeps, ElsewhereKeeps, ElsewhereSavesKeeps, PersonKeeps DEF Deciding
<1>3. CASE UNCHANGED vars
  <2>1. /\ file' = file /\ kind' = kind /\ last' = last /\ decided' = decided /\ issuer' = issuer
        /\ call' = call /\ generation' = generation /\ cache' = cache /\ retired' = retired
        /\ refreshing' = refreshing /\ person' = person /\ faults' = faults /\ other' = other
    BY <1>3 DEF vars, cached, decision
  <2>2. TypeOK' /\ Fresh'
    BY <2>1 DEF SignInInv, TypeOK, Fresh
  <2>3. /\ kind = "provider" => Stands' /\ Paired' /\ \A c \in Callers : Bound(c)'
        /\ \A c \in Callers : Noticed(c)'
    BY <2>1 DEF SignInInv, Stands, Paired, Bound, Noticed, Told
  <2>. QED
    BY <2>1, <2>2, <2>3 DEF SignInInv
<1>. QED
  BY <1>1, <1>2, <1>3 DEF Next

\* SignInInv holds in every state, whatever the callers, the person, the issuer
\* and another process do.
THEOREM SignInInduction == Spec => []SignInInv
<1>1. Init => SignInInv
  BY SignInInit
<1>2. SignInInv /\ [Next]_vars => SignInInv'
  BY SignInStep
<1>. QED
  BY <1>1, <1>2, PTL DEF Spec

\* The state of a sign-in is well typed, and one caller at a time is past the
\* refresh lock (TokenSource::refresh, McpAuth::refreshed).
THEOREM CredentialTypes == Spec => []TypeOK
<1>1. SignInInv => TypeOK
  BY DEF SignInInv
<1>. QED
  BY <1>1, SignInInduction, PTL

\* No late answer to a refresh undoes a sign-in or a sign-out of a provider, and
\* only a credential that is of no use is removed (TokenSource::replace, expire), as
\* long as no other process is inside a read-change-write of the same file at once.
THEOREM WhatWasDecidedStands == Spec => []DecisionStands
<1>1. SignInInv => DecisionStands
  BY DEF SignInInv, Stands, DecisionStands
<1>. QED
  BY <1>1, SignInInduction, PTL

\* A refresh happens once however many callers ask at once: a caller that waited
\* while another renewed sends nothing (TokenSource::refresh, McpAuth::refreshed);
\* an MCP server's as long as no other process put an old bearer back.
THEOREM OneRenewal == Spec => []RenewedOnce
<1>1. SignInInv => RenewedOnce
  BY DEF SignInInv, Noticed, RenewedOnce, Told
<1>. QED
  BY <1>1, SignInInduction, PTL
=============================================================================
