----------------------------- MODULE Credential -----------------------------
(* One sign-in over time (bingo-auth-oauth): the entry auth.json keeps for *)
(* a provider (source.rs, TokenSource) or for an MCP server (mcp.rs,       *)
(* McpAuth), the callers that ask for a bearer, the person who signs in    *)
(* and out, the issuer, and another process that signs in or out.  A step  *)
(* is one operation on the store, on the cache (under its mutex) or at the *)
(* issuer.  STORE_LOCK is a lock of this process only, so replace is two   *)
(* steps: the load it compares, and the rename.  What a plain read, write  *)
(* or removal leaves of this entry does not depend on what was loaded.     *)
EXTENDS Naturals

CONSTANTS
  Callers,    \* tasks that need a bearer
  Kinds,      \* a subset of {"provider", "mcp"}: whose sign-in this is
  Others,     \* whether another process signs in and out too
  Nobody,
  MaxMinted,  \* token sets the issuer hands out, at most
  MaxLogins,  \* sign-ins, at most
  MaxLogouts, \* sign-outs of a provider, at most
  MaxFaults   \* lost replies, refused writes and another process's changes
              \* of the file for another name, at most

ASSUME CredentialAssumption ==
  /\ Kinds \subseteq {"provider", "mcp"}
  /\ Nobody \notin Callers /\ Others \in BOOLEAN
  /\ MaxMinted \in Nat \ {0} /\ MaxLogins \in Nat \ {0}
  /\ MaxLogouts \in Nat /\ MaxFaults \in Nat

VARIABLES
  kind,        \* provider or mcp
  file,        \* the entry in auth.json
  cache,       \* TokenSource.cache: the entry as this process holds it,
  generation,  \* and the number of renewals it counted
  retired,     \* McpAuth.retired
  refreshing,  \* who holds the refresh lock
  call,        \* where each caller is
  person,      \* where the person's login or logout is
  issuer,      \* what the issuer knows: how many sets it minted, and the
               \* refresh tokens it takes
  faults,
  other,       \* another process: the entry it loaded, to save the whole file
               \* again; and, as history, whether two processes' changes crossed
  decided,     \* history: the last sign-in, 0 after a sign-out
  last         \* history: the last entry that was put in the file

cached == <<cache, generation, retired>>
decision == <<other, decided, last>>
vars == <<kind, file, cached, refreshing, call, person, issuer, faults, decision>>

Tokens == 0..MaxMinted
Logins == 0..MaxLogins

(* An entry names its access token, its refresh token (0: none), the       *)
(* client registration beside them, and, as history, the sign-in it comes  *)
(* from and the client its tokens were minted for.  A pasted key is an     *)
(* entry with nothing to refresh.                                          *)
Entry == [key : BOOLEAN, access : Tokens, refresh : Tokens,
          client : Logins, line : Logins, mintedFor : Logins]

NoEntry == [key |-> FALSE, access |-> 0, refresh |-> 0,
            client |-> 0, line |-> 0, mintedFor |-> 0]

Cached == [is : {"none", "entry", "expired"}, entry : Entry]
Empty == [is |-> "none", entry |-> NoEntry]
Expired == [is |-> "expired", entry |-> NoEntry]
Holds(e) == [is |-> "entry", entry |-> e]

(* waiting for the lock; locked, with the entry it read; sent to the       *)
(* issuer; what came back; inside replace, after the comparison; and the   *)
(* steps on store and cache after it.                                      *)
Places == {"idle", "waiting", "locked", "sent", "renewed", "refused", "saving", "erasing",
           "superseded", "replacing", "remembering", "expiring", "storing"}
Inside == Places \ {"idle", "waiting"}

(* seen: the generation (provider) or the bearer (mcp) the caller decided  *)
(* on; entry: its snapshot; client: who it says it is; reply: what it will *)
(* store or remember; since: history, whether another caller renewed while *)
(* this one was asking.                                                    *)
Call == [at : Places, seen : Nat, entry : Entry, client : Logins,
         reply : Entry, since : BOOLEAN]
Resting == [at |-> "idle", seen |-> 0, entry |-> NoEntry, client |-> 0,
            reply |-> NoEntry, since |-> FALSE]

Person == [at : {"away", "signing", "written", "leaving", "revoked", "removed", "revoking"},
           entry : Entry, signed : Logins, left : 0..MaxLogouts]

(* Somebody signed in before this process started, or nobody did.          *)
Init ==
  /\ kind \in Kinds
  /\ file \in {NoEntry} \cup
       [key : {FALSE}, access : {1}, refresh : {0, 1}, client : {1},
        line : {1}, mintedFor : {1}]
  /\ cache = Empty /\ generation = 0 /\ retired = FALSE
  /\ refreshing = Nobody
  /\ call = [c \in Callers |-> Resting]
  /\ person = [at |-> "away", entry |-> NoEntry, signed |-> file.line, left |-> 0]
  /\ issuer = [minted |-> file.access, takes |-> {file.refresh} \ {0}]
  /\ faults = 0
  /\ decided = file.line /\ last = file
  /\ other = [loaded |-> Empty, crossed |-> FALSE]

-----------------------------------------------------------------------------
(* The issuer, and what goes wrong.                                        *)

Fault == faults < MaxFaults /\ faults' = faults + 1

Minted == issuer.minted + 1
CanMint == issuer.minted < MaxMinted

-----------------------------------------------------------------------------
(* The store and the cache.                                                *)

(* The file's entry becomes e.                                             *)
Stores(e) == file' = e /\ last' = e

(* replace holds STORE_LOCK, between its comparison and its rename.        *)
Replacing == \E c \in Callers : call[c].at \in {"saving", "erasing"}

(* A file that cannot give an entry leaves only what expired; an empty     *)
(* cache is filled from it.                                                *)
Filled == IF file # NoEntry /\ cache.is = "none" THEN Holds(file) ELSE cache
Looked == IF file = NoEntry /\ cache.is # "expired" THEN Empty ELSE Filled

Remember(c) ==
  /\ cache' = c
  /\ generation' = generation + 1
  /\ UNCHANGED retired

(* The lock guard is dropped with the call that held it.                   *)
Returns(c) ==
  /\ call' = [call EXCEPT ![c] = Resting]
  /\ refreshing' = Nobody

Goes(c, at) == call' = [call EXCEPT ![c].at = at] /\ UNCHANGED refreshing

(* A caller that has renewed is done; the others that ask now asked before.*)
Renews(c) ==
  /\ call' = [d \in Callers |->
                IF d = c THEN Resting
                ELSE [call[d] EXCEPT !.since = call[d].at # "idle"]]
  /\ refreshing' = Nobody

-----------------------------------------------------------------------------
(* Asking for a bearer: access_token, and refreshed after a 401.  Whether  *)
(* a token is within REFRESH_LEAD of its expiry, over, or without one, is  *)
(* the clock's and the issuer's to say: any token may be found stale.      *)

Waits(c, seen) ==
  call' = [call EXCEPT ![c] = [Resting EXCEPT !.at = "waiting", !.seen = seen]]

AccessToken(c, renew) ==
  /\ call[c].at = "idle" /\ ~Replacing
  /\ IF kind = "provider"
     THEN /\ cache' = Filled
          /\ IF renew THEN Waits(c, generation) ELSE UNCHANGED call
     ELSE /\ renew /\ file # NoEntry
          /\ Waits(c, file.access)
          /\ UNCHANGED cache
  /\ UNCHANGED <<kind, file, generation, retired, refreshing, person, issuer, faults, decision>>

LockMutant(c) ==
  /\ call[c].at = "waiting"
  /\ IF file = NoEntry \/ (kind = "mcp" /\ file.access # call[c].seen)
     THEN Returns(c)
     ELSE /\ refreshing' = c
          /\ call' = [call EXCEPT ![c].at = "locked", ![c].entry = file]
  /\ UNCHANGED <<kind, file, cached, person, issuer, faults, decision>>

(* The refresh lock and the entry read under it: a snapshot for a          *)
(* provider, the tokens compared with the bearer that bounced for mcp.     *)
Lock(c) ==
  /\ call[c].at = "waiting"
  /\ refreshing = Nobody
  /\ IF file = NoEntry \/ (kind = "mcp" /\ file.access # call[c].seen)
     THEN Returns(c)
     ELSE /\ refreshing' = c
          /\ call' = [call EXCEPT ![c].at = "locked", ![c].entry = file]
  /\ UNCHANGED <<kind, file, cached, person, issuer, faults, decision>>

Sends(c) ==
  IF call[c].entry.refresh = 0 THEN Goes(c, "refused")
  ELSE /\ call' = [call EXCEPT ![c].at = "sent", ![c].client = file.client]
       /\ UNCHANGED refreshing

RefreshMutant(c) ==
  /\ kind = "provider" /\ call[c].at = "locked"
  /\ cache' = Filled
  /\ IF Looked.is # "entry" \/ Looked.entry.key \/ call[c].entry.key
     THEN Returns(c)
     ELSE Sends(c)
  /\ UNCHANGED <<kind, file, generation, retired, person, issuer, faults, decision>>

(* Refresh unless somebody already did; a key, an expired or an absent     *)
(* credential is answered as it is.                                        *)
Refresh(c) ==
  /\ kind = "provider" /\ call[c].at = "locked"
  /\ cache' = Filled
  /\ IF generation # call[c].seen \/ Looked.is # "entry" \/ Looked.entry.key \/ call[c].entry.key
     THEN Returns(c)
     ELSE Sends(c)
  /\ UNCHANGED <<kind, file, generation, retired, person, issuer, faults, decision>>

(* renew asks the store once more, for the issuer and the client.          *)
Renew(c) ==
  /\ kind = "mcp" /\ call[c].at = "locked"
  /\ IF call[c].entry.refresh # 0 /\ file = NoEntry THEN Returns(c) ELSE Sends(c)
  /\ UNCHANGED <<kind, file, cached, person, issuer, faults, decision>>

(* The issuer renews for the client the token was minted for, with a new   *)
(* refresh token or without one.                                           *)
Takes(c) ==
  /\ call[c].entry.refresh \in issuer.takes
  /\ kind = "mcp" => call[c].client = call[c].entry.mintedFor

Granted(c, rotates) ==
  [call[c].entry EXCEPT !.access = Minted, !.refresh = IF rotates THEN Minted ELSE @]

Grants(rotates, c) ==
  issuer' = [issuer EXCEPT !.minted = Minted,
               !.takes = IF rotates THEN (@ \ {call[c].entry.refresh}) \cup {Minted} ELSE @]

Exchange(c, rotates) ==
  /\ call[c].at = "sent" /\ Takes(c) /\ CanMint
  /\ Grants(rotates, c)
  /\ \/ /\ call' = [call EXCEPT ![c].at = "renewed", ![c].reply = Granted(c, rotates)]
        /\ UNCHANGED <<refreshing, faults>>
     \/ Fault /\ Returns(c)
  /\ UNCHANGED <<kind, file, cached, person, decision>>

(* "refresh_token_expired", "reused" or "invalidated" are permanent; any   *)
(* other refusal is worth another attempt.  "an issuer may retire one      *)
(* early".                                                                 *)
Refuses(c) ==
  /\ call[c].at = "sent"
  /\ \/ /\ Goes(c, "refused")
        /\ issuer' = [issuer EXCEPT !.takes = @ \ {call[c].entry.refresh}]
     \/ ~Takes(c) /\ Returns(c) /\ UNCHANGED issuer
  /\ UNCHANGED <<kind, file, cached, person, faults, decision>>

Unreachable(c) ==
  /\ call[c].at = "sent" /\ Fault /\ Returns(c)
  /\ UNCHANGED <<kind, file, cached, person, issuer, decision>>

-----------------------------------------------------------------------------
(* A provider's renewal: replace compares the file with the snapshot, and  *)
(* then saves what it loaded with the one entry changed.                   *)

Superseded(c) ==
  file # call[c].entry /\ Goes(c, "superseded") /\ UNCHANGED faults

RenewedMutant(c) ==
  /\ kind = "provider" /\ call[c].at = "renewed"
  /\ Goes(c, "saving")
  /\ UNCHANGED <<kind, file, cached, person, issuer, faults, decision>>

Renewed(c) ==
  /\ kind = "provider" /\ call[c].at = "renewed"
  /\ \/ file = call[c].entry /\ Goes(c, "saving") /\ UNCHANGED faults
     \/ Superseded(c)
     \/ Fault /\ Returns(c)
  /\ UNCHANGED <<kind, file, cached, person, issuer, decision>>

Saved(c) ==
  /\ call[c].at = "saving"
  /\ \/ Stores(call[c].reply) /\ Goes(c, "remembering") /\ UNCHANGED faults
     \/ Fault /\ Returns(c) /\ UNCHANGED <<file, last>>
  /\ UNCHANGED <<kind, cached, person, issuer, other, decided>>

(* A retired credential is removed; one that cannot be is expired here.    *)
Expire(c) ==
  /\ kind = "provider" /\ call[c].at = "refused"
  /\ \/ file = call[c].entry /\ Goes(c, "erasing") /\ UNCHANGED faults
     \/ Superseded(c)
     \/ Fault /\ Goes(c, "expiring")
  /\ UNCHANGED <<kind, file, cached, person, issuer, decision>>

Erased(c) ==
  /\ call[c].at = "erasing"
  /\ \/ file' = NoEntry /\ UNCHANGED faults
     \/ Fault /\ UNCHANGED file
  /\ Goes(c, "expiring")
  /\ UNCHANGED <<kind, cached, person, issuer, decision>>

(* Somebody else's entry is there, or none: forget, and read again.  It is *)
(* used when it is a key or has a token that is not over.                  *)
Forgets(c) ==
  /\ call[c].at = "superseded"
  /\ Remember(Empty)
  /\ Goes(c, "replacing")
  /\ UNCHANGED <<kind, file, person, issuer, faults, decision>>

Replacement(c, over) ==
  /\ call[c].at = "replacing"
  /\ IF file # NoEntry /\ (file.key \/ ~over)
     THEN call' = [call EXCEPT ![c].at = "remembering", ![c].reply = file]
          /\ UNCHANGED refreshing
     ELSE Returns(c)
  /\ UNCHANGED <<kind, file, cached, person, issuer, faults, decision>>

RememberRenewed(c) ==
  /\ call[c].at = "remembering"
  /\ Remember(Holds(call[c].reply))
  /\ Renews(c)
  /\ UNCHANGED <<kind, file, person, issuer, faults, decision>>

RememberExpired(c) ==
  /\ kind = "provider" /\ call[c].at = "expiring"
  /\ Remember(Expired)
  /\ Returns(c)
  /\ UNCHANGED <<kind, file, person, issuer, faults, decision>>

-----------------------------------------------------------------------------
(* An MCP server's renewal: the client and scope the file has now, then a  *)
(* write of whatever is there.                                             *)

Registered(c) ==
  /\ kind = "mcp" /\ call[c].at = "renewed"
  /\ IF file = NoEntry THEN Returns(c)
     ELSE /\ call' = [call EXCEPT ![c].at = "storing", ![c].reply.client = file.client]
          /\ UNCHANGED refreshing
  /\ UNCHANGED <<kind, file, cached, person, issuer, faults, decision>>

Write(c) ==
  /\ call[c].at = "storing"
  /\ \/ Stores(call[c].reply) /\ Renews(c) /\ UNCHANGED faults
     \/ Fault /\ Returns(c) /\ UNCHANGED <<file, last>>
  /\ UNCHANGED <<kind, cached, person, issuer, other, decided>>

Retire(c) ==
  /\ kind = "mcp" /\ call[c].at = "refused"
  /\ \/ file' = NoEntry /\ UNCHANGED faults
     \/ Fault /\ UNCHANGED file
  /\ Goes(c, "expiring")
  /\ UNCHANGED <<kind, cached, person, issuer, decision>>

SetRetired(c) ==
  /\ kind = "mcp" /\ call[c].at = "expiring"
  /\ retired' = TRUE
  /\ Returns(c)
  /\ UNCHANGED <<kind, file, cache, generation, person, issuer, faults, decision>>

-----------------------------------------------------------------------------
(* The person, here and in another process.                                *)

Signs == person.signed + 1
CanSign == person.signed < MaxLogins /\ CanMint

(* What a sign-in brings: tokens, with or without something to renew them, *)
(* or a pasted key.                                                        *)
SignedIn(key, renewable, client) ==
  [key |-> key, access |-> Minted, refresh |-> IF renewable THEN Minted ELSE 0,
   client |-> client, line |-> Signs, mintedFor |-> client]

Signing(e) ==
  /\ Stores(e)
  /\ decided' = e.line
  /\ issuer' = [minted |-> Minted, takes |-> issuer.takes \cup ({e.refresh} \ {0})]

(* login_browser, login_device and login_paste, up to the write.           *)
Login(key, renewable) ==
  /\ kind = "provider" /\ person.at = "away" /\ CanSign /\ ~Replacing
  /\ key => ~renewable
  /\ LET e == SignedIn(key, renewable, 1)
     IN  Signing(e) /\ person' = [person EXCEPT !.at = "written", !.entry = e, !.signed = Signs]
  /\ UNCHANGED <<kind, cached, refreshing, call, faults, other>>

LoginRemember ==
  /\ kind = "provider" /\ person.at = "written"
  /\ Remember(Holds(person.entry))
  /\ person' = [person EXCEPT !.at = "away"]
  /\ UNCHANGED <<kind, file, refreshing, call, issuer, faults, decision>>

(* McpAuth::login finds the issuer and the client first: the registered    *)
(* one, or a new registration.                                             *)
ClientFor(registered) ==
  /\ kind = "mcp" /\ person.at = "away" /\ CanSign
  /\ registered => file # NoEntry
  /\ person' = [person EXCEPT !.at = "signing", !.signed = Signs,
                  !.entry = [NoEntry EXCEPT !.client = IF registered THEN file.client ELSE Signs]]
  /\ UNCHANGED <<kind, file, cached, refreshing, call, issuer, faults, decision>>

McpLogin(renewable) ==
  /\ kind = "mcp" /\ person.at = "signing" /\ CanMint
  /\ LET e == [SignedIn(FALSE, renewable, person.entry.client) EXCEPT !.line = person.signed]
     IN  Signing(e) /\ person' = [person EXCEPT !.at = "written", !.entry = e]
  /\ UNCHANGED <<kind, cached, refreshing, call, faults, other>>

ForgetRetirement ==
  /\ kind = "mcp" /\ person.at \in {"written", "removed"}
  /\ retired' = FALSE
  /\ person' = [person EXCEPT !.at = "away"]
  /\ UNCHANGED <<kind, file, cache, generation, refreshing, call, issuer, faults, decision>>

(* A provider's entry is removed before the issuer is told, an MCP         *)
(* server's after.                                                         *)
Logout ==
  /\ kind = "provider" /\ person.at = "away" /\ person.left < MaxLogouts /\ ~Replacing
  /\ cache' = Filled
  /\ person' = [person EXCEPT !.at = "leaving", !.entry = Looked.entry, !.left = @ + 1]
  /\ UNCHANGED <<kind, file, generation, retired, refreshing, call, issuer, faults, decision>>

McpLogout ==
  /\ kind = "mcp" /\ person.at = "away"
  /\ person' = [person EXCEPT !.at = "leaving", !.entry = file]
  /\ UNCHANGED <<kind, file, cached, refreshing, call, issuer, faults, decision>>

Remove ==
  /\ person.at = IF kind = "provider" THEN "leaving" ELSE "revoked"
  /\ ~Replacing
  /\ file' = NoEntry /\ decided' = 0
  /\ person' = [person EXCEPT !.at = "removed"]
  /\ UNCHANGED <<kind, cached, refreshing, call, issuer, faults, other, last>>

Forget ==
  /\ kind = "provider" /\ person.at = "removed"
  /\ Remember(Empty)
  /\ person' = [person EXCEPT !.at = "revoking"]
  /\ UNCHANGED <<kind, file, refreshing, call, issuer, faults, decision>>

(* "best effort": the issuer forgets the refresh token, or was not reached.*)
Revoke(reached) ==
  /\ person.at = IF kind = "provider" THEN "revoking" ELSE "leaving"
  /\ issuer' = [issuer EXCEPT !.takes = IF reached THEN @ \ {person.entry.refresh} ELSE @]
  /\ person' = [person EXCEPT !.at = IF kind = "provider" THEN "away" ELSE "revoked"]
  /\ UNCHANGED <<kind, file, cached, refreshing, call, faults, decision>>

(* "a `bingo login` run while this session was open", or a logout; this    *)
(* process may be inside its own replace.                                  *)
Elsewhere(signsIn) ==
  /\ Others /\ other.loaded = Empty
  /\ IF signsIn
     THEN /\ CanSign
          /\ Signing(SignedIn(FALSE, TRUE, IF kind = "mcp" THEN Signs ELSE 1))
          /\ person' = [person EXCEPT !.signed = Signs]
     ELSE file' = NoEntry /\ decided' = 0 /\ UNCHANGED <<issuer, person, last>>
  /\ other' = [other EXCEPT !.crossed = @ \/ Replacing]
  /\ UNCHANGED <<kind, cached, refreshing, call, faults>>

(* Another process changes the entry of another name: it saves the whole   *)
(* file with this entry as it loaded it.                                   *)
ElsewhereLoads ==
  /\ Others /\ other.loaded = Empty /\ Fault
  /\ other' = [other EXCEPT !.loaded = Holds(file)]
  /\ UNCHANGED <<kind, file, cached, refreshing, call, person, issuer, decided, last>>

ElsewhereSaves ==
  /\ other.loaded # Empty
  /\ LET e == other.loaded.entry
     IN  /\ file' = e /\ last' = IF e = NoEntry THEN last ELSE e
         /\ other' = [loaded |-> Empty, crossed |-> other.crossed \/ file # e]
  /\ UNCHANGED <<kind, cached, refreshing, call, person, issuer, faults, decided>>

-----------------------------------------------------------------------------
Asking(c) ==
  \/ \E b \in BOOLEAN : AccessToken(c, b)
  \/ Lock(c) \/ Refresh(c) \/ Renew(c)
  \/ \E b \in BOOLEAN : Exchange(c, b) \/ Replacement(c, b)
  \/ Refuses(c) \/ Unreachable(c)
  \/ Renewed(c) \/ Saved(c) \/ Expire(c) \/ Erased(c)
  \/ Forgets(c) \/ RememberRenewed(c) \/ RememberExpired(c)
  \/ Registered(c) \/ Write(c) \/ Retire(c) \/ SetRetired(c)

Deciding ==
  \/ \E k, r \in BOOLEAN : Login(k, r)
  \/ \E b \in BOOLEAN : ClientFor(b) \/ McpLogin(b) \/ Revoke(b) \/ Elsewhere(b)
  \/ ElsewhereLoads \/ ElsewhereSaves
  \/ LoginRemember \/ ForgetRetirement \/ Logout \/ McpLogout \/ Remove \/ Forget

Next == Deciding \/ \E c \in Callers : Asking(c)

Spec == Init /\ [][Next]_vars

-----------------------------------------------------------------------------
(* The state is well typed; the refresh lock is held by the one caller     *)
(* that is past it, which has an entry in hand.                            *)
TypeOK ==
  /\ kind \in Kinds
  /\ file \in Entry /\ last \in Entry /\ decided \in Logins
  /\ cache \in Cached /\ generation \in Nat /\ retired \in BOOLEAN
  /\ refreshing \in Callers \cup {Nobody}
  /\ call \in [Callers -> Call]
  /\ \A c \in Callers : call[c].at \in Inside <=> refreshing = c
  /\ \A c \in Callers : call[c].at \in Inside => call[c].entry # NoEntry
  /\ person \in Person
  /\ issuer \in [minted : Tokens, takes : SUBSET (1..MaxMinted)]
  /\ faults \in 0..MaxFaults
  /\ other \in [loaded : Cached, crossed : BOOLEAN]

(* What the person decided about a provider stands: no late answer to a    *)
(* refresh puts back a credential that was signed out of or replaces one   *)
(* that was signed in to, and a credential is removed only when its        *)
(* refresh token is of no use any more.  Another process may sign in or    *)
(* out too, but not inside a read-change-write of this one's or the other  *)
(* way round: "bingo is one process per user, so an in-process lock is the *)
(* only lock" (store.rs).                                                  *)
DecisionStands ==
  kind = "provider" /\ ~other.crossed =>
    /\ file # NoEntry => file.line = decided
    /\ file = NoEntry /\ decided # 0 => ~last.key /\ last.refresh \notin issuer.takes

(* "a refresh happens once however many callers ask at once": a caller     *)
(* that waited while another one renewed sends nothing.  An MCP server's   *)
(* callers compare the bearer in the file, which another process that      *)
(* crosses a renewal puts back.                                            *)
RenewedOnce ==
  kind = "provider" \/ ~other.crossed =>
    \A c \in Callers : call[c].at = "sent" => ~call[c].since

(* "the registration and the tokens are one fact about one server": the    *)
(* stored tokens were minted for the stored client.                        *)
OneFact == file.client = file.mintedFor
=============================================================================
