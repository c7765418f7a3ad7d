------------------------------ MODULE Schedule ------------------------------
(***************************************************************************)
(* Schedules: entries kept as files in one store, the bingo processes that *)
(* share it, the OS claim that makes one of them the runner, the fires the *)
(* runner and the person start, and the edits that touch the same files.   *)
(* A process may crash at any step; the OS then releases what it held.     *)
(***************************************************************************)
EXTENDS Naturals

CONSTANTS Procs,      \* the lives of processes that share the store
          Ids,        \* the entries' ids, which name their files and their sessions
          Specs,      \* the forms a spec takes here: "every", "daily", "once"
          Period,     \* of an `every`, and the length of a day
          OnceTime,   \* the moment of a `once at`
          Nobody,
          MaxTick,    \* bound on the moments the clock passes by itself
          MaxTime,    \* bound on the clock; every spend takes a moment too
          MaxFaults,  \* bound on opens and reads that fail, saves the disk refuses, panics
          MaxAsks     \* bound on what the person asks

ASSUME ScheduleAssumption ==
    /\ Nobody \notin Procs /\ Ids # {}
    /\ Specs # {} /\ Specs \subseteq {"every", "daily", "once"}
    /\ Period \in Nat \ {0} /\ OnceTime \in Nat
    /\ MaxTick \in Nat /\ MaxTime \in Nat /\ MaxFaults \in Nat /\ MaxAsks \in Nat
    /\ Period <= MaxTime /\ MaxTick <= MaxTime

Times == 0..MaxTime
Who == {"timer", "person"}

VARIABLES
    now,     \* the clock; 0 stands for "never fired"
    disk,    \* <data_dir>/schedules/<id>.json: an Entry, Unborn or Gone
    inode,   \* the inode published as runner.lock; 0 before the first
    locked,  \* the process that holds each inode's OS lock
    proc,    \* each process: where its supervisor is and what its loop remembers
    fire,    \* the fires in flight, of the loop and of the person
    edit,    \* the person's read-change-write in flight
    session, \* the process in which the session schedule/<id> is open
    said,    \* what the runners said of each entry, and when
    lost,    \* entries whose stamp neither the disk nor a runner has any more
    faults, asks

store == <<now, disk>>
claim == <<inode, locked>>
record == <<said, lost>>
budget == <<faults, asks>>
vars == <<now, disk, inode, locked, proc, fire, edit, session, said, lost, faults, asks>>

Unborn == [spec |-> CHOOSE spec \in Specs : TRUE, enabled |-> FALSE, created |-> 0, last |-> 0, file |-> FALSE]
Gone == [Unborn EXCEPT !.created = MaxTime]
Written(spec, at) == [spec |-> spec, enabled |-> TRUE, created |-> at, last |-> 0, file |-> TRUE]

Idle == [at |-> "idle", anchor |-> 0, entry |-> Unborn, stamp |-> 0, end |-> "none"]
Fresh == [at |-> "down", fd |-> 0, cancel |-> FALSE, retry |-> {},
          spent |-> [id \in Ids |-> 0]]
NoEdit == [by |-> Nobody, id |-> CHOOSE id \in Ids : TRUE, entry |-> Unborn]

-----------------------------------------------------------------------------
(* The entry's clock, and what a pass of the loop makes of it. *)

Never == MaxTime + Period + OnceTime + 1
Anchor(e) == IF e.last = 0 THEN e.created ELSE e.last

(* the first fire of a spec after a moment: a day begins at each multiple *)
SpecNext(spec, after) ==
    CASE spec = "every" -> after + Period
      [] spec = "daily" -> ((after \div Period) + 1) * Period
      [] spec = "once" -> IF OnceTime > after THEN OnceTime ELSE Never

NextFire(e) == IF e.file /\ e.enabled THEN SpecNext(e.spec, Anchor(e)) ELSE Never

FiredAt(e, at) == [e EXCEPT !.last = at, !.enabled = e.spec # "once"]

(* flights.spent, less what the disk has caught up with or forgotten *)
Retained(p, id) ==
    IF disk[id].file /\ disk[id].last < proc[p].spent[id] THEN proc[p].spent[id] ELSE 0

RememberedMutant(p, id) == disk[id]

(* the entry as process p knows it: the disk, unless p spent a later fire *)
Remembered(p, id) ==
    IF Retained(p, id) = 0 THEN disk[id]
    ELSE [disk[id] EXCEPT !.last = Retained(p, id), !.enabled = @ /\ disk[id].spec # "once"]

DueFor(p, id) == NextFire(Remembered(p, id)) <= now
Busy(p, id) == fire[p]["timer"][id].at # "idle" \/ id \in proc[p].retry

Alive(p) == proc[p].at # "down"
Flying(p) == {id \in Ids : fire[p]["timer"][id].at # "idle"}

(* the stamp of p's timer fire of id that is spent and not yet landed, or 0 *)
InFlight(p, id) ==
    IF fire[p]["timer"][id].at \in {"spent", "done"} THEN fire[p]["timer"][id].stamp ELSE 0

(* the stamps only process p still has *)
Unwritten(p) ==
    {id \in Ids : proc[p].spent[id] > disk[id].last \/ InFlight(p, id) > disk[id].last}

-----------------------------------------------------------------------------
Init ==
    /\ now = Period
    /\ disk \in [Ids -> {Unborn} \cup {Written(spec, 0) : spec \in Specs}]
    /\ inode = 0
    /\ locked = [i \in 1..2 |-> Nobody]
    /\ proc = [p \in Procs |-> Fresh]
    /\ fire = [p \in Procs |-> [w \in Who |-> [id \in Ids |-> Idle]]]
    /\ edit = NoEdit
    /\ session = [id \in Ids |-> Nobody]
    /\ said = [id \in Ids |-> {}] /\ lost = {}
    /\ faults = 0 /\ asks = 0

Tick ==
    /\ now < MaxTick
    /\ now' = now + 1
    /\ UNCHANGED <<disk, claim, proc, fire, edit, session, record, budget>>

-----------------------------------------------------------------------------
(* The claim: a permanent inode, published once, locked by the OS. *)

At(p, place) == proc' = [proc EXCEPT ![p].at = place]

(* Schedules::start; a life of a process, never started twice *)
Start(p) ==
    /\ proc[p].at = "down" /\ ~proc[p].cancel
    /\ At(p, "opening")
    /\ UNCHANGED <<store, claim, fire, edit, session, record, budget>>

OpenClaim(p) ==
    /\ proc[p].at = "opening"
    /\ IF inode = 0 THEN At(p, "staging")
       ELSE proc' = [proc EXCEPT ![p].at = "locking", ![p].fd = inode]
    /\ UNCHANGED <<store, claim, fire, edit, session, record, budget>>

PublishMutant(p) ==
    /\ proc[p].at = "staging"
    /\ inode' = inode + 1
    /\ At(p, "opening")
    /\ UNCHANGED <<store, locked, fire, edit, session, record, budget>>

(* the hard link fails where a file is already published, which is fine *)
Publish(p) ==
    /\ proc[p].at = "staging"
    /\ inode' = IF inode = 0 THEN 1 ELSE inode
    /\ At(p, "opening")
    /\ UNCHANGED <<store, locked, fire, edit, session, record, budget>>

(* a process that finds the lock held stands by and tries again *)
TryLock(p) ==
    /\ proc[p].at = "locking"
    /\ IF locked[proc[p].fd] = Nobody
       THEN locked' = [locked EXCEPT ![proc[p].fd] = p] /\ At(p, "running")
       ELSE UNCHANGED locked /\ proc' = [proc EXCEPT ![p].at = "opening", ![p].fd = 0]
    /\ UNCHANGED <<store, inode, fire, edit, session, record, budget>>

(* Schedules::stop asks; Leave is the joined loop giving its claim back,   *)
(* while the process, its sessions and the person's fires go on            *)
Stop(p) ==
    /\ Alive(p) /\ ~proc[p].cancel
    /\ proc' = [proc EXCEPT ![p].cancel = TRUE]
    /\ UNCHANGED <<store, claim, fire, edit, session, record, budget>>

EndsMutant(p) ==
    /\ proc' = [proc EXCEPT ![p] = [Fresh EXCEPT !.cancel = TRUE]]
    /\ fire' = [fire EXCEPT ![p] = [w \in Who |-> [id \in Ids |-> Idle]]]
    /\ edit' = IF edit.by = p THEN NoEdit ELSE edit
    /\ session' = [id \in Ids |-> IF session[id] = p THEN Nobody ELSE session[id]]
    /\ lost' = lost \cup Unwritten(p)
    /\ UNCHANGED <<store, claim, said, budget>>

Unlock(p) == locked' = [i \in DOMAIN locked |-> IF locked[i] = p THEN Nobody ELSE locked[i]]

(* the process ends: the OS closes what it held, its memory is gone *)
Ends(p) ==
    /\ proc' = [proc EXCEPT ![p] = [Fresh EXCEPT !.cancel = TRUE]]
    /\ Unlock(p)
    /\ fire' = [fire EXCEPT ![p] = [w \in Who |-> [id \in Ids |-> Idle]]]
    /\ edit' = IF edit.by = p THEN NoEdit ELSE edit
    /\ session' = [id \in Ids |-> IF session[id] = p THEN Nobody ELSE session[id]]
    /\ lost' = lost \cup Unwritten(p)
    /\ UNCHANGED <<store, inode, said, budget>>

Leave(p) ==
    /\ proc[p].at \in {"opening", "running"} /\ proc[p].cancel
    /\ Flying(p) = {}
    /\ proc' = [proc EXCEPT ![p] = [Fresh EXCEPT !.at = "left", !.cancel = TRUE]]
    /\ Unlock(p)
    /\ lost' = lost \cup Unwritten(p)
    /\ UNCHANGED <<store, inode, fire, edit, session, said, budget>>

Crash(p) == Alive(p) /\ Ends(p)

-----------------------------------------------------------------------------
(* The loop. *)

Fault == faults < MaxFaults /\ faults' = faults + 1

(* One fire for every entry that is due and neither flying nor waiting.  An *)
(* entry whose file the pass could not read is none: it does not fire, and *)
(* what this process spent of it is forgotten.                             *)
Pass(p, unread) ==
    LET due == {id \in Ids \ unread : DueFor(p, id) /\ ~Busy(p, id)}
        kept == [id \in Ids |-> IF id \in unread THEN 0 ELSE Retained(p, id)]
    IN /\ proc[p].at = "running" /\ ~proc[p].cancel
       /\ due # {} \/ kept # proc[p].spent
       /\ proc' = [proc EXCEPT ![p].spent = kept]
       /\ fire' = [fire EXCEPT ![p]["timer"] = [id \in Ids |->
                     IF id \in due
                     THEN [Idle EXCEPT !.at = "opening", !.anchor = Remembered(p, id).last]
                     ELSE @[id]]]
       /\ lost' = lost \cup {id \in unread : /\ proc[p].spent[id] > disk[id].last
                                             /\ proc[p].spent[id] > InFlight(p, id)}
       /\ UNCHANGED <<store, claim, edit, session, said, asks>>

Launch(p) == Pass(p, {}) /\ UNCHANGED faults

(* a directory that cannot be listed, or a file that cannot be read or decoded *)
Misread(p) ==
    /\ Fault
    /\ \E unread \in SUBSET {id \in Ids : disk[id].file} : unread # {} /\ Pass(p, unread)

(* a rescan has passed since the failure of this entry *)
Rescan(p, id) ==
    /\ id \in proc[p].retry
    /\ proc' = [proc EXCEPT ![p].retry = @ \ {id}]
    /\ UNCHANGED <<store, claim, fire, edit, session, record, budget>>

Now(p, w, id, place) == fire[p][w][id].at = place
Becomes(p, w, id, f) == fire' = [fire EXCEPT ![p][w][id] = f]

(* the loop joins its own fires; the person's answers them where they asked *)
Done(p, w, id, end) ==
    Becomes(p, w, id, IF w = "person" THEN Idle
                      ELSE [fire[p][w][id] EXCEPT !.at = "done", !.end = end,
                                                  !.anchor = 0, !.entry = Unborn])

(* landed, or the join of a loop that was asked to stop *)
Landed(p, id) ==
    LET f == fire[p]["timer"][id]
    IN /\ f.at = "done"
       /\ proc' = IF proc[p].cancel THEN proc
                  ELSE IF f.end = "spent" THEN [proc EXCEPT ![p].spent[id] = f.stamp]
                  ELSE IF f.end \in {"unopened", "panicked"} THEN [proc EXCEPT ![p].retry = @ \cup {id}]
                  ELSE proc
       /\ lost' = IF f.stamp > disk[id].last /\ (proc[p].cancel \/ f.end = "panicked")
                  THEN lost \cup {id} ELSE lost
       /\ Becomes(p, "timer", id, Idle)
       /\ UNCHANGED <<store, claim, edit, session, said, budget>>

-----------------------------------------------------------------------------
(* One fire, of the loop or of the person. *)

(* Dispatch::opened, for a session no other process has *)
Open(p, w, id) ==
    /\ Now(p, w, id, "opening")
    /\ session[id] \in {Nobody, p}
    /\ session' = [session EXCEPT ![id] = p]
    /\ IF proc[p].cancel THEN Done(p, w, id, "unopened")
       ELSE Becomes(p, w, id, [fire[p][w][id] EXCEPT !.at = "open"])
    /\ UNCHANGED <<store, claim, proc, edit, record, budget>>

(* the journal is another process's *)
OpenRefused(p, w, id) ==
    /\ Now(p, w, id, "opening")
    /\ session[id] \notin {Nobody, p}
    /\ Done(p, w, id, "unopened")
    /\ UNCHANGED <<store, claim, proc, edit, session, record, budget>>

(* an open that fails, or takes more than BOUND *)
OpenFails(p, w, id) ==
    /\ Now(p, w, id, "opening")
    /\ Fault
    /\ Done(p, w, id, "unopened")
    /\ UNCHANGED <<store, claim, proc, edit, session, record, asks>>

RereadMutant(p, w, id) ==
    LET f == fire[p][w][id]
        current == disk[id]
        stands == current.file /\ current.last <= f.anchor
    IN /\ f.at = "open"
       /\ now' = IF stands /\ now < MaxTime THEN now + 1 ELSE now
       /\ IF stands
          THEN Becomes(p, w, id, [f EXCEPT !.at = "read", !.anchor = 0, !.entry = current, !.stamp = now])
          ELSE Done(p, w, id, "skipped")
       /\ UNCHANGED <<disk, claim, proc, edit, session, record, budget>>

(* spend rereads the entry ... *)
Reread(p, w, id) ==
    LET f == fire[p][w][id]
        current == disk[id]
        stands == current.file /\ current.enabled /\ current.last <= f.anchor
    IN /\ f.at = "open"
       /\ now' = IF stands /\ now < MaxTime THEN now + 1 ELSE now
       /\ IF stands
          THEN Becomes(p, w, id, [f EXCEPT !.at = "read", !.anchor = 0, !.entry = current, !.stamp = now])
          ELSE Done(p, w, id, "skipped")
       /\ UNCHANGED <<disk, claim, proc, edit, session, record, budget>>

(* ... unless the file cannot be read, which looks like one that is gone ... *)
RereadFails(p, w, id) ==
    /\ Now(p, w, id, "open")
    /\ Fault
    /\ Done(p, w, id, "skipped")
    /\ UNCHANGED <<store, claim, proc, edit, session, record, asks>>

(* nobody remembers the stamp an older copy of the entry writes over, nor  *)
(* what was fired of an entry that was forgotten and is written again      *)
Overwrites(id, last) ==
    \/ ~disk[id].file
    \/ /\ last < disk[id].last
       /\ \A p \in Procs : proc[p].spent[id] < disk[id].last /\ InFlight(p, id) < disk[id].last

(* ... and stamps it; a stamp the disk refuses is spent all the same *)
Stamp(p, w, id) ==
    LET f == fire[p][w][id]
    IN /\ f.at = "read"
       /\ \/ /\ disk' = [disk EXCEPT ![id] = FiredAt(f.entry, f.stamp)]
             /\ lost' = IF Overwrites(id, f.stamp) THEN lost \cup {id} ELSE lost
             /\ UNCHANGED faults
          \/ Fault /\ UNCHANGED <<disk, lost>>
       /\ Becomes(p, w, id, [f EXCEPT !.at = "spent"])
       /\ UNCHANGED <<now, claim, proc, edit, session, said, asks>>

(* the mode and the text are submitted; whatever the answer, the fire is over *)
Say(p, w, id) ==
    LET f == fire[p][w][id]
    IN /\ f.at = "spent"
       /\ said' = IF w = "timer" THEN [said EXCEPT ![id] = @ \cup {[spec |-> f.entry.spec, at |-> f.stamp]}]
                  ELSE said
       /\ Done(p, w, id, "spent")
       /\ UNCHANGED <<store, claim, proc, edit, session, lost, budget>>

(* a fire of the loop panics, before its line is submitted or while it waits *)
Panics(p, id) ==
    LET f == fire[p]["timer"][id]
    IN /\ f.at \in {"opening", "open", "read", "spent"} \/ f.end = "spent"
       /\ Fault
       /\ Becomes(p, "timer", id, [f EXCEPT !.at = "done", !.end = "panicked",
                                    !.anchor = 0, !.entry = Unborn,
                                    !.stamp = IF f.at \in {"spent", "done"} THEN @ ELSE 0])
       /\ UNCHANGED <<store, claim, proc, edit, session, record, asks>>

-----------------------------------------------------------------------------
(* The person, in any process that is up. *)

Asks == asks < MaxAsks /\ asks' = asks + 1

Add(p, id, spec) ==
    /\ Alive(p) /\ Asks
    /\ disk[id] = Unborn
    /\ disk' = [disk EXCEPT ![id] = Written(spec, now)]
    /\ UNCHANGED <<now, claim, proc, fire, edit, session, record, faults>>

Forget(p, id) ==
    /\ Alive(p) /\ Asks
    /\ disk[id].file
    /\ disk' = [disk EXCEPT ![id] = Gone]
    /\ UNCHANGED <<now, claim, proc, fire, edit, session, record, faults>>

(* pause, resume and confirm read the whole entry ... *)
EditRead(p, id, enabled) ==
    /\ Alive(p) /\ Asks
    /\ edit = NoEdit /\ disk[id].file
    /\ edit' = [by |-> p, id |-> id, entry |-> [disk[id] EXCEPT !.enabled = enabled]]
    /\ UNCHANGED <<store, claim, proc, fire, session, record, faults>>

(* ... and write the whole entry, unless the disk refuses *)
EditWrite ==
    /\ edit # NoEdit
    /\ \/ /\ disk' = [disk EXCEPT ![edit.id] = edit.entry]
          /\ lost' = IF Overwrites(edit.id, edit.entry.last) THEN lost \cup {edit.id} ELSE lost
          /\ UNCHANGED faults
       \/ Fault /\ UNCHANGED <<disk, lost>>
    /\ edit' = NoEdit
    /\ UNCHANGED <<now, claim, proc, fire, session, said, asks>>

RunNow(p, id) ==
    /\ Alive(p) /\ Asks
    /\ disk[id].file /\ disk[id].enabled
    /\ Now(p, "person", id, "idle")
    /\ Becomes(p, "person", id, [Idle EXCEPT !.at = "opening", !.anchor = disk[id].last])
    /\ UNCHANGED <<store, claim, proc, edit, session, record, faults>>

(* the session is closed in the process that had it *)
CloseSession(p, id) ==
    /\ session[id] = p
    /\ \A w \in Who : fire[p][w][id].at \in {"idle", "opening", "done"}
    /\ session' = [session EXCEPT ![id] = Nobody]
    /\ UNCHANGED <<store, claim, proc, fire, edit, record, budget>>

-----------------------------------------------------------------------------
Firing(p, w, id) ==
    \/ Open(p, w, id) \/ OpenRefused(p, w, id) \/ Reread(p, w, id)
    \/ Stamp(p, w, id) \/ Say(p, w, id)

Supervising(p) ==
    \/ OpenClaim(p) \/ Publish(p) \/ TryLock(p) \/ Leave(p)

Next ==
    \/ Tick
    \/ EditWrite
    \/ \E p \in Procs :
        \/ Start(p) \/ Stop(p) \/ Crash(p) \/ Supervising(p) \/ Launch(p) \/ Misread(p)
        \/ \E id \in Ids :
            \/ Rescan(p, id) \/ Landed(p, id) \/ Panics(p, id) \/ CloseSession(p, id)
            \/ Forget(p, id) \/ RunNow(p, id)
            \/ \E spec \in Specs : Add(p, id, spec)
            \/ \E enabled \in BOOLEAN : EditRead(p, id, enabled)
            \/ \E w \in Who : Firing(p, w, id) \/ OpenFails(p, w, id) \/ RereadFails(p, w, id)

Spec == Init /\ [][Next]_vars

(* The supervisor's, the loop's and its fires' tasks run when they can, and *)
(* timers go off; the clock the entries read, the person, crashes, starts  *)
(* and stops owe nothing.                                                  *)
Advances(p, id) == Firing(p, "timer", id) \/ Landed(p, id) \/ Rescan(p, id)

Fairness ==
    \A p \in Procs :
        /\ WF_vars(Supervising(p)) /\ WF_vars(Launch(p))
        /\ \A id \in Ids : WF_vars(Advances(p, id))

FairSpec == Spec /\ Fairness

-----------------------------------------------------------------------------
Entry == [spec : Specs, enabled : BOOLEAN, created : Times, last : Times, file : BOOLEAN]

Proc == [at : {"down", "opening", "staging", "locking", "running", "left"},
         fd : 0..2, cancel : BOOLEAN, retry : SUBSET Ids, spent : [Ids -> Times]]

Fire == [at : {"idle", "opening", "open", "read", "spent", "done"},
         anchor : Times, entry : Entry, stamp : Times,
         end : {"none", "unopened", "skipped", "spent", "panicked"}]

(* The state has its type; a fire that stands between its reread and its   *)
(* submission works on an entry it read from a file and that was enabled.  *)
TypeOK ==
    /\ now \in Times
    /\ disk \in [Ids -> Entry]
    /\ inode \in 0..2
    /\ locked \in [1..2 -> Procs \cup {Nobody}]
    /\ session \in [Ids -> Procs \cup {Nobody}]
    /\ said \in [Ids -> SUBSET [spec : Specs, at : Times]] /\ lost \subseteq Ids
    /\ faults \in 0..MaxFaults /\ asks \in 0..MaxAsks
    /\ edit \in [by : Procs \cup {Nobody}, id : Ids, entry : Entry]
    /\ proc \in [Procs -> Proc]
    /\ fire \in [Procs -> [Who -> [Ids -> Fire]]]
    /\ \A p \in Procs, w \in Who, id \in Ids :
        fire[p][w][id].at \in {"read", "spent"} =>
            fire[p][w][id].entry.file /\ fire[p][w][id].entry.enabled

(* One runner per store: never two processes whose loop runs or whose      *)
(* timer fires are in flight, through crashes, stops that wait for a fire, *)
(* and two processes publishing the very first lock file at once.          *)
Runs(p) == proc[p].at = "running" \/ Flying(p) # {}

OneRunner == \A p, q \in Procs : Runs(p) /\ Runs(q) => p = q

(* The runners say an occurrence once: between two things they say of one  *)
(* entry its spec had a fire to give, so a `once` is said once, over       *)
(* restarts, refused stamps, panics, and the person's own runs and edits;  *)
(* except where the only record of a fire was the memory of a process or a *)
(* task that is gone, or of a runner whose pass could not read the entry,  *)
(* or an older copy of the entry was written over it, or after it had been *)
(* forgotten.                                                              *)
SaidOnce ==
    \A id \in Ids \ lost : \A s, t \in said[id] :
        s.at < t.at => SpecNext(s.spec, s.at) <= t.at

(* What is due is fired: while a process stays up and is not asked to      *)
(* stop, an entry that is due does not stay due for ever - a standby takes *)
(* over from a runner that died, a session that did not open is tried      *)
(* again - unless another process has the entry's session open.            *)
Owed(id) == NextFire(disk[id]) <= now /\ \A p \in Procs : DueFor(p, id)

Held(id) == \E p \in Procs : session[id] = p /\ proc[p].at # "running"

Fires ==
    \A id \in Ids :
        Owed(id) ~> (~Owed(id) \/ Held(id) \/ \A p \in Procs : ~Alive(p) \/ proc[p].cancel)
=============================================================================
