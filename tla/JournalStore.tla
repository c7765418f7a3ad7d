----------------------------- MODULE JournalStore -----------------------------
(***************************************************************************)
(* One session's directory in the store on disk (bingo-store-jsonl): the   *)
(* journal, its version lines and the checkpoint beside it, written by     *)
(* processes that own the session one after the other, may die in the      *)
(* middle of a line, and may look into a directory they do not own.        *)
(*                                                                         *)
(* A process runs the store's operations one at a time, under the mutex of *)
(* its Writer; operations of different processes interleave, and only the  *)
(* lock file keeps them apart.  An operation is one action but for writing *)
(* a checkpoint, which others can fall between: reading what it covers,    *)
(* writing the temporary file, renaming it.                                *)
(*                                                                         *)
(* A journal is its lines after the header.  What a line says is left out; *)
(* a frame has its sequence number, an identity, and the format it is      *)
(* written in.                                                             *)
(***************************************************************************)
EXTENDS Naturals, Sequences, SequencesExt

CONSTANTS
  Procs,      \* the processes
  Nobody,     \* no process
  MaxFrames,  \* bound: frames written
  MaxLines    \* bound: lines a version line cut short may add to

ASSUME StoreAssumption ==
  Nobody \notin Procs /\ MaxFrames \in Nat \ {0} /\ MaxLines \in Nat

VARIABLES
  disk,       \* the journal file
  old,        \* its header was written by a build with an older format
  checkpoint, \* checkpoint.json
  tmp,        \* checkpoint.json.tmp
  owner,      \* who holds the lock
  proc,       \* what each process knows
  written,    \* frames written so far, of whatever fate
  acked,      \* the identities of frames whose append returned
  collected   \* the directory has been removed

vars == <<disk, old, checkpoint, tmp, owner, proc, written, acked, collected>>

Frame == [seq : Nat, id : Nat, new : BOOLEAN]

Line == [kind : {"frame", "version", "junk"}, frame : Frame]

NoFrame == [seq |-> 0, id |-> 0, new |-> FALSE]

FrameLine(f) == [kind |-> "frame", frame |-> f]
VersionLine == [kind |-> "version", frame |-> NoFrame]
Junk == [kind |-> "junk", frame |-> NoFrame]

\* open: the last line has no newline yet.
Disk == [lines : Seq(Line), open : BOOLEAN]

\* What a checkpoint covers: the frames folded into its state.
Snapshot == [state : Seq(Frame)]

NoSnapshot == [state |-> <<>>]

\* at: the number of lines its offset is past; line: what its hash is of.
Checkpoint == [at : Nat, line : Frame, state : Seq(Frame)]

NoCheckpoint == [at |-> 0, line |-> NoFrame, state |-> <<>>]

\* phase: "out", "owner" (the lock is taken), "live" (an actor runs),
\* "closed" (it has ended, the lock stays with the process).  jobs: the
\* checkpoints the actor has spawned.  writing: the one whose file is being
\* written, at the stage it is at.
Proc ==
  [ phase    : {"out", "owner", "live", "closed"},
    prepared : BOOLEAN,
    state    : Seq(Frame),
    jobs     : SUBSET Snapshot,
    stage    : {"idle", "repair", "rename", "collect"},
    writing  : Snapshot ]

NotRunning ==
  [ phase |-> "out", prepared |-> FALSE, state |-> <<>>, jobs |-> {},
    stage |-> "idle", writing |-> NoSnapshot ]

\* A session with its head frame, of this build or of an older one, which
\* may have died writing a line.
Init ==
  /\ old \in BOOLEAN
  /\ \E torn \in BOOLEAN :
       LET head == FrameLine([seq |-> 1, id |-> 1, new |-> ~old])
       IN  disk = [lines |-> IF torn THEN <<head, Junk>> ELSE <<head>>, open |-> torn]
  /\ checkpoint = NoCheckpoint /\ tmp = NoCheckpoint
  /\ owner = Nobody
  /\ proc = [p \in Procs |-> NotRunning]
  /\ written = 1
  /\ acked = {1}
  /\ collected = FALSE

-----------------------------------------------------------------------------
(* journal.rs: writing and reading lines.                                  *)

\* A line continues what a crash left without a newline.
WriteLine(d, line) ==
  [ lines |-> IF d.open THEN ReplaceAt(d.lines, Len(d.lines), Junk)
              ELSE Append(d.lines, line),
    open |-> FALSE ]

\* What a write that does not come to its end leaves: nothing, a part of
\* the line, all but the newline, or all of it.
CutShort(d, line) ==
  { d, WriteLine(d, line), [WriteLine(d, line) EXCEPT !.open = TRUE],
    [WriteLine(d, Junk) EXCEPT !.open = TRUE] }

IsVersion(line) == line.kind = "version"

\* prepare: an older journal is given a version line, once.
NeedsVersion(d) == old /\ \A k \in DOMAIN d.lines : ~IsVersion(d.lines[k])

\* Mutant: the version line is left out.
PrepareMutant(d) == d

Prepare(d) == IF NeedsVersion(d) THEN WriteLine(d, VersionLine) ELSE d

\* The frames among the first k lines, in their order, for each k.
FramesTo(lines) ==
  LET To[k \in 0..Len(lines)] ==
        IF k = 0 THEN <<>>
        ELSE IF lines[k].kind = "frame" THEN Append(To[k - 1], lines[k].frame)
        ELSE To[k - 1]
  IN  To

Framed(lines) == FramesTo(lines)[Len(lines)]

\* The frame at k, after the lines before it, is read in the new format.
ReadAsNew(lines, k) == ~old \/ \E j \in 1..(k - 1) : IsVersion(lines[j])

\* Mutant: an unreadable line is an error wherever it is.
FramesMutant(lines) ==
  IF \E k \in DOMAIN lines : lines[k] = Junk
  THEN [ok |-> FALSE, frames |-> <<>>]
  ELSE [ok |-> TRUE, frames |-> Framed(lines)]

\* frames: an unreadable last line is dropped, any other is an error.
Frames(lines) ==
  IF \E k \in DOMAIN lines : k < Len(lines) /\ lines[k] = Junk
  THEN [ok |-> FALSE, frames |-> <<>>]
  ELSE [ok |-> TRUE, frames |-> Framed(lines)]

Replay(d) == Frames(d.lines)

TailLines(d, at) == SubSeq(d.lines, at + 1, Len(d.lines))

\* Mutant: the tail starts a line late.
TailMutant(d, at) == Frames(TailLines(d, at + 1))

\* tail: the lines after the checkpoint's, read from the header's version on.
TailOf(d, at) == Frames(TailLines(d, at))

LastSeq(state) == IF state = <<>> THEN 0 ELSE Last(state).seq

-----------------------------------------------------------------------------
(* checkpoint.rs and checkpoint/witness.rs.                                *)

\* The number of lines that end in a newline.
Terminated(d) == IF d.open THEN Len(d.lines) - 1 ELSE Len(d.lines)

\* read: the line before the offset is the one the checkpoint was taken at.
Checks(d, c) ==
  /\ c # NoCheckpoint
  /\ c.at \in 1..Terminated(d)
  /\ d.lines[c.at] = FrameLine(c.line)
  /\ c.line.seq = LastSeq(c.state)

\* locate: the last complete line that is the frame with this number.
Locate(d, seq) ==
  { k \in 1..Terminated(d) :
      /\ d.lines[k].kind = "frame" /\ d.lines[k].frame.seq = seq
      /\ \A j \in (k + 1)..Terminated(d) :
           d.lines[j].kind = "frame" => d.lines[j].frame.seq > seq }

\* resume: the checkpoint and the lines after it, or the whole journal.
Resumed ==
  LET rest == TailOf(disk, checkpoint.at)
  IN  IF Checks(disk, checkpoint) /\ rest.ok
      THEN [ok |-> TRUE, frames |-> checkpoint.state \o rest.frames]
      ELSE Replay(disk)

FromCheckpoint == Checks(disk, checkpoint) /\ TailOf(disk, checkpoint.at).ok

\* write, up to the rename.  It stops at a checkpoint that is newer, at a
\* frame that is not in the journal, and at an error of the file system.
WriteTmp(p, base, d, snapshot) ==
  LET seq == LastSeq(snapshot.state)
  IN  \/ /\ proc' = [base EXCEPT ![p].stage = "idle", ![p].writing = NoSnapshot]
         /\ tmp' = tmp
      \/ /\ ~(Checks(d, checkpoint) /\ checkpoint.line.seq > seq)
         /\ proc' = [base EXCEPT ![p].stage = "rename", ![p].writing = NoSnapshot]
         /\ \E k \in Locate(d, seq) :
              tmp' = [at |-> k, line |-> d.lines[k].frame, state |-> snapshot.state]

-----------------------------------------------------------------------------
(* The store's operations and the actor's use of them.                     *)

\* Every operation needs the directory: existing, or the open of the journal.
Present == ~collected /\ UNCHANGED collected

\* The process' Writer is free.
Idle(p) == proc[p].stage = "idle"

\* Mutant: the lock is taken from whoever holds it.
AcquireMutant(p) ==
  /\ Present
  /\ proc[p].phase = "out" /\ Idle(p)
  /\ owner' = p
  /\ proc' = [proc EXCEPT ![p].phase = "owner"]
  /\ UNCHANGED <<disk, old, checkpoint, tmp, written, acked>>

Acquire(p) ==
  /\ Present
  /\ proc[p].phase = "out" /\ Idle(p)
  /\ owner = Nobody
  /\ owner' = p
  /\ proc' = [proc EXCEPT ![p].phase = "owner"]
  /\ UNCHANGED <<disk, old, checkpoint, tmp, written, acked>>

\* The journal is folded and an actor started on it.  Without a checkpoint
\* the store repairs it, and so does the actor when it starts.
Resume(p) ==
  LET frames == Resumed.frames
      all == [state |-> frames]
  IN  /\ Present
      /\ proc[p].phase = "owner" /\ Idle(p)
      /\ Resumed.ok /\ frames # <<>>
      /\ proc' = [proc EXCEPT ![p] =
           IF FromCheckpoint
           THEN [@ EXCEPT !.phase = "live", !.state = frames, !.prepared = TRUE]
           ELSE [@ EXCEPT !.phase = "live", !.state = frames,
                          !.jobs = {all}, !.stage = "repair", !.writing = all]]
      /\ UNCHANGED <<disk, old, checkpoint, tmp, owner, written, acked>>

\* What cannot be brought back, for its journal or for another reason, is
\* given back.
ResumeFailed(p) ==
  /\ Present
  /\ proc[p].phase = "owner" /\ Idle(p)
  /\ proc' = [proc EXCEPT ![p].phase = "out", ![p].prepared = FALSE]
  /\ owner' = Nobody
  /\ UNCHANGED <<disk, old, checkpoint, tmp, written, acked>>

\* A stored child is asked what it was doing, whoever owns it.
Probe(p) ==
  /\ Present
  /\ Idle(p)
  /\ Resumed.ok
  /\ proc' = IF FromCheckpoint THEN [proc EXCEPT ![p].prepared = TRUE]
             ELSE [proc EXCEPT ![p].stage = IF Resumed.frames = <<>> THEN "idle" ELSE "repair",
                               ![p].writing = [state |-> Resumed.frames]]
  /\ UNCHANGED <<disk, old, checkpoint, tmp, owner, written, acked>>

NewFrame(state) == [seq |-> LastSeq(state) + 1, id |-> written + 1, new |-> TRUE]

\* The journal as the process' Writer has it ready to be appended to.
Prepared(p) == IF proc[p].prepared THEN disk ELSE Prepare(disk)

\* The actor appends a frame.  A compaction, and a clean close, then have a
\* checkpoint written.
AppendFrame(p, phase, snap) ==
  LET f == NewFrame(proc[p].state)
      state == Append(proc[p].state, f)
  IN  /\ Present
      /\ proc[p].phase = "live" /\ Idle(p)
      /\ written < MaxFrames
      /\ disk' = WriteLine(Prepared(p), FrameLine(f))
      /\ proc' = [proc EXCEPT ![p].phase = phase, ![p].prepared = TRUE,
                    ![p].state = state,
                    ![p].jobs = IF snap THEN @ \cup {[state |-> state]} ELSE @]
      /\ written' = written + 1
      /\ acked' = acked \cup {f.id}
      /\ UNCHANGED <<old, checkpoint, tmp, owner>>

\* A stored session is given a title, by a process that takes the lock for
\* as long as that needs.
Rename(p) ==
  LET frames == Replay(disk).frames
      f == NewFrame(frames)
  IN  /\ Present
      /\ proc[p].phase = "out" /\ Idle(p)
      /\ owner = Nobody
      /\ written < MaxFrames
      /\ Replay(disk).ok /\ frames # <<>>
      /\ disk' = WriteLine(Prepared(p), FrameLine(f))
      /\ proc' = [proc EXCEPT ![p].prepared = FALSE]
      /\ written' = written + 1
      /\ acked' = acked \cup {f.id}
      /\ UNCHANGED <<old, checkpoint, tmp, owner>>

\* store.checkpoint, for a job of the actor.
WriteCheckpoint(p, job) ==
  /\ Present
  /\ Idle(p)
  /\ job \in proc[p].jobs
  /\ disk' = Prepared(p)
  /\ WriteTmp(p, [proc EXCEPT ![p].jobs = @ \ {job}, ![p].prepared = TRUE], disk', job)
  /\ UNCHANGED <<old, checkpoint, owner, written, acked>>

\* repair, of what was just replayed; the Writer is not told.
Repair(p) ==
  /\ Present
  /\ proc[p].stage = "repair"
  /\ disk' = Prepare(disk)
  /\ WriteTmp(p, proc, disk', proc[p].writing)
  /\ UNCHANGED <<old, checkpoint, owner, written, acked>>

\* The rename.  All processes use one temporary file: another one may have
\* renamed it, and one it is still writing is no checkpoint anybody accepts.
InstallCheckpoint(p) ==
  /\ Present
  /\ proc[p].stage = "rename"
  /\ \/ tmp = NoCheckpoint /\ checkpoint' = checkpoint
     \/ tmp # NoCheckpoint /\ checkpoint' = tmp
     \/ /\ \E q \in Procs \ {p} : ~Idle(q)
        /\ checkpoint' = NoCheckpoint
  /\ tmp' = NoCheckpoint
  /\ proc' = [proc EXCEPT ![p].stage = "idle"]
  /\ UNCHANGED <<disk, old, owner, written, acked>>

-----------------------------------------------------------------------------
(* Processes that end, and writes that do not come to their end.           *)

\* Mutant: the lock outlives its process.
FreeMutant(p) == owner

Free(p) == IF owner = p THEN Nobody ELSE owner

\* The process exits or is killed; the system gives the lock back.
Exit(p) ==
  /\ proc[p] # NotRunning
  /\ proc' = [proc EXCEPT ![p] = NotRunning]
  /\ owner' = Free(p)
  /\ UNCHANGED <<disk, old, checkpoint, tmp, written, acked, collected>>

\* The journals that an append cut short may leave, at the frame or at the
\* version line before it, and whether the Writer takes them for prepared.
Cut(p, line) ==
  [disk : CutShort(Prepared(p), line), prepared : {TRUE}]
    \cup (IF Prepared(p) = disk THEN {}
          ELSE [disk : CutShort(disk, VersionLine), prepared : {FALSE}])

\* An append cut short: the process is gone, or the actor stops at the error.
AppendCut(p, gone) ==
  /\ Present
  /\ proc[p].phase = "live" /\ Idle(p)
  /\ written < MaxFrames
  /\ \E cut \in Cut(p, FrameLine(NewFrame(proc[p].state))) :
       /\ disk' = cut.disk
       /\ proc' = [proc EXCEPT ![p] =
            IF gone THEN NotRunning
            ELSE [@ EXCEPT !.phase = "closed", !.prepared = cut.prepared]]
  /\ owner' = IF gone THEN Free(p) ELSE owner
  /\ written' = written + 1
  /\ UNCHANGED <<old, checkpoint, tmp, acked>>

RenameCut(p) ==
  LET frames == Replay(disk).frames
  IN  /\ Present
      /\ proc[p].phase = "out" /\ Idle(p)
      /\ owner = Nobody
      /\ written < MaxFrames
      /\ Replay(disk).ok /\ frames # <<>>
      /\ \E cut \in Cut(p, FrameLine(NewFrame(frames))) : disk' = cut.disk
      /\ proc' = [proc EXCEPT ![p].prepared = FALSE]
      /\ written' = written + 1
      /\ UNCHANGED <<old, checkpoint, tmp, owner, acked>>

\* The version line before a checkpoint cut short: the checkpoint is not
\* written, and the process goes on as rest says or is gone.
VersionCut(p, gone, rest) ==
  /\ Present
  /\ NeedsVersion(disk) /\ Len(disk.lines) < MaxLines
  /\ disk' \in CutShort(disk, VersionLine)
  /\ proc' = [proc EXCEPT ![p] = IF gone THEN NotRunning ELSE rest]
  /\ owner' = IF gone THEN Free(p) ELSE owner
  /\ UNCHANGED <<old, checkpoint, tmp, written, acked>>

RepairCut(p, gone) ==
  /\ proc[p].stage = "repair"
  /\ VersionCut(p, gone, [proc[p] EXCEPT !.stage = "idle", !.writing = NoSnapshot])

CheckpointCut(p, gone, job) ==
  /\ Idle(p) /\ ~proc[p].prepared
  /\ VersionCut(p, gone, [proc[p] EXCEPT !.jobs = @ \ {job}])

-----------------------------------------------------------------------------
(* gc.rs: a process that starts collects what nobody has touched for long. *)

\* remove: the lock is taken, and given back before the directory goes.
Condemn(p) ==
  /\ Present
  /\ proc[p] = NotRunning
  /\ owner = Nobody
  /\ proc' = [proc EXCEPT ![p].stage = "collect"]
  /\ UNCHANGED <<disk, old, checkpoint, tmp, owner, written, acked>>

Collect(p) ==
  /\ proc[p].stage = "collect"
  /\ collected' = TRUE
  /\ proc' = [proc EXCEPT ![p].stage = "idle"]
  /\ UNCHANGED <<disk, old, checkpoint, tmp, owner, written, acked>>

\* A session whose directory has gone: its next append is its last.
AppendGone(p) ==
  /\ collected /\ proc[p].phase = "live"
  /\ proc' = [proc EXCEPT ![p].phase = "closed"]
  /\ UNCHANGED <<disk, old, checkpoint, tmp, owner, written, acked, collected>>

Next ==
  \E p \in Procs :
    \/ Acquire(p)
    \/ Resume(p)
    \/ ResumeFailed(p)
    \/ Probe(p)
    \/ \E phase \in {"live", "closed"}, snap \in BOOLEAN : AppendFrame(p, phase, snap)
    \/ Rename(p)
    \/ \E job \in proc[p].jobs : WriteCheckpoint(p, job)
    \/ Repair(p)
    \/ InstallCheckpoint(p)
    \/ Exit(p)
    \/ \E gone \in BOOLEAN : AppendCut(p, gone)
    \/ RenameCut(p)
    \/ \E gone \in BOOLEAN : RepairCut(p, gone)
    \/ \E gone \in BOOLEAN, job \in proc[p].jobs : CheckpointCut(p, gone, job)
    \/ Condemn(p)
    \/ Collect(p)
    \/ AppendGone(p)

Spec == Init /\ [][Next]_vars

-----------------------------------------------------------------------------
(* Properties.                                                             *)

\* Every variable has its type, and the lock is not left with a process that
\* has gone or given the session back.
TypeOK ==
  /\ disk \in Disk
  /\ old \in BOOLEAN
  /\ checkpoint \in Checkpoint /\ tmp \in Checkpoint
  /\ owner \in Procs \cup {Nobody}
  /\ proc \in [Procs -> Proc]
  /\ owner # Nobody => proc[owner].phase # "out"
  /\ written \in 1..MaxFrames
  /\ acked \subseteq 1..written
  /\ collected \in BOOLEAN

\* The frames of a journal are in the order of their numbers, whatever
\* processes wrote them and however they ended: the lock, the fold and the
\* rename agree on who continues the numbers.
SeqOrder ==
  LET frames == Framed(disk.lines)
  IN  \A k \in 1..(Len(frames) - 1) : frames[k].seq < frames[k + 1].seq

\* A resume from a checkpoint brings back what a replay of the whole journal
\* would: no frame is folded twice and none is skipped, though checkpoints
\* are written while their session goes on and by processes that do not own
\* it, over one temporary file.
ResumeAgrees ==
  FromCheckpoint /\ Replay(disk).ok => Resumed.frames = Replay(disk).frames

\* The journal was written on only where its last line was complete.
Undamaged ==
  \A k \in DOMAIN disk.lines : disk.lines[k] = Junk => k = Len(disk.lines) /\ disk.open

\* A frame whose append returned comes back, and the session can be resumed:
\* a crash costs the line it cut and nothing else, as long as nobody has
\* written behind such a line.
Durable ==
  Undamaged => Resumed.ok /\ acked \subseteq {Resumed.frames[k].id : k \in DOMAIN Resumed.frames}

\* A replay reads each frame in the format it was written in: an older
\* journal has its version line before the first frame of this build,
\* though a Writer looks for it once, or not at all after a checkpoint.
ReplayedAsWritten ==
  Undamaged =>
    \A k \in DOMAIN disk.lines :
      disk.lines[k].kind = "frame" /\ disk.lines[k].frame.new => ReadAsNew(disk.lines, k)

\* docs/adr/0005: "A crash loses at most the last line".  What was written
\* and acknowledged after the crash is not lost with it.
AtMostTheLastLine ==
  Resumed.ok /\ acked \subseteq {Resumed.frames[k].id : k \in DOMAIN Resumed.frames}

\* gc.rs: "an open session is never collected".
OpenNeverCollected == owner # Nobody => ~collected
=============================================================================
