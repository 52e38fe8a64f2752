----------------------------- MODULE VaultWriter -----------------------------
(***************************************************************************)
(* The write path of the vault: VaultWriter.apply and .rename_file         *)
(* (vault/writer.py), scope_guard (vault/paths.py), UndoLog.revert         *)
(* (vault/undo.py) and the brain_undo_last tool (tools/undo_last.py).      *)
(*                                                                         *)
(* Several processes (brain_api, brain_mcp, brain_cli, the watcher's       *)
(* threads) hold a VaultWriter on one vault.  apply and rename_file run    *)
(* under one file lock; UndoLog.revert takes none.  Every file-system      *)
(* effect is a step of its own, so that another process, an OSError or the *)
(* death of the process can fall between any two.                          *)
(*                                                                         *)
(* Text is a set of fragments: `old in prev` is old \subseteq prev and     *)
(* replace(old, new, 1) is (prev \ old) \cup new.  An index or log line is *)
(* the undo id of the call that wrote it.                                  *)
(***************************************************************************)
EXTENDS Naturals, Sequences, FiniteSets

CONSTANTS
  Procs,          \* processes and threads working on the vault
  Notes,          \* note paths inside the vault
  Domains,        \* top-level folders
  DomainOf,       \* the folder each note path lies in
  Fragments,      \* pieces of text
  OrphanMark,     \* the frontmatter line `orphaned: true`
  Patches,        \* the PatchSets, with their call's arguments, apply may get
  Renames,        \* the calls rename_file may get
  MaxPatchBytes,  \* max_patch_bytes
  MaxFilesPerPatch,
  InitialNotes,   \* the vault a run starts from
  MaxIds,         \* bound: no call of apply or rename_file starts after so many ids
  MaxDeaths,      \* bound: processes that die in a run
  MaxIOErrors,    \* bound: OSErrors raised by the file system in a run
  NoNote, NoProc, NoJob, NoCommit

Text == SUBSET Fragments

(* The seven fields of a call of apply: the patch's four members, the size *)
(* total_size() returns, and the two keyword arguments.                    *)
PatchCall == [new     : Seq([path : Notes, text : Text]),
              edits   : Seq([path : Notes, old : Text, new : Text]),
              index   : Seq(Domains),
              log     : BOOLEAN,
              bytes   : Nat,
              allowed : Seq(Domains),
              orphans : BOOLEAN]

RenameCall == [src : Notes, dst : Notes, allowed : Seq(Domains), orphans : BOOLEAN]

ASSUME NotesAssumption ==
  /\ DomainOf \in [Notes -> Domains]
  /\ OrphanMark \in Fragments
  /\ \A t \in Text : t # NoNote
  /\ InitialNotes \in [Notes -> {NoNote} \cup Text]

ASSUME CallsAssumption ==
  /\ Patches \subseteq PatchCall
  /\ \A q \in Patches : q.allowed # <<>>
  /\ Renames \subseteq RenameCall
  /\ \A q \in Patches \cup Renames : q # NoJob

ASSUME BoundsAssumption ==
  /\ MaxPatchBytes \in Nat /\ MaxFilesPerPatch \in Nat
  /\ MaxIds \in Nat /\ MaxDeaths \in Nat /\ MaxIOErrors \in Nat
  /\ NoProc \notin Procs

VARIABLES
  notes,    \* path -> text, NoNote where there is no file
  index,    \* domain -> the entries of its index.md
  log,      \* domain -> the lines of its log.md
  undo,     \* the ids with a .brain/undo/<id>.txt -> what it holds
  lock,     \* who holds .brain/locks/global.lock
  clock,    \* the last timestamp handed out as an undo id
  pc, job, uid, pos, recs, buf,          \* each process's running call
  before, tainted, last, deaths, errs  \* history, read by no step of the code

ioVars == <<notes, index, log, undo>>
callVars == <<pc, job, uid, pos, recs, buf>>
histVars == <<before, tainted, last>>
vars == <<notes, index, log, undo, lock, clock, pc, job, uid, pos, recs, buf,
          before, tainted, last, deaths, errs>>

(* One (path, previous content or None) pair of undo_records, and what an  *)
(* undo file holds.  A file caught between truncation and write holds no   *)
(* line, which revert reads as a record of no file.                        *)
Rec == [path : Notes, prev : {NoNote} \cup Text]
UndoFile == [kind : {"files", "rename"}, recs : Seq(Rec)]
Torn == [kind |-> "files", recs |-> <<>>]
FilesRecord(rs) == [kind |-> "files", recs |-> rs]
RenameRecord == [kind |-> "rename", recs |-> <<>>]

(***************************************************************************)
(* Program counters.  In InLock a process is inside `with lock.acquire`.   *)
(***************************************************************************)
ApplyForward == {"plan", "record", "write", "index", "save", "log", "seal", "sealing"}
InApply == ApplyForward \cup {"rollback"}
InRename == {"move", "moved"}
InLock == InApply \cup InRename
Reverting == {"revert", "rewrite"}
PCs == {"idle", "acquire", "renaming"} \cup InLock \cup Reverting

(* Why the history of a call excuses it from a guarantee.                  *)
Taints == {"clobbered",       \* a new_file replaced a note that existed
           "repeated",        \* the patch names one path twice
           "torn",            \* its undo file was left truncated
           "renamed",         \* its undo file is a RENAME record
           "rollback error",  \* a rollback step raised
           "raced"}           \* somebody else wrote notes while it ran

-----------------------------------------------------------------------------
(* Helpers.                                                                *)

Exists(x) == notes[x] # NoNote
Orphaned(x) == Exists(x) /\ OrphanMark \in notes[x]
Elements(s) == {s[i] : i \in DOMAIN s}

(* The paths apply mutates, in its order: the new files, then the edits.   *)
PathCount(q) == Len(q.new) + Len(q.edits)
Path(q, i) == IF i <= Len(q.new) THEN q.new[i].path ELSE q.edits[i - Len(q.new)].path
Repeats(q) == \E i, j \in 1 .. PathCount(q) : i # j /\ Path(q, i) = Path(q, j)

scope_guard(x, q) ==
  /\ DomainOf[x] \in Elements(q.allowed)
  /\ q.orphans \/ ~Orphaned(x)

Init ==
  /\ notes = InitialNotes
  /\ index = [d \in Domains |-> {}]
  /\ log = [d \in Domains |-> {}]
  /\ undo = [i \in {} |-> Torn]
  /\ lock = NoProc
  /\ clock = 0
  /\ pc = [p \in Procs |-> "idle"]
  /\ job = [p \in Procs |-> NoJob]
  /\ uid = [p \in Procs |-> 0]
  /\ pos = [p \in Procs |-> 1]
  /\ recs = [p \in Procs |-> <<>>]
  /\ buf = [p \in Procs |-> {}]
  /\ before = [p \in Procs |-> InitialNotes]
  /\ tainted = [p \in Procs |-> {}]
  /\ last = NoCommit
  /\ deaths = 0
  /\ errs = 0

Goto(p, label) == pc' = [pc EXCEPT ![p] = label]

(* Mutant: the undo file gets a fresher id than the call's.                *)
WriteUndo_OtherId(p, body) ==
  undo' = [i \in DOMAIN undo \cup {uid[p] + 1} |-> IF i = uid[p] + 1 THEN body ELSE undo[i]]

WriteUndo(p, body) ==
  undo' = [i \in DOMAIN undo \cup {uid[p]} |-> IF i = uid[p] THEN body ELSE undo[i]]

(* p writes a note: every other running call is no longer alone.  Calls    *)
(* that wait for the lock have not looked at any note yet.                 *)
WriteNote(p, x, text) ==
  /\ notes' = [notes EXCEPT ![x] = text]
  /\ tainted' = [o \in Procs |->
       IF o # p /\ pc[o] \in InLock \cup Reverting /\ text # notes[x]
       THEN tainted[o] \cup {"raced"} ELSE tainted[o]]

(* The call of p ends: its local variables go.                             *)
Return(p) ==
  /\ Goto(p, "idle")
  /\ job' = [job EXCEPT ![p] = NoJob]
  /\ uid' = [uid EXCEPT ![p] = 0]
  /\ pos' = [pos EXCEPT ![p] = 1]
  /\ recs' = [recs EXCEPT ![p] = <<>>]
  /\ buf' = [buf EXCEPT ![p] = {}]
  /\ before' = [before EXCEPT ![p] = InitialNotes]
  /\ tainted' = [tainted EXCEPT ![p] = {}]

(* Mutants: the lock is leaked; a process that only waits drops it for all. *)
Unlock_Leak(p) == UNCHANGED lock
Unlock_Any(p) == lock' = NoProc

Unlock(p) == lock' = IF lock = p THEN NoProc ELSE lock

(* How the call of p ended, kept for the properties.                       *)
Outcome(p, how, taint) ==
  last' = [id |-> uid[p], how |-> how, before |-> before[p], after |-> notes,
           tainted |-> taint]

-----------------------------------------------------------------------------
(* VaultWriter.apply: the ceilings, the scope checks and the undo id, all  *)
(* before the lock.  A refused call changes nothing.                       *)

Apply(p, q) ==
  /\ pc[p] = "idle"
  /\ clock < MaxIds
  /\ q.bytes <= MaxPatchBytes
  /\ Cardinality({Path(q, i) : i \in 1 .. PathCount(q)}) <= MaxFilesPerPatch
  /\ \A i \in 1 .. PathCount(q) : scope_guard(Path(q, i), q)
  /\ \A i \in DOMAIN q.index : q.index[i] \in Elements(q.allowed)
  /\ clock' = clock + 1
  /\ uid' = [uid EXCEPT ![p] = clock + 1]
  /\ job' = [job EXCEPT ![p] = q]
  /\ Goto(p, "acquire")
  /\ UNCHANGED <<ioVars, lock, pos, recs, buf, histVars, deaths, errs>>

Acquire(p) ==
  /\ pc[p] = "acquire" /\ lock = NoProc
  /\ lock' = p
  /\ before' = [before EXCEPT ![p] = notes]
  /\ tainted' = [tainted EXCEPT ![p] = IF Repeats(job[p]) THEN {"repeated"} ELSE {}]
  /\ Goto(p, "plan")
  /\ UNCHANGED <<ioVars, clock, job, uid, pos, recs, buf, last, deaths, errs>>

(* lock.acquire(timeout=30) gives up: filelock raises Timeout.             *)
AcquireTimeout(p) ==
  /\ pc[p] \in {"acquire", "renaming"} /\ lock # NoProc
  /\ Return(p)
  /\ UNCHANGED <<ioVars, lock, clock, last, deaths, errs>>

(* The next new file or edit: take its undo entry and truncate the undo    *)
(* file (write_text opens it with "w").                                    *)
TakeRecord(p, x, prev) ==
  /\ recs' = [recs EXCEPT ![p] = Append(@, [path |-> x, prev |-> prev])]
  /\ WriteUndo(p, Torn)
  /\ Goto(p, "record")
  /\ UNCHANGED <<notes, index, log, lock, clock, job, uid, pos, buf, before, last, deaths, errs>>

PlanNewFile(p) ==
  /\ pc[p] = "plan" /\ pos[p] <= Len(job[p].new)
  /\ LET x == job[p].new[pos[p]].path IN
     /\ TakeRecord(p, x, NoNote)
     /\ tainted' = [tainted EXCEPT ![p] = IF Exists(x) THEN @ \cup {"clobbered"} ELSE @]

EditOf(p) == job[p].edits[pos[p] - Len(job[p].new)]
AtEdit(p) == /\ pc[p] = "plan"
             /\ pos[p] > Len(job[p].new) /\ pos[p] <= PathCount(job[p])

(* Mutant: the old-text check is dropped.                                  *)
Matches_Unchecked(e) == Exists(e.path)

(* `e.old in prev_text`, on a file that can be read.                       *)
Matches(e) == Exists(e.path) /\ e.old \subseteq notes[e.path]

PlanEdit(p) ==
  /\ AtEdit(p) /\ Matches(EditOf(p))
  /\ TakeRecord(p, EditOf(p).path, notes[EditOf(p).path])
  /\ UNCHANGED tainted

(* Mutant: the undo record is kept in memory until the end (issue #26).    *)
WriteRecord_InMemory(p) ==
  /\ pc[p] = "record"
  /\ Goto(p, "write")
  /\ UNCHANGED <<ioVars, lock, clock, job, uid, pos, recs, buf, histVars, deaths, errs>>

WriteRecord(p) ==
  /\ pc[p] = "record"
  /\ WriteUndo(p, FilesRecord(recs[p]))
  /\ Goto(p, "write")
  /\ UNCHANGED <<notes, index, log, lock, clock, job, uid, pos, recs, buf, histVars, deaths, errs>>

(* _atomic_write of the new text; an edit replaces in the text it READ.    *)
NewText(p) ==
  IF pos[p] <= Len(job[p].new) THEN job[p].new[pos[p]].text
  ELSE (recs[p][Len(recs[p])].prev \ EditOf(p).old) \cup EditOf(p).new

Mutate(p) ==
  /\ pc[p] = "write"
  /\ WriteNote(p, Path(job[p], pos[p]), NewText(p))
  /\ pos' = [pos EXCEPT ![p] = @ + 1]
  /\ Goto(p, "plan")
  /\ UNCHANGED <<index, log, undo, lock, clock, job, uid, recs, buf, before, last, deaths, errs>>

FilesDone(p) ==
  /\ pc[p] = "plan" /\ pos[p] > PathCount(job[p])
  /\ Goto(p, "index")
  /\ pos' = [pos EXCEPT ![p] = 1]
  /\ UNCHANGED <<ioVars, lock, clock, job, uid, recs, buf, histVars, deaths, errs>>

(* IndexFile.load, add_entry, and the truncation half of save().           *)
LoadIndex(p) ==
  /\ pc[p] = "index" /\ pos[p] <= Len(job[p].index)
  /\ LET d == job[p].index[pos[p]] IN
     /\ buf' = [buf EXCEPT ![p] = index[d] \cup {uid[p]}]
     /\ index' = [index EXCEPT ![d] = {}]
  /\ Goto(p, "save")
  /\ UNCHANGED <<notes, log, undo, lock, clock, job, uid, pos, recs, histVars, deaths, errs>>

SaveIndex(p) ==
  /\ pc[p] = "save"
  /\ index' = [index EXCEPT ![job[p].index[pos[p]]] = buf[p]]
  /\ buf' = [buf EXCEPT ![p] = {}]
  /\ pos' = [pos EXCEPT ![p] = @ + 1]
  /\ Goto(p, "index")
  /\ UNCHANGED <<notes, log, undo, lock, clock, job, uid, recs, histVars, deaths, errs>>

IndexDone(p) ==
  /\ pc[p] = "index" /\ pos[p] > Len(job[p].index)
  /\ Goto(p, IF job[p].log THEN "log" ELSE "seal")
  /\ UNCHANGED <<ioVars, lock, clock, job, uid, pos, recs, buf, histVars, deaths, errs>>

AppendLog(p) ==
  /\ pc[p] = "log"
  /\ log' = [log EXCEPT ![job[p].allowed[1]] = @ \cup {uid[p]}]
  /\ Goto(p, "seal")
  /\ UNCHANGED <<notes, index, undo, lock, clock, job, uid, pos, recs, buf, histVars, deaths, errs>>

(* The final _write_undo_record, again truncation then text; then the lock *)
(* is released and the receipt returned.                                   *)
BeginSeal(p) ==
  /\ pc[p] = "seal"
  /\ WriteUndo(p, Torn)
  /\ Goto(p, "sealing")
  /\ UNCHANGED <<notes, index, log, lock, clock, job, uid, pos, recs, buf, histVars, deaths, errs>>

Seal(p) ==
  /\ pc[p] = "sealing"
  /\ WriteUndo(p, FilesRecord(recs[p]))
  /\ Outcome(p, "commit", tainted[p])
  /\ Return(p) /\ Unlock(p)
  /\ UNCHANGED <<notes, index, log, clock, deaths, errs>>

-----------------------------------------------------------------------------
(* except BaseException: roll the notes back, newest record first.         *)

TornPC == {"record", "sealing"}

Raise(p) ==
  /\ Goto(p, "rollback")
  /\ tainted' = [tainted EXCEPT ![p] = IF pc[p] \in TornPC THEN @ \cup {"torn"} ELSE @]
  /\ UNCHANGED <<ioVars, lock, clock, job, uid, pos, recs, buf, before, last, deaths>>

(* read_text of a missing note, or `edit old-text not found`.              *)
EditFails(p) ==
  /\ AtEdit(p) /\ ~Matches(EditOf(p))
  /\ Raise(p)
  /\ UNCHANGED errs

(* Any other step raises OSError: the disk is full, a file is locked.      *)
IOError(p) ==
  /\ pc[p] \in ApplyForward /\ errs < MaxIOErrors
  /\ errs' = errs + 1
  /\ Raise(p)

(* Mutants: the oldest record first; a record that is never dropped.       *)
Rollback_OldestFirst(p) ==
  /\ pc[p] = "rollback" /\ recs[p] # <<>>
  /\ WriteNote(p, Head(recs[p]).path, Head(recs[p]).prev)
  /\ recs' = [recs EXCEPT ![p] = Tail(@)]
  /\ UNCHANGED <<index, log, undo, lock, clock, pc, job, uid, pos, buf, before, last, deaths, errs>>

Rollback_Keep(p) ==
  /\ pc[p] = "rollback" /\ recs[p] # <<>>
  /\ LET r == recs[p][Len(recs[p])] IN WriteNote(p, r.path, r.prev)
  /\ UNCHANGED <<index, log, undo, lock, clock, pc, job, uid, pos, recs, buf, before, last, deaths, errs>>

Rollback(p) ==
  /\ pc[p] = "rollback" /\ recs[p] # <<>>
  /\ LET r == recs[p][Len(recs[p])] IN WriteNote(p, r.path, r.prev)
  /\ recs' = [recs EXCEPT ![p] = SubSeq(@, 1, Len(@) - 1)]
  /\ UNCHANGED <<index, log, undo, lock, clock, pc, job, uid, pos, buf, before, last, deaths, errs>>

(* One rollback step raises: it is noted and the next is tried.            *)
RollbackFails(p) ==
  /\ pc[p] = "rollback" /\ recs[p] # <<>> /\ errs < MaxIOErrors
  /\ errs' = errs + 1
  /\ recs' = [recs EXCEPT ![p] = SubSeq(@, 1, Len(@) - 1)]
  /\ tainted' = [tainted EXCEPT ![p] = @ \cup {"rollback error"}]
  /\ UNCHANGED <<ioVars, lock, clock, pc, job, uid, pos, buf, before, last, deaths>>

(* raise: the lock is released; the undo file stays.                       *)
Reraise(p) ==
  /\ pc[p] = "rollback" /\ recs[p] = <<>>
  /\ Outcome(p, "raise", tainted[p] \ {"rollback error"})
  /\ Return(p) /\ Unlock(p)
  /\ UNCHANGED <<ioVars, clock, deaths, errs>>

-----------------------------------------------------------------------------
(* VaultWriter.rename_file                                                 *)

RenameFile(p, r) ==
  /\ pc[p] = "idle"
  /\ clock < MaxIds
  /\ scope_guard(r.src, r) /\ scope_guard(r.dst, r)
  /\ DomainOf[r.src] = DomainOf[r.dst]
  /\ job' = [job EXCEPT ![p] = r]
  /\ Goto(p, "renaming")
  /\ UNCHANGED <<ioVars, lock, clock, uid, pos, recs, buf, histVars, deaths, errs>>

(* A missing source or an existing destination raises inside the lock,     *)
(* which lets it go at once.                                               *)
RenameAcquire(p) ==
  /\ pc[p] = "renaming" /\ lock = NoProc
  /\ IF Exists(job[p].src) /\ ~Exists(job[p].dst)
     THEN /\ lock' = p
          /\ before' = [before EXCEPT ![p] = notes]
          /\ tainted' = [tainted EXCEPT ![p] = {"renamed"}]
          /\ Goto(p, "move")
          /\ UNCHANGED <<job, uid, pos, recs, buf>>
     ELSE /\ Return(p)
          /\ UNCHANGED lock
  /\ UNCHANGED <<ioVars, clock, last, deaths, errs>>

(* os.replace, which raises when a revert has just unlinked the source;    *)
(* then the undo id.                                                       *)
Move(p) ==
  /\ pc[p] = "move" /\ Exists(job[p].src)
  /\ notes' = [notes EXCEPT ![job[p].src] = NoNote, ![job[p].dst] = notes[job[p].src]]
  /\ tainted' = [o \in Procs |-> IF o # p /\ pc[o] \in Reverting
                                 THEN tainted[o] \cup {"raced"} ELSE tainted[o]]
  /\ clock' = clock + 1
  /\ uid' = [uid EXCEPT ![p] = clock + 1]
  /\ Goto(p, "moved")
  /\ UNCHANGED <<index, log, undo, lock, job, pos, recs, buf, before, last, deaths, errs>>

WriteRenameRecord(p) ==
  /\ pc[p] = "moved"
  /\ WriteUndo(p, RenameRecord)
  /\ Outcome(p, "commit", tainted[p])
  /\ Return(p) /\ Unlock(p)
  /\ UNCHANGED <<notes, index, log, clock, deaths, errs>>

(* An exception of rename_file only releases the lock.                     *)
RenameFails(p) ==
  /\ \/ pc[p] \in InRename /\ errs < MaxIOErrors /\ errs' = errs + 1
     \/ pc[p] = "move" /\ ~Exists(job[p].src) /\ UNCHANGED errs
  /\ Return(p) /\ Unlock(p)
  /\ UNCHANGED <<ioVars, clock, last, deaths>>

-----------------------------------------------------------------------------
(* UndoLog.revert, without any lock, and brain_undo_last.                  *)

LatestUndoId == CHOOSE i \in DOMAIN undo : \A j \in DOMAIN undo : j <= i

(* The record is read at once.  The history remembers what the call that   *)
(* wrote it found, if nothing has changed the notes since it ended.        *)
Revert(p, i) ==
  /\ pc[p] = "idle" /\ i \in DOMAIN undo
  /\ recs' = [recs EXCEPT ![p] = undo[i].recs]
  /\ uid' = [uid EXCEPT ![p] = i]
  /\ Goto(p, "revert")
  /\ IF last # NoCommit /\ last.id = i /\ last.after = notes
     THEN /\ before' = [before EXCEPT ![p] = last.before]
          /\ tainted' = [tainted EXCEPT ![p] = last.tainted]
     ELSE /\ tainted' = [tainted EXCEPT ![p] = {"raced"}]
          /\ UNCHANGED before
  /\ UNCHANGED <<ioVars, lock, clock, job, pos, buf, last, deaths, errs>>

UndoLast(p) == DOMAIN undo # {} /\ Revert(p, LatestUndoId)

(* The next PATH of the record, in the order it was written: NEW unlinks,  *)
(* PREV_LEN truncates the note (write_text) and then writes it.            *)
Skip(p) == recs' = [recs EXCEPT ![p] = Tail(@)]

RevertNew(p) ==
  /\ pc[p] = "revert" /\ recs[p] # <<>> /\ Head(recs[p]).prev = NoNote
  /\ WriteNote(p, Head(recs[p]).path, NoNote)
  /\ Skip(p)
  /\ UNCHANGED <<index, log, undo, lock, clock, pc, job, uid, pos, buf, before, last, deaths, errs>>

RevertPrev(p) ==
  /\ pc[p] = "revert" /\ recs[p] # <<>> /\ Head(recs[p]).prev # NoNote
  /\ WriteNote(p, Head(recs[p]).path, {})
  /\ Goto(p, "rewrite")
  /\ UNCHANGED <<index, log, undo, lock, clock, job, uid, pos, recs, buf, before, last, deaths, errs>>

Rewrite(p) ==
  /\ pc[p] = "rewrite"
  /\ WriteNote(p, Head(recs[p]).path, Head(recs[p]).prev)
  /\ Skip(p)
  /\ Goto(p, "revert")
  /\ UNCHANGED <<index, log, undo, lock, clock, job, uid, pos, buf, before, last, deaths, errs>>

RevertDone(p) ==
  /\ pc[p] = "revert" /\ recs[p] = <<>>
  /\ Return(p)
  /\ UNCHANGED <<ioVars, lock, clock, last, deaths, errs>>

-----------------------------------------------------------------------------
(* The process dies: the operating system drops its file lock, and nothing *)
(* else is cleaned up.                                                     *)
Die(p) ==
  /\ pc[p] # "idle" /\ deaths < MaxDeaths
  /\ deaths' = deaths + 1
  /\ IF pc[p] \in InApply
     THEN Outcome(p, "death", (tainted[p] \ {"rollback error"})
                              \cup (IF pc[p] \in TornPC THEN {"torn"} ELSE {}))
     ELSE UNCHANGED last
  /\ Return(p) /\ Unlock(p)
  /\ UNCHANGED <<ioVars, clock, errs>>

ApplyStep(p) ==
  \/ PlanNewFile(p) \/ PlanEdit(p) \/ WriteRecord(p) \/ Mutate(p) \/ FilesDone(p)
  \/ LoadIndex(p) \/ SaveIndex(p) \/ IndexDone(p) \/ AppendLog(p) \/ BeginSeal(p) \/ Seal(p)
  \/ EditFails(p) \/ Rollback(p) \/ Reraise(p)

RenameStep(p) == Move(p) \/ WriteRenameRecord(p) \/ RenameFails(p)
RevertStep(p) == RevertNew(p) \/ RevertPrev(p) \/ Rewrite(p) \/ RevertDone(p)
LockStep(p) == Acquire(p) \/ AcquireTimeout(p) \/ RenameAcquire(p)

(* What a running call does next, failures of the file system aside.       *)
Step(p) == LockStep(p) \/ ApplyStep(p) \/ RenameStep(p) \/ RevertStep(p)

Call(p) ==
  \/ \E q \in Patches : Apply(p, q)
  \/ \E r \in Renames : RenameFile(p, r)
  \/ \E i \in DOMAIN undo : Revert(p, i)
  \/ UndoLast(p)

Fault(p) == IOError(p) \/ RollbackFails(p) \/ Die(p)

(* Bound: with every id handed out and every call over, a run stops.       *)
Exhausted == clock >= MaxIds /\ (\A p \in Procs : pc[p] = "idle") /\ UNCHANGED vars

Next == (\E p \in Procs : Call(p) \/ Step(p) \/ Fault(p)) \/ Exhausted

Spec == Init /\ [][Next]_vars

(* The scheduler runs every thread, and FileLock polls: a call that waits  *)
(* acquires or times out.  Nobody is obliged to call, fail or die.         *)
FairSpec == Spec /\ \A p \in Procs : WF_vars(Step(p))
-----------------------------------------------------------------------------
(* Properties.                                                             *)

Outcomes == [id : Nat, how : {"commit", "raise", "death"},
             before : [Notes -> {NoNote} \cup Text],
             after : [Notes -> {NoNote} \cup Text], tainted : SUBSET Taints]

(* The type invariant, with the bookkeeping of ids: nobody works under an  *)
(* id, and no undo file has one, that the clock has not handed out.        *)
FilesTyped ==
  /\ notes \in [Notes -> {NoNote} \cup Text]
  /\ index \in [Domains -> SUBSET Nat]
  /\ log \in [Domains -> SUBSET Nat]
  /\ DOMAIN undo \subseteq 1 .. clock
  /\ \A i \in DOMAIN undo : undo[i] \in UndoFile

CallsTyped ==
  /\ lock \in Procs \cup {NoProc}
  /\ clock \in Nat
  /\ pc \in [Procs -> PCs]
  /\ job \in [Procs -> {NoJob} \cup Patches \cup Renames]
  /\ uid \in [Procs -> 0 .. clock]
  /\ pos \in [Procs -> Nat \ {0}]
  /\ recs \in [Procs -> Seq(Rec)]
  /\ buf \in [Procs -> SUBSET Nat]

HistoryTyped ==
  /\ before \in [Procs -> [Notes -> {NoNote} \cup Text]]
  /\ tainted \in [Procs -> SUBSET Taints]
  /\ last \in {NoCommit} \cup Outcomes
  /\ deaths \in Nat
  /\ errs \in Nat

TypeOK == FilesTyped /\ CallsTyped /\ HistoryTyped

(* Inside the lock is exactly one process, the one the lock names: no      *)
(* exception path and no death leaves the lock behind or loses it.         *)
LockedAlone == \A p \in Procs : pc[p] \in InLock <=> lock = p

(* "Rolled back" holds what apply promises of a patch that raised: when    *)
(* the rollback is over, every note is as it was when the lock was taken,  *)
(* whatever step raised and however far the patch had come.  Excused are a *)
(* new file that replaced a note, a rollback step that raised, and a       *)
(* revert that wrote at the same time; a path named twice is no excuse.    *)
RollbackRestores ==
  \A p \in Procs :
    pc[p] = "rollback" /\ recs[p] = <<>> /\ tainted[p] \subseteq {"repeated", "torn"}
      => notes = before[p]

(* Reverting an undo id gives back the notes from before the call that     *)
(* wrote it, whether that call committed, raised, or died half way: the    *)
(* record on disk covers every note the call has touched at any moment.    *)
UndoRestores ==
  \A p \in Procs :
    pc[p] = "revert" /\ recs[p] = <<>> /\ tainted[p] = {}
      => notes = before[p]

(* The catalogue of a domain: its index.md, or what the process that has   *)
(* truncated it is about to write.                                         *)
Catalog(d) ==
  index[d] \cup UNION {buf[p] : p \in {o \in Procs : pc[o] = "save" /\ job[o].index[pos[o]] = d}}

(* No entry of a catalogue is ever lost to another call, to a rollback or  *)
(* to a revert; only an OSError or a death can lose one.                   *)
CatalogKept ==
  [][\A d \in Domains : Catalog(d) \subseteq Catalog(d)' \/ errs' > errs \/ deaths' > deaths]_vars

(* Every call of apply, rename_file and revert comes to an end: waiting    *)
(* ends in the lock or a timeout, and a rollback ends.                     *)
CallsEnd == \A p \in Procs : pc[p] # "idle" ~> pc[p] = "idle"
=============================================================================
