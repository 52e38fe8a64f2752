----------------------------- MODULE FolderSync -----------------------------
(***************************************************************************)
(* A watched folder and its source notes: WatchedFolderWatcher             *)
(* (watch/folder_watcher.py), the entry points of IngestPipeline           *)
(* (ingest/pipeline.py), and the tools that work on the same notes         *)
(* (resync_folder.py, restore_orphan.py, delete_orphan.py).                *)
(*                                                                         *)
(* The user changes the folder; every process that runs a watcher gets the *)
(* event, holds it for the debounce window, and then starts a job: ingest, *)
(* update_source or mark_orphaned.  A job reads the file and the note,     *)
(* waits for the LLM, and writes the note through VaultWriter.apply, whose *)
(* lock makes the write one step (see VaultWriter).  Jobs run at the same  *)
(* time: coroutines of one process, debounce threads, other processes.     *)
(*                                                                         *)
(* A note is what the properties tell apart: the file it mirrors, the      *)
(* content it was made from, the orphan mark, and what somebody else (the  *)
(* user, a chat patch) did last: an edit of the text, an addition after    *)
(* it.  Files are those the handlers claim; content that a handler or the  *)
(* sniff rejects is a failure.  There is one watched folder.               *)
(***************************************************************************)
EXTENDS Naturals, FiniteSets

CONSTANTS
  Procs,        \* processes with a watcher: brain_api, brain_mcp
  Answering,    \* those whose LLM provider answers; brain_mcp's always raises
  Files, Contents, Slugs,
  Titles,       \* file -> the slugs the LLM's title for it may give
  Jobs,         \* bound: jobs that run at once
  Reverts,      \* may the user bring back an earlier text of a file?
  MaxChanges, MaxEdits, MaxTools, MaxErrors, MaxStops, \* bounds, each on its counter
  None

Note == [src : Files, hash : Contents, orphaned : BOOLEAN,
         edit : 0 .. MaxEdits, added : 0 .. MaxEdits]
Event == [kind : {"created", "modified", "deleted", "moved"}, src : Files, dest : Files]
Cache == [Files -> Slugs \cup {None}]
Job == [kind : {"ingest", "update", "mark", "restore", "delete"},
        by : Procs, caller : {"watcher", "stopped", "user", "resync"},
        src : Files \cup {None}, slug : Slugs \cup {None},
        next : Files \cup {None}, \* where _handle_move goes on after the mark
        pc : {"read", "llm", "apply"},
        old : Note \cup {None}, content : Contents \cup {None}]
Row == [by : Procs, status : {"ok", "failed", "skipped_duplicate"}]

ASSUME FolderAssumption ==
  /\ Answering \subseteq Procs
  /\ Titles \in [Files -> SUBSET Slugs]
  /\ Reverts \in BOOLEAN
  /\ {MaxChanges, MaxEdits, MaxTools, MaxErrors, MaxStops} \subseteq Nat
  /\ None \notin Files \cup Contents \cup Slugs \cup Procs \cup Note \cup Cache \cup Job

VARIABLES
  disk,      \* file -> its content, None when it is not there
  notes,     \* slug -> the note sources/<slug>.md
  running,   \* processes whose watcher runs
  loops,     \* those whose watcher was started with an event loop at hand
  timers,    \* process -> events its debounce timers hold
  cache,     \* process -> _source_to_note
  jobs,      \* job slot -> what runs in it
  todo,      \* process -> what its brain_resync_folder call has left to do
  rows,      \* file -> rows ingest_history got for it since it last changed
  past,      \* history: file -> contents it has had
  lost,      \* history: files whose last change may have no process left that handles it
  displaced, \* history: files that lost a note to another job's note, or to a delete
  changes, edits, tools, errors, stops

counters == <<changes, edits, tools, errors, stops>>
vars == <<disk, notes, running, loops, timers, cache, jobs, todo, rows, past, lost, displaced,
          counters>>

Active == {k \in Jobs : jobs[k] # None}
Present(f) == disk[f] # None
IsNote(s) == notes[s] # None
NotesOf(f) == {s \in Slugs : IsNote(s) /\ notes[s].src = f}

(* One key per path; a move has a key of its own. *)
SameKey(e, d) == e.src = d.src /\ e.dest = d.dest
FilesOf(e) == {e.src, e.dest}

(* MUTANT: the index looks at watched_folder_id alone. *)
Indexes_AnyNote == {c \in Cache : \A f \in Files : c[f] = None \/ IsNote(c[f])}

(* _index_vault_for_folder: of two notes of a file, the walk's last stays. *)
Indexes == {c \in Cache : \A f \in Files :
              IF NotesOf(f) = {} THEN c[f] = None ELSE c[f] \in NotesOf(f)}
Lookups(p) == IF cache[p] = None THEN Indexes ELSE {cache[p]}

Fresh(f, c) == [src |-> f, hash |-> c, orphaned |-> FALSE, edit |-> 0, added |-> 0]

NewJob(kind, p, caller, f, s, next) ==
  [kind |-> kind, by |-> p, caller |-> caller, src |-> f, slug |-> s, next |-> next,
   pc |-> "read", old |-> None, content |-> None]
IngestJob(p, f) == NewJob("ingest", p, "watcher", f, None, None)

(* The folder was watched while it held the files that are there: bulk     *)
(* import gave each of them a note.                                        *)
Init ==
  /\ disk \in [Files -> Contents \cup {None}]
  /\ \A f, g \in Files : Present(f) /\ disk[f] = disk[g] => f = g
  /\ notes \in [Slugs -> {None} \cup
                  {Fresh(f, disk[f])
                     : f \in {g \in Files : Present(g)}}]
  /\ \A f \in Files : Cardinality(NotesOf(f)) = IF Present(f) THEN 1 ELSE 0
  /\ \A s \in Slugs : IsNote(s) => s \in Titles[notes[s].src]
  /\ running = Procs /\ loops = Procs
  /\ timers = [p \in Procs |-> {}]
  /\ cache = [p \in Procs |-> None]
  /\ jobs = [k \in Jobs |-> None]
  /\ todo = [p \in Procs |-> {}]
  /\ rows = [f \in Files |-> {}]
  /\ past = [f \in Files |-> {disk[f]} \ {None}]
  /\ lost = {} /\ displaced = {}
  /\ changes = 0 /\ edits = 0 /\ tools = 0 /\ errors = 0 /\ stops = 0

-----------------------------------------------------------------------------
(* The user and the observer.  _on_event replaces the timer of the same    *)
(* key, so the last event of a burst is the one that is dispatched.        *)

(* MUTANT: an event is dropped while a timer of its key is pending. *)
Observe_KeepsFirst(e) ==
  /\ changes < MaxChanges
  /\ changes' = changes + 1
  /\ timers' = [p \in Procs |->
       IF p \in running /\ \A d \in timers[p] : ~SameKey(d, e) THEN timers[p] \cup {e} ELSE timers[p]]
  /\ lost' = IF loops \cap Answering = {} THEN lost \cup FilesOf(e) ELSE lost \ FilesOf(e)
  /\ rows' = [f \in Files |-> IF f \in FilesOf(e) THEN {} ELSE rows[f]]
  /\ UNCHANGED <<notes, running, loops, cache, jobs, todo, displaced,
                 edits, tools, errors, stops>>

Observe(e) ==
  /\ changes < MaxChanges
  /\ changes' = changes + 1
  /\ timers' = [p \in Procs |->
       IF p \in running THEN {d \in timers[p] : ~SameKey(d, e)} \cup {e} ELSE timers[p]]
  /\ lost' = IF loops \cap Answering = {} THEN lost \cup FilesOf(e) ELSE lost \ FilesOf(e)
  /\ rows' = [f \in Files |-> IF f \in FilesOf(e) THEN {} ELSE rows[f]]
  /\ UNCHANGED <<notes, running, loops, cache, jobs, todo, displaced,
                 edits, tools, errors, stops>>

MayHold(f, c) == Reverts \/ c = disk[f] \/ c \notin past[f]

Save(f, c) ==
  /\ MayHold(f, c)
  /\ disk' = [disk EXCEPT ![f] = c]
  /\ past' = [past EXCEPT ![f] = @ \cup {c}]
  /\ Observe([kind |-> IF Present(f) THEN "modified" ELSE "created", src |-> f, dest |-> f])

Remove(f) ==
  /\ Present(f)
  /\ disk' = [disk EXCEPT ![f] = None]
  /\ Observe([kind |-> "deleted", src |-> f, dest |-> f])
  /\ UNCHANGED past

Rename(f, g) ==
  /\ f # g /\ Present(f) /\ MayHold(g, disk[f])
  /\ disk' = [disk EXCEPT ![f] = None, ![g] = disk[f]]
  /\ past' = [past EXCEPT ![g] = @ \cup {disk[f]}]
  /\ Observe([kind |-> "moved", src |-> f, dest |-> g])

(* Any other writer of a note's text: the user's editor, a chat patch. *)
EditNote(s) ==
  /\ IsNote(s) /\ edits < MaxEdits
  /\ edits' = edits + 1
  /\ \/ notes' = [notes EXCEPT ![s].edit = edits + 1]
     \/ notes' = [notes EXCEPT ![s].added = edits + 1]
  /\ UNCHANGED <<disk, running, loops, timers, cache, jobs, todo, rows, past, lost, displaced,
                 changes, tools, errors, stops>>

-----------------------------------------------------------------------------
(* _dispatch, on the timer's thread. *)

Fired(p, e) ==
  /\ e \in timers[p]
  /\ timers' = [timers EXCEPT ![p] = @ \ {e}]
  /\ UNCHANGED <<disk, notes, running, loops, todo, rows, past, lost, displaced, counters>>

Begin(k, job) == jobs[k] = None /\ jobs' = [jobs EXCEPT ![k] = job]

(* _schedule_async: without a loop the coroutine is closed.                *)
Schedule(p, k, job) == IF p \in loops THEN Begin(k, job) ELSE UNCHANGED jobs

(* No handler claims a file that is not there. *)
Unclaimed(p, e) ==
  /\ e.kind \in {"created", "modified"} /\ ~Present(e.src)
  /\ Fired(p, e)
  /\ UNCHANGED <<cache, jobs>>

HandleCreate(p, e, k) ==
  /\ e.kind = "created" /\ Present(e.src)
  /\ Fired(p, e)
  /\ Schedule(p, k, IngestJob(p, e.src))
  /\ UNCHANGED cache

HandleModify(p, e, k, c) ==
  /\ e.kind = "modified" /\ Present(e.src)
  /\ Fired(p, e)
  /\ cache' = [cache EXCEPT ![p] = c]
  /\ Schedule(p, k, IF c[e.src] = None THEN IngestJob(p, e.src)
                    ELSE NewJob("update", p, "watcher", e.src, c[e.src], None))

(* _handle_delete, and _handle_move, which does it for the old path first. *)
HandleGone(p, e, k, c) ==
  LET next == IF e.kind = "moved" /\ p \in loops THEN e.dest ELSE None IN
  /\ e.kind \in {"deleted", "moved"} /\ c[e.src] # None
  /\ Fired(p, e)
  /\ cache' = [cache EXCEPT ![p] = c]
  /\ Begin(k, NewJob("mark", p, "watcher", e.src, c[e.src], next))

HandleUnmapped(p, e, k, c) ==
  /\ e.kind \in {"deleted", "moved"} /\ c[e.src] = None
  /\ Fired(p, e)
  /\ cache' = [cache EXCEPT ![p] = c]
  /\ IF e.kind = "moved" /\ Present(e.dest) THEN Schedule(p, k, IngestJob(p, e.dest))
     ELSE UNCHANGED jobs

Dispatch(p) == \E e \in timers[p], k \in Jobs :
  \/ Unclaimed(p, e) \/ HandleCreate(p, e, k)
  \/ \E c \in Lookups(p) :
       HandleModify(p, e, k, c) \/ HandleGone(p, e, k, c) \/ HandleUnmapped(p, e, k, c)

-----------------------------------------------------------------------------
(* The tools. *)

CallTool(p, kind, s, k) ==
  /\ tools < MaxTools /\ IsNote(s)
  /\ tools' = tools + 1
  /\ Begin(k, NewJob(kind, p, "user", None, s, None))
  /\ UNCHANGED <<disk, notes, running, loops, timers, cache, todo, rows, past, lost, displaced,
                 changes, edits, errors, stops>>

(* brain_resync_folder reads the vault and the folder once, updates the    *)
(* notes of files that are there, then marks the other notes.              *)
StartResync(p) ==
  /\ tools < MaxTools /\ todo[p] = {}
  /\ tools' = tools + 1
  /\ \E c \in Indexes :
       LET found == {f \in Files : Present(f) /\ c[f] # None}
           gone == {s \in Slugs : /\ IsNote(s) /\ ~notes[s].orphaned
                                  /\ \A f \in found : s # c[f]} IN
       todo' = [todo EXCEPT ![p] =
         {NewJob("update", p, "resync", f, c[f], None) : f \in found}
           \cup {NewJob("mark", p, "resync", notes[s].src, s, None) : s \in gone}]
  /\ UNCHANGED <<disk, notes, running, loops, timers, cache, jobs, rows, past, lost, displaced,
                 changes, edits, errors, stops>>

NextOfResync(p, job, k) ==
  /\ job \in todo[p]
  /\ \A i \in Active : ~(jobs[i].by = p /\ jobs[i].caller = "resync")
  /\ job.kind = "mark" => \A other \in todo[p] : other.kind = "mark"
  /\ todo' = [todo EXCEPT ![p] = @ \ {job}]
  /\ Begin(k, job)
  /\ UNCHANGED <<disk, notes, running, loops, timers, cache, rows, past, lost, displaced,
                 counters>>

ContinueResync(p) == \E job \in todo[p], k \in Jobs : NextOfResync(p, job, k)

-----------------------------------------------------------------------------
(* The jobs.  A watcher's mark drops its file from the cache when it ends; *)
(* ingest and update_source leave a row in ingest_history.                 *)

Forget(c, f) == IF c = None THEN None ELSE [c EXCEPT ![f] = None]

Finish(k, status) ==
  LET j == jobs[k] IN
  /\ jobs' = [jobs EXCEPT ![k] =
       IF j.next # None /\ disk[j.next] # None THEN IngestJob(j.by, j.next) ELSE None]
  /\ cache' = IF j.kind = "mark" /\ j.caller = "watcher"
              THEN [cache EXCEPT ![j.by] = Forget(@, j.src)] ELSE cache
  /\ rows' = IF j.kind \in {"ingest", "update"}
             THEN [rows EXCEPT ![j.src] = @ \cup {[by |-> j.by, status |-> status]}] ELSE rows
  /\ UNCHANGED <<disk, running, loops, timers, todo, past, lost,
                 changes, edits, tools, stops>>

GoOn(k, job) ==
  /\ jobs' = [jobs EXCEPT ![k] = job]
  /\ UNCHANGED <<disk, notes, running, loops, timers, cache, todo, rows, past, lost,
                 displaced, counters>>

End(k, status) == Finish(k, status) /\ UNCHANGED <<notes, displaced, errors>>

AtPC(k, kinds, pc) == jobs[k] # None /\ jobs[k].kind \in kinds /\ jobs[k].pc = pc

(* Any exception: extraction, the sniff, the LLM, a budget, the lock. *)
Fail(k) ==
  /\ jobs[k] # None /\ errors < MaxErrors
  /\ errors' = errors + 1
  /\ Finish(k, "failed")
  /\ UNCHANGED <<notes, displaced>>

(* MUTANT: extraction takes a file that is gone for an empty one. *)
IngestRead_Unchecked(k) ==
  /\ AtPC(k, {"ingest"}, "read")
  /\ GoOn(k, [jobs[k] EXCEPT !.pc = "llm", !.content = disk[jobs[k].src]])

(* ingest: stages 2 to 4. *)
IngestRead(k) ==
  LET j == jobs[k] IN
  /\ AtPC(k, {"ingest"}, "read")
  /\ IF ~Present(j.src) THEN End(k, "failed")
     ELSE IF \E s \in Slugs : IsNote(s) /\ notes[s].hash = disk[j.src]
     THEN End(k, "skipped_duplicate")
     ELSE GoOn(k, [j EXCEPT !.pc = "llm", !.content = disk[j.src]])

(* FakeLLMProvider has nothing queued. *)
IngestUnanswered(k) ==
  /\ AtPC(k, {"ingest"}, "llm") /\ jobs[k].by \notin Answering
  /\ End(k, "failed")

(* Stages 6 to 8 and the writer's checks, which come before its lock. *)
IngestCheck(k, s) ==
  /\ AtPC(k, {"ingest"}, "llm") /\ s \in Titles[jobs[k].src]
  /\ jobs[k].by \in Answering
  /\ IF IsNote(s) /\ notes[s].orphaned THEN End(k, "failed")
     ELSE GoOn(k, [jobs[k] EXCEPT !.pc = "apply", !.slug = s])

Displace(s) == displaced' = displaced \cup IF IsNote(s) THEN {notes[s].src} ELSE {}

IngestLand(k) ==
  LET j == jobs[k] IN
  /\ AtPC(k, {"ingest"}, "apply")
  /\ notes' = [notes EXCEPT ![j.slug] = Fresh(j.src, j.content)]
  /\ Displace(j.slug)
  /\ Finish(k, "ok")
  /\ UNCHANGED errors

(* An edit of the integrate patch does not fit: apply unlinks the new file. *)
IngestRollsBack(k) ==
  /\ AtPC(k, {"ingest"}, "apply") /\ errors < MaxErrors
  /\ errors' = errors + 1
  /\ notes' = [notes EXCEPT ![jobs[k].slug] = None]
  /\ Displace(jobs[k].slug)
  /\ Finish(k, "failed")

(* update_source, mark_orphaned, brain_restore_orphan and                  *)
(* brain_delete_orphan up to the write; update_source reads the note, then *)
(* the file.                                                               *)
NothingToDo(j, note) ==
  CASE j.kind = "update" -> note.hash = disk[j.src] /\ note.src = j.src
    [] j.kind = "mark" -> note.orphaned
    [] OTHER -> ~note.orphaned

EditRead(k) ==
  LET j == jobs[k]  note == notes[j.slug]
      unanswered == j.by \notin Answering /\ j.kind = "update" /\ note.hash # disk[j.src] IN
  /\ AtPC(k, {"update", "mark", "restore", "delete"}, "read")
  /\ IF note = None \/ (j.kind = "update" /\ ~Present(j.src)) THEN End(k, "failed")
     ELSE IF NothingToDo(j, note) THEN End(k, "ok")
     ELSE IF unanswered THEN End(k, "failed")
     ELSE GoOn(k, [j EXCEPT !.pc = "apply", !.old = note,
                            !.content = IF j.kind = "update" THEN disk[j.src] ELSE None])

(* _rewrite_frontmatter_only, _rebuild_note, _rewrite_frontmatter_for_orphan. *)
Rewritten(j) ==
  CASE j.kind = "mark" -> [j.old EXCEPT !.orphaned = TRUE]
    [] j.kind = "restore" -> [j.old EXCEPT !.orphaned = FALSE]
    [] j.kind = "update" /\ j.old.hash = j.content -> [j.old EXCEPT !.src = j.src]
    [] OTHER -> Fresh(j.src, j.content)

(* MUTANT: the replacement is written whatever the note reads. *)
Fits_Always(j) == IsNote(j.slug)

(* The Edit names the whole text the job read; apply refuses it when the   *)
(* note does not contain that any more, and leaves what follows it alone.  *)
Fits(j) == IsNote(j.slug) /\ notes[j.slug] = [j.old EXCEPT !.added = notes[j.slug].added]
Replaced(j) ==
  IF notes[j.slug] = j.old THEN Rewritten(j)
  ELSE [Rewritten(j) EXCEPT !.added = notes[j.slug].added]

EditLand(k) ==
  LET j == jobs[k] IN
  /\ AtPC(k, {"update", "mark", "restore"}, "apply") /\ Fits(j)
  /\ notes' = [notes EXCEPT ![j.slug] = Replaced(j)]
  /\ displaced' = displaced \cup ({j.old.src} \ {Rewritten(j).src})
  /\ Finish(k, "ok")
  /\ UNCHANGED errors

(* MUTANT: a refused edit is tried again. *)
EditRefused_Retries(k) ==
  /\ AtPC(k, {"update", "mark", "restore"}, "apply") /\ ~Fits(jobs[k])
  /\ GoOn(k, jobs[k])

EditRefused(k) ==
  /\ AtPC(k, {"update", "mark", "restore"}, "apply") /\ ~Fits(jobs[k])
  /\ End(k, "failed")

(* shutil.move: whatever the note is by now. *)
DeleteMove(k) ==
  /\ AtPC(k, {"delete"}, "apply")
  /\ notes' = [notes EXCEPT ![jobs[k].slug] = None]
  /\ Displace(jobs[k].slug)
  /\ Finish(k, "ok")
  /\ UNCHANGED errors

JobStep(k) ==
  \/ IngestRead(k) \/ IngestUnanswered(k) \/ (\E s \in Slugs : IngestCheck(k, s)) \/ IngestLand(k)
  \/ EditRead(k) \/ EditLand(k) \/ EditRefused(k) \/ DeleteMove(k)

-----------------------------------------------------------------------------
(* The files for which p has something under way. *)
InHand(p) == UNION {FilesOf(e) : e \in timers[p]}
WorkedOn(p) == (UNION {{jobs[k].src, jobs[k].next} : k \in {i \in Active : jobs[i].by = p}}) \ {None}

Die(p) ==
  /\ p \in running /\ stops < MaxStops
  /\ stops' = stops + 1
  /\ running' = running \ {p} /\ loops' = loops \ {p}
  /\ timers' = [timers EXCEPT ![p] = {}]
  /\ cache' = [cache EXCEPT ![p] = None]
  /\ jobs' = [k \in Jobs |-> IF jobs[k] # None /\ jobs[k].by = p THEN None ELSE jobs[k]]
  /\ todo' = [todo EXCEPT ![p] = {}]
  /\ lost' = lost \cup InHand(p) \cup WorkedOn(p)
  /\ UNCHANGED <<disk, notes, rows, past, displaced, changes, edits, tools, errors>>

Boot(p) ==
  /\ p \notin running
  /\ running' = running \cup {p} /\ loops' = loops \cup {p}
  /\ UNCHANGED <<disk, notes, timers, cache, jobs, todo, rows, past, lost, displaced, counters>>

(* A reload of config.json brings other watched_folders: stop() and        *)
(* another watcher's start(), on the reload's thread, which has no loop.   *)
(* The jobs go on.                                                         *)
Restart(p) ==
  /\ p \in running /\ stops < MaxStops
  /\ stops' = stops + 1
  /\ loops' = loops \ {p}
  /\ timers' = [timers EXCEPT ![p] = {}]
  /\ cache' = [cache EXCEPT ![p] = None]
  /\ jobs' = [k \in Jobs |-> IF jobs[k] # None /\ jobs[k].by = p /\ jobs[k].caller = "watcher"
                            THEN [jobs[k] EXCEPT !.caller = "stopped"] ELSE jobs[k]]
  /\ lost' = lost \cup InHand(p)
  /\ UNCHANGED <<disk, notes, running, todo, rows, past, displaced,
                 changes, edits, tools, errors>>

User ==
  \/ \E f \in Files : Remove(f) \/ (\E c \in Contents : Save(f, c)) \/ (\E g \in Files : Rename(f, g))
  \/ \E s \in Slugs : EditNote(s)
  \/ \E p \in running, s \in Slugs, k \in Jobs :
       CallTool(p, "restore", s, k) \/ CallTool(p, "delete", s, k)
  \/ \E p \in running : StartResync(p)

Next ==
  \/ User
  \/ \E p \in Procs : Dispatch(p) \/ ContinueResync(p) \/ Die(p) \/ Boot(p) \/ Restart(p)
  \/ \E k \in Jobs : JobStep(k) \/ Fail(k) \/ IngestRollsBack(k)

Spec == Init /\ [][Next]_vars

(* Timers fire, the event loop runs what is ready, and every LLM call and  *)
(* every wait for the vault's lock ends (both have time limits).           *)
FairSpec ==
  /\ Spec
  /\ \A p \in Procs : WF_vars(Dispatch(p)) /\ WF_vars(ContinueResync(p))
  /\ \A k \in Jobs : WF_vars(JobStep(k))

-----------------------------------------------------------------------------
TypeOK ==
  /\ disk \in [Files -> Contents \cup {None}]
  /\ notes \in [Slugs -> Note \cup {None}]
  /\ running \subseteq Procs /\ loops \subseteq running
  /\ timers \in [Procs -> SUBSET Event]
  /\ cache \in [Procs -> Cache \cup {None}]
  /\ jobs \in [Jobs -> Job \cup {None}]
  /\ todo \in [Procs -> SUBSET Job]
  /\ rows \in [Files -> SUBSET Row]
  /\ past \in [Files -> SUBSET Contents]
  /\ lost \subseteq Files /\ displaced \subseteq Files
  /\ changes \in 0 .. MaxChanges /\ edits \in 0 .. MaxEdits /\ tools \in 0 .. MaxTools
  /\ errors \in 0 .. MaxErrors /\ stops \in 0 .. MaxStops

(* A cached note is the file's own, unless the file lost its note to       *)
(* another job: the cache is read once and kept over every change made by  *)
(* other jobs, other processes and the user (_ensure_source_cache).        *)
CacheNamesOwnNote ==
  \A p \in Procs, f \in Files :
    cache[p] # None /\ cache[p][f] # None =>
      cache[p][f] \in NotesOf(f) \/ f \in displaced

Quiet == Active = {} /\ \A p \in Procs : timers[p] = {} /\ todo[p] = {}
Shown(f) == \E s \in NotesOf(f) : notes[s].hash = disk[f]
Reported(f) == \E row \in rows[f] : row.by \in Answering /\ row.status # "ok"

(* The source is canonical: when all timers have fired and all jobs have   *)
(* ended, a file's note shows what the file holds, or ingest_history has a *)
(* row of a process with an LLM that says why not.  A debounced burst, a   *)
(* read that the next save overtakes, two processes on one file, a tool in *)
(* between: none may lose the last change without a trace                  *)
(* (folder_watcher.py, pipeline.py).                                       *)
QuietIsCanonical ==
  Quiet => \A f \in Files : Present(f) /\ f \notin lost \cup displaced => Shown(f) \/ Reported(f)

(* update_source, mark_orphaned and brain_restore_orphan never undo a      *)
(* change of the note that they have not read: an edit or an orphan mark   *)
(* that comes while they wait for the LLM or the lock stays in the note.   *)
NothingUnreadIsLost ==
  [][\A s \in Slugs : IsNote(s) /\ notes'[s] # notes[s] /\ edits' = edits =>
       \E k \in Active : /\ jobs[k].slug = s /\ jobs[k].pc = "apply" /\ jobs'[k] # jobs[k]
                         /\ jobs[k].kind \in {"update", "mark", "restore"} =>
                              \/ notes[s] = jobs[k].old
                              \/ /\ notes[s] = [jobs[k].old EXCEPT !.added = notes[s].added]
                                 /\ IsNote(s)' /\ notes'[s].added = notes[s].added]_vars

(* Once the user leaves the folder and the tools alone, every timer fires  *)
(* and every job ends, and then the notes show the files: no event waits   *)
(* for ever, whatever the jobs and tools it shares notes with did.         *)
Settles == <>[](Quiet /\ QuietIsCanonical)

=============================================================================
