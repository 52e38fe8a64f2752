-------------------------- MODULE FolderSyncProofs --------------------------
(* Theorems of FolderSync: types, the watcher's cache names a file's own   *)
(* note, no job overwrites what it did not read, and, when no text of a    *)
(* file comes back, the last change of every file shows or is reported.    *)
EXTENDS FolderSync, FiniteSetTheorems, TLAPS

(* A job has read what its step needs.                                     *)
WellFormed(j) ==
  /\ j.kind # "ingest" => j.slug \in Slugs
  /\ j.kind \in {"ingest", "update", "mark"} => j.src \in Files
  /\ j.pc # "read" /\ j.kind \in {"ingest", "update"} => j.content \in Contents
  /\ j.pc # "read" /\ j.kind # "ingest" => j.pc = "apply" /\ j.old \in Note
  /\ j.pc = "apply" => j.slug \in Slugs

JobsOK ==
  /\ \A k \in Jobs : jobs[k] # None => WellFormed(jobs[k])
  /\ \A p \in Procs : \A j \in todo[p] : WellFormed(j) /\ j.pc = "read"

Inv == TypeOK /\ JobsOK /\ CacheNamesOwnNote

USE DEF counters

(* None is no file, no text, no note, no cache and no job.                 *)
LEMMA Markers ==
  /\ None \notin Files /\ None \notin Contents /\ None \notin Slugs
  /\ None \notin Note /\ None \notin Cache /\ None \notin Job
  /\ Answering \subseteq Procs
  BY FolderAssumption

(* What NewJob makes is a job that has read nothing.                       *)
LEMMA NewJobs ==
  ASSUME NEW kind \in {"ingest", "update", "mark", "restore", "delete"}, NEW p \in Procs,
         NEW caller \in {"watcher", "stopped", "user", "resync"},
         NEW f \in Files \cup {None}, NEW s \in Slugs \cup {None}, NEW g \in Files \cup {None},
         kind # "ingest" => s \in Slugs,
         kind \in {"ingest", "update", "mark"} => f \in Files
  PROVE  /\ NewJob(kind, p, caller, f, s, g) \in Job
         /\ NewJob(kind, p, caller, f, s, g).pc = "read"
         /\ WellFormed(NewJob(kind, p, caller, f, s, g))
  BY DEF NewJob, Job, WellFormed

LEMMA IngestJobs ==
  ASSUME NEW p \in Procs, NEW f \in Files
  PROVE  IngestJob(p, f) \in Job /\ IngestJob(p, f).pc = "read" /\ WellFormed(IngestJob(p, f))
  BY NewJobs DEF IngestJob

(* A job that starts in a free slot leaves the others as they are.         *)
LEMMA Begins ==
  ASSUME TypeOK, JobsOK, UNCHANGED todo, NEW k \in Jobs, NEW job \in Job,
         WellFormed(job), Begin(k, job)
  PROVE  jobs' \in [Jobs -> Job \cup {None}] /\ JobsOK'
<1> USE Markers DEF Begin
<1>1. jobs' \in [Jobs -> Job \cup {None}]  BY DEF TypeOK
<1>2. \A i \in Jobs : jobs'[i] # None => WellFormed(jobs'[i])  BY DEF TypeOK, JobsOK
<1> QED  BY <1>1, <1>2 DEF JobsOK

(* A job that ends leaves the cache of its process without its file, or as *)
(* it was.                                                                 *)
CacheFrom ==
  \A p \in Procs, f \in Files : cache'[p] # None /\ cache'[p][f] # None =>
    \/ cache[p] # None /\ cache[p][f] = cache'[p][f]
    \/ cache'[p][f] \in NotesOf(f)

LEMMA Finishes ==
  ASSUME TypeOK, JobsOK, NEW k \in Jobs, jobs[k] # None,
         NEW status \in {"ok", "failed", "skipped_duplicate"}, Finish(k, status)
  PROVE  /\ jobs' \in [Jobs -> Job \cup {None}]
         /\ cache' \in [Procs -> Cache \cup {None}]
         /\ rows' \in [Files -> SUBSET Row]
         /\ JobsOK' /\ CacheFrom
<1> USE Markers DEF Finish
<1> DEFINE j == jobs[k]
           job == IF j.next # None /\ disk[j.next] # None THEN IngestJob(j.by, j.next) ELSE None
<1>1. j \in Job /\ WellFormed(j)  BY DEF TypeOK, JobsOK
<1>2. j.by \in Procs /\ j.next \in Files \cup {None} /\ j.src \in Files \cup {None}
  BY <1>1 DEF Job
<1>3. job \in Job \cup {None} /\ (job # None => WellFormed(job))  BY <1>2, IngestJobs
<1>4. jobs' = [jobs EXCEPT ![k] = job]  OBVIOUS
<1> HIDE DEF job
<1>5. jobs' \in [Jobs -> Job \cup {None}]  BY <1>3, <1>4 DEF TypeOK
<1>6. JobsOK'  BY <1>3, <1>4 DEF JobsOK, TypeOK
<1>7. cache' \in [Procs -> Cache \cup {None}] /\ CacheFrom
  <2>1. CASE j.kind = "mark" /\ j.caller = "watcher"
    <3>1. cache' = [cache EXCEPT ![j.by] = Forget(@, j.src)]  BY <2>1
    <3>2. cache[j.by] \in Cache \cup {None} /\ j.src \in Files
      BY <1>1, <1>2, <2>1 DEF TypeOK, WellFormed
    <3>3. /\ Forget(cache[j.by], j.src) \in Cache \cup {None}
          /\ Forget(cache[j.by], j.src) # None =>
               /\ cache[j.by] # None
               /\ \A f \in Files : Forget(cache[j.by], j.src)[f] # None =>
                    Forget(cache[j.by], j.src)[f] = cache[j.by][f]
      BY <3>2 DEF Forget, Cache
    <3> QED  BY <1>2, <3>1, <3>3 DEF TypeOK, CacheFrom
  <2>2. CASE ~(j.kind = "mark" /\ j.caller = "watcher")  BY <2>2 DEF TypeOK, CacheFrom
  <2> QED  BY <2>1, <2>2
<1>8. rows' \in [Files -> SUBSET Row]
  <2>1. [by |-> j.by, status |-> status] \in Row  BY <1>2 DEF Row
  <2> QED  BY <2>1 DEF TypeOK
<1> QED  BY <1>5, <1>6, <1>7, <1>8

(* The cache goes on naming a file's own note when it takes nothing but    *)
(* notes of the file in, and a note that changes hands is recorded.        *)
KeepsOwners ==
  /\ displaced \subseteq displaced'
  /\ \A s \in Slugs : IsNote(s) =>
       (notes'[s] # None /\ notes'[s].src = notes[s].src) \/ notes[s].src \in displaced'

LEMMA OwnNoteKeeps ==
  ASSUME TypeOK, CacheNamesOwnNote, CacheFrom, KeepsOwners
  PROVE  CacheNamesOwnNote'
<1> SUFFICES ASSUME NEW p \in Procs, NEW f \in Files,
                    cache'[p] # None, cache'[p][f] # None
             PROVE  cache'[p][f] \in NotesOf(f)' \/ f \in displaced'
  BY DEF CacheNamesOwnNote
<1>1. cache'[p][f] \in NotesOf(f) \/ f \in displaced  BY DEF CacheFrom, CacheNamesOwnNote
<1>2. CASE f \in displaced  BY <1>2 DEF KeepsOwners
<1>3. CASE cache'[p][f] \in NotesOf(f)  BY <1>3 DEF KeepsOwners, NotesOf, IsNote
<1> QED  BY <1>1, <1>2, <1>3

-----------------------------------------------------------------------------
(* Inv holds initially.                                                    *)
LEMMA InitInv == Init => Inv
<1> SUFFICES ASSUME Init PROVE Inv  OBVIOUS
<1> USE Markers, FolderAssumption DEF Init
<1>1. notes \in [Slugs -> Note \cup {None}]
  <2>1. \A f \in Files : Present(f) => Fresh(f, disk[f]) \in Note  BY DEF Fresh, Note, Present
  <2> QED  BY <2>1
<1>2. past \in [Files -> SUBSET Contents]  OBVIOUS
<1>3. TypeOK  BY <1>1, <1>2 DEF TypeOK
<1>4. JobsOK /\ CacheNamesOwnNote  BY DEF JobsOK, CacheNamesOwnNote
<1> QED  BY <1>3, <1>4 DEF Inv

(* A change of the folder only sets timers.                                *)
LEMMA ObserveKeeps ==
  ASSUME Inv, NEW e \in Event, Observe(e),
         disk' \in [Files -> Contents \cup {None}], past' \in [Files -> SUBSET Contents]
  PROVE  Inv'
<1> USE DEF Inv, Observe
<1>1. TypeOK'
  <2>1. timers' \in [Procs -> SUBSET Event]  BY DEF TypeOK
  <2>2. FilesOf(e) \subseteq Files  BY DEF FilesOf, Event
  <2>3. rows' \in [Files -> SUBSET Row]  BY DEF TypeOK
  <2>4. lost' \subseteq Files /\ changes' \in 0 .. MaxChanges
    BY <2>2, FolderAssumption DEF TypeOK
  <2> QED  BY <2>1, <2>3, <2>4 DEF TypeOK
<1>2. JobsOK'  BY DEF JobsOK
<1>3. CacheNamesOwnNote'  BY DEF CacheNamesOwnNote, NotesOf, IsNote
<1> QED  BY <1>1, <1>2, <1>3

LEMMA FolderKeeps ==
  ASSUME Inv, NEW f \in Files, NEW g \in Files, NEW c \in Contents,
         Save(f, c) \/ Remove(f) \/ Rename(f, g)
  PROVE  Inv'
<1> USE DEF Inv
<1>1. CASE Save(f, c)
  <2>1. disk' \in [Files -> Contents \cup {None}] /\ past' \in [Files -> SUBSET Contents]
    BY <1>1 DEF Save, TypeOK
  <2> QED  BY <1>1, <2>1, ObserveKeeps DEF Save, Event
<1>2. CASE Remove(f)
  <2>1. disk' \in [Files -> Contents \cup {None}] /\ past' \in [Files -> SUBSET Contents]
    BY <1>2 DEF Remove, TypeOK
  <2> QED  BY <1>2, <2>1, ObserveKeeps DEF Remove, Event
<1>3. CASE Rename(f, g)
  <2>1. disk' \in [Files -> Contents \cup {None}] /\ past' \in [Files -> SUBSET Contents]
    BY <1>3 DEF Rename, TypeOK, Present
  <2> QED  BY <1>3, <2>1, ObserveKeeps DEF Rename, Event
<1> QED  BY <1>1, <1>2, <1>3

(* An edit of a note leaves it where it is.                                *)
LEMMA EditNoteKeeps ==
  ASSUME Inv, NEW s \in Slugs, EditNote(s)
  PROVE  Inv'
<1> USE Markers DEF Inv, EditNote
<1>1. edits + 1 \in 0 .. MaxEdits  BY FolderAssumption DEF TypeOK
<1>2. notes[s] \in Note  BY DEF TypeOK, IsNote
<1>3. PICK note \in Note : notes' = [notes EXCEPT ![s] = note] /\ note.src = notes[s].src
  <2>1. CASE notes' = [notes EXCEPT ![s].edit = edits + 1]
    BY <1>1, <1>2, <2>1 DEF Note
  <2>2. CASE notes' = [notes EXCEPT ![s].added = edits + 1]
    BY <1>1, <1>2, <2>2 DEF Note
  <2> QED  BY <2>1, <2>2
<1>4. TypeOK'
  <2>1. notes' \in [Slugs -> Note \cup {None}]  BY <1>3 DEF TypeOK
  <2> QED  BY <1>1, <2>1 DEF TypeOK
<1>5. JobsOK'  BY DEF JobsOK
<1>6. CacheFrom  BY DEF CacheFrom
<1>7. KeepsOwners
  <2>1. \A t \in Slugs : IsNote(t) => notes'[t] # None /\ notes'[t].src = notes[t].src
    BY <1>2, <1>3 DEF TypeOK, IsNote
  <2> QED  BY <2>1 DEF KeepsOwners
<1> QED  BY <1>4, <1>5, <1>6, <1>7, OwnNoteKeeps

(* What the cache may become when it is looked into.                       *)
LEMMA LookupsAreNotes ==
  ASSUME Inv, NEW p \in Procs, NEW c \in Lookups(p), cache' = [cache EXCEPT ![p] = c]
  PROVE  c \in Cache /\ CacheFrom
<1>1. c \in Cache  BY DEF Inv, TypeOK, Lookups, Indexes
<1>2. \A f \in Files : c[f] # None =>
        \/ cache[p] # None /\ cache[p][f] = c[f]
        \/ c[f] \in NotesOf(f)
  BY DEF Lookups, Indexes
<1> QED  BY <1>1, <1>2 DEF Inv, TypeOK, CacheFrom

(* A timer that fires starts a job or nothing.                             *)
LEMMA FiredKeeps ==
  ASSUME Inv, NEW p \in Procs, NEW e \in Event, Fired(p, e),
         cache' \in [Procs -> Cache \cup {None}], CacheFrom,
         jobs' \in [Jobs -> Job \cup {None}], JobsOK'
  PROVE  Inv'
<1> USE DEF Inv, Fired
<1>1. TypeOK'
  <2>1. timers' \in [Procs -> SUBSET Event]  BY DEF TypeOK
  <2> QED  BY <2>1 DEF TypeOK
<1>2. KeepsOwners  BY DEF KeepsOwners, IsNote
<1> QED  BY <1>1, <1>2, OwnNoteKeeps

LEMMA Schedules ==
  ASSUME Inv, UNCHANGED todo, NEW p \in Procs, NEW k \in Jobs, NEW job \in Job,
         WellFormed(job), Schedule(p, k, job)
  PROVE  jobs' \in [Jobs -> Job \cup {None}] /\ JobsOK'
<1>1. CASE p \in loops  BY <1>1, Begins DEF Schedule, Inv
<1>2. CASE p \notin loops  BY <1>2 DEF Schedule, Inv, TypeOK, JobsOK
<1> QED  BY <1>1, <1>2

LEMMA DispatchKeeps ==
  ASSUME Inv, NEW p \in Procs, Dispatch(p)
  PROVE  Inv'
<1>1. PICK e \in timers[p], k \in Jobs :
        \/ Unclaimed(p, e) \/ HandleCreate(p, e, k)
        \/ \E c \in Lookups(p) :
             HandleModify(p, e, k, c) \/ HandleGone(p, e, k, c) \/ HandleUnmapped(p, e, k, c)
  BY DEF Dispatch
<1>2. e \in Event /\ e.src \in Files /\ e.dest \in Files  BY DEF Inv, TypeOK, Event
<1>3. UNCHANGED todo  BY <1>1 DEF Unclaimed, HandleCreate, HandleModify, HandleGone, HandleUnmapped, Fired
<1>4. CASE Unclaimed(p, e)
  BY <1>2, <1>4, FiredKeeps DEF Unclaimed, Inv, TypeOK, JobsOK, CacheFrom, Fired
<1>5. CASE HandleCreate(p, e, k)
  <2>1. CacheFrom /\ cache' \in [Procs -> Cache \cup {None}]
    BY <1>5 DEF HandleCreate, CacheFrom, Inv, TypeOK
  <2> QED  BY <1>2, <1>3, <1>5, <2>1, IngestJobs, Schedules, FiredKeeps DEF HandleCreate
<1>6. ASSUME NEW c \in Lookups(p),
             HandleModify(p, e, k, c) \/ HandleGone(p, e, k, c) \/ HandleUnmapped(p, e, k, c)
      PROVE  Inv'
  <2>1. Fired(p, e) /\ cache' = [cache EXCEPT ![p] = c]
    BY <1>6 DEF HandleModify, HandleGone, HandleUnmapped
  <2>2. c \in Cache /\ CacheFrom  BY <2>1, LookupsAreNotes
  <2>3. cache' \in [Procs -> Cache \cup {None}]  BY <2>1, <2>2 DEF Inv, TypeOK
  <2>4. c[e.src] \in Slugs \cup {None}  BY <1>2, <2>2 DEF Cache
  <2>5. jobs' \in [Jobs -> Job \cup {None}] /\ JobsOK'
    <3>1. CASE HandleModify(p, e, k, c)
      <4> DEFINE job == IF c[e.src] = None THEN IngestJob(p, e.src)
                        ELSE NewJob("update", p, "watcher", e.src, c[e.src], None)
      <4>1. job \in Job /\ WellFormed(job)  BY <1>2, <2>4, IngestJobs, NewJobs
      <4>2. Schedule(p, k, job)  BY <3>1 DEF HandleModify
      <4> QED  BY <1>3, <4>1, <4>2, Schedules
    <3>2. CASE HandleGone(p, e, k, c)
      <4> DEFINE next == IF e.kind = "moved" /\ p \in loops THEN e.dest ELSE None
                 job == NewJob("mark", p, "watcher", e.src, c[e.src], next)
      <4>1. job \in Job /\ WellFormed(job)  BY <1>2, <2>4, <3>2, NewJobs DEF HandleGone
      <4>2. Begin(k, job)  BY <3>2 DEF HandleGone
      <4> QED  BY <1>3, <4>1, <4>2, Begins DEF Inv
    <3>3. CASE HandleUnmapped(p, e, k, c)
      <4>1. CASE Schedule(p, k, IngestJob(p, e.dest))  BY <1>2, <1>3, <4>1, IngestJobs, Schedules
      <4>2. CASE UNCHANGED jobs  BY <1>3, <4>2 DEF Inv, TypeOK, JobsOK
      <4> QED  BY <3>3, <4>1, <4>2 DEF HandleUnmapped
    <3> QED  BY <1>6, <3>1, <3>2, <3>3
  <2> QED  BY <1>2, <2>1, <2>2, <2>3, <2>5, FiredKeeps
<1> QED  BY <1>1, <1>4, <1>5, <1>6

-----------------------------------------------------------------------------
(* The tools start jobs that have read nothing.                            *)
LEMMA ToolsKeep ==
  ASSUME Inv, NEW p \in Procs, NEW s \in Slugs, NEW k \in Jobs,
         NEW kind \in {"restore", "delete"}, CallTool(p, kind, s, k)
  PROVE  Inv'
<1> USE Markers DEF Inv, CallTool
<1>1. NewJob(kind, p, "user", None, s, None) \in Job
      /\ WellFormed(NewJob(kind, p, "user", None, s, None))
  BY NewJobs
<1>2. jobs' \in [Jobs -> Job \cup {None}] /\ JobsOK'  BY <1>1, Begins
<1>3. TypeOK'
  <2>1. tools' \in 0 .. MaxTools  BY FolderAssumption DEF TypeOK
  <2> QED  BY <1>2, <2>1 DEF TypeOK
<1>4. CacheFrom /\ KeepsOwners  BY DEF CacheFrom, KeepsOwners, IsNote
<1> QED  BY <1>2, <1>3, <1>4, OwnNoteKeeps

LEMMA StartResyncKeeps ==
  ASSUME Inv, NEW p \in Procs, StartResync(p)
  PROVE  Inv'
<1> USE Markers DEF Inv
<1>1. PICK set \in SUBSET Job :
        /\ \A j \in set : WellFormed(j) /\ j.pc = "read"
        /\ todo' = [todo EXCEPT ![p] = set]
  <2>1. PICK c \in Indexes :
          LET found == {f \in Files : Present(f) /\ c[f] # None}
              gone == {s \in Slugs : /\ IsNote(s) /\ ~notes[s].orphaned
                                     /\ \A f \in found : s # c[f]} IN
          todo' = [todo EXCEPT ![p] =
            {NewJob("update", p, "resync", f, c[f], None) : f \in found}
              \cup {NewJob("mark", p, "resync", notes[s].src, s, None) : s \in gone}]
    BY DEF StartResync
  <2> DEFINE found == {f \in Files : Present(f) /\ c[f] # None}
             gone == {s \in Slugs : /\ IsNote(s) /\ ~notes[s].orphaned
                                    /\ \A f \in found : s # c[f]}
             updates == {NewJob("update", p, "resync", f, c[f], None) : f \in found}
             marks == {NewJob("mark", p, "resync", notes[s].src, s, None) : s \in gone}
  <2>2. \A j \in updates : j \in Job /\ WellFormed(j) /\ j.pc = "read"
    <3> SUFFICES ASSUME NEW f \in found
                 PROVE  LET j == NewJob("update", p, "resync", f, c[f], None) IN
                        j \in Job /\ WellFormed(j) /\ j.pc = "read"
      OBVIOUS
    <3>1. c[f] \in Slugs  BY DEF Indexes, Cache
    <3> QED  BY <3>1, NewJobs
  <2>3. \A j \in marks : j \in Job /\ WellFormed(j) /\ j.pc = "read"
    <3> SUFFICES ASSUME NEW s \in gone
                 PROVE  LET j == NewJob("mark", p, "resync", notes[s].src, s, None) IN
                        j \in Job /\ WellFormed(j) /\ j.pc = "read"
      OBVIOUS
    <3>1. notes[s].src \in Files  BY DEF TypeOK, IsNote, Note
    <3> QED  BY <3>1, NewJobs
  <2>4. todo' = [todo EXCEPT ![p] = updates \cup marks]  BY <2>1
  <2> HIDE DEF updates, marks
  <2> QED  BY <2>2, <2>3, <2>4
<1>2. /\ tools' \in 0 .. MaxTools
      /\ UNCHANGED <<disk, notes, running, loops, timers, cache, jobs, rows, past, lost, displaced,
                     changes, edits, errors, stops>>
  BY FolderAssumption DEF StartResync, TypeOK
<1>3. TypeOK'
  <2>1. todo' \in [Procs -> SUBSET Job]  BY <1>1 DEF TypeOK
  <2> QED  BY <1>2, <2>1 DEF TypeOK
<1>4. JobsOK'  BY <1>1, <1>2 DEF JobsOK, TypeOK
<1>5. CacheFrom /\ KeepsOwners  BY <1>2 DEF CacheFrom, KeepsOwners, IsNote
<1> QED  BY <1>3, <1>4, <1>5, OwnNoteKeeps

LEMMA ContinueResyncKeeps ==
  ASSUME Inv, NEW p \in Procs, ContinueResync(p)
  PROVE  Inv'
<1> USE Markers DEF Inv
<1>1. PICK job \in todo[p], k \in Jobs : NextOfResync(p, job, k)  BY DEF ContinueResync
<1>2. job \in Job /\ WellFormed(job)  BY DEF TypeOK, JobsOK
<1>3. /\ jobs[k] = None /\ jobs' = [jobs EXCEPT ![k] = job]
      /\ todo' = [todo EXCEPT ![p] = @ \ {job}]
      /\ UNCHANGED <<disk, notes, running, loops, timers, cache, rows, past, lost, displaced,
                     counters>>
  BY <1>1 DEF NextOfResync, Begin
<1>4. TypeOK'
  <2>1. jobs' \in [Jobs -> Job \cup {None}] /\ todo' \in [Procs -> SUBSET Job]
    BY <1>2, <1>3 DEF TypeOK
  <2> QED  BY <1>3, <2>1 DEF TypeOK
<1>5. JobsOK'  BY <1>2, <1>3 DEF JobsOK, TypeOK
<1>6. CacheFrom /\ KeepsOwners  BY <1>3 DEF CacheFrom, KeepsOwners, IsNote
<1> QED  BY <1>4, <1>5, <1>6, OwnNoteKeeps

-----------------------------------------------------------------------------
(* A job's step either goes on ...                                         *)
LEMMA GoOnKeeps ==
  ASSUME Inv, NEW k \in Jobs, NEW job \in Job, WellFormed(job), GoOn(k, job)
  PROVE  Inv'
<1> USE Markers DEF Inv, GoOn
<1>1. TypeOK'
  <2>1. jobs' \in [Jobs -> Job \cup {None}]  BY DEF TypeOK
  <2> QED  BY <2>1 DEF TypeOK
<1>2. JobsOK'  BY DEF JobsOK, TypeOK
<1>3. CacheFrom /\ KeepsOwners  BY DEF CacheFrom, KeepsOwners, IsNote
<1> QED  BY <1>1, <1>2, <1>3, OwnNoteKeeps

(* ... or ends, and may then have changed one note.                        *)
LEMMA FinishKeeps ==
  ASSUME Inv, NEW k \in Jobs, jobs[k] # None,
         NEW status \in {"ok", "failed", "skipped_duplicate"}, Finish(k, status),
         notes' \in [Slugs -> Note \cup {None}], displaced' \subseteq Files,
         errors' \in 0 .. MaxErrors, KeepsOwners
  PROVE  Inv'
<1> USE DEF Inv
<1>1. /\ jobs' \in [Jobs -> Job \cup {None}]
      /\ cache' \in [Procs -> Cache \cup {None}]
      /\ rows' \in [Files -> SUBSET Row]
      /\ JobsOK' /\ CacheFrom
  BY Finishes
<1>2. TypeOK'
  <2>1. UNCHANGED <<disk, running, loops, timers, todo, past, lost, changes, edits, tools, stops>>
    BY DEF Finish
  <2> QED  BY <1>1, <2>1 DEF TypeOK
<1> QED  BY <1>1, <1>2, OwnNoteKeeps

LEMMA EndKeeps ==
  ASSUME Inv, NEW k \in Jobs, jobs[k] # None,
         NEW status \in {"ok", "failed", "skipped_duplicate"}, End(k, status)
  PROVE  Inv'
<1>1. KeepsOwners  BY DEF End, KeepsOwners, IsNote
<1> QED  BY <1>1, FinishKeeps DEF End, Inv, TypeOK

LEMMA FailKeeps ==
  ASSUME Inv, NEW k \in Jobs, Fail(k)
  PROVE  Inv'
<1>1. KeepsOwners  BY DEF Fail, KeepsOwners, IsNote
<1>2. errors' \in 0 .. MaxErrors  BY FolderAssumption DEF Fail, Inv, TypeOK
<1> QED  BY <1>1, <1>2, FinishKeeps DEF Fail, Inv, TypeOK

(* A note that a job's note replaces, or that goes, is displaced.          *)
LEMMA Displaces ==
  ASSUME Inv, NEW s \in Slugs, NEW note \in Note \cup {None},
         notes' = [notes EXCEPT ![s] = note], Displace(s)
  PROVE  /\ notes' \in [Slugs -> Note \cup {None}] /\ displaced' \subseteq Files
         /\ KeepsOwners
<1> USE Markers DEF Inv, Displace
<1>1. notes' \in [Slugs -> Note \cup {None}]  BY DEF TypeOK
<1>2. displaced' \subseteq Files  BY DEF TypeOK, IsNote, Note
<1>3. KeepsOwners  BY DEF TypeOK, KeepsOwners, IsNote
<1> QED  BY <1>1, <1>2, <1>3

LEMMA IngestKeeps ==
  ASSUME Inv, NEW k \in Jobs,
         IngestRead(k) \/ IngestUnanswered(k) \/ (\E s \in Slugs : IngestCheck(k, s))
           \/ IngestLand(k) \/ IngestRollsBack(k)
  PROVE  Inv'
<1> USE Markers DEF AtPC
<1> DEFINE j == jobs[k]
<1>1. j \in Job /\ WellFormed(j) /\ j # None /\ j.kind = "ingest"
  BY DEF Inv, TypeOK, JobsOK, IngestRead, IngestUnanswered, IngestCheck, IngestLand, IngestRollsBack
<1>2. CASE IngestRead(k)
  <2>1. CASE End(k, "failed") \/ End(k, "skipped_duplicate")  BY <1>1, <2>1, EndKeeps
  <2>2. CASE Present(j.src) /\ GoOn(k, [j EXCEPT !.pc = "llm", !.content = disk[j.src]])
    <3>1. disk[j.src] \in Contents  BY <1>1, <2>2 DEF Inv, TypeOK, Present, WellFormed
    <3>2. /\ [j EXCEPT !.pc = "llm", !.content = disk[j.src]] \in Job
          /\ WellFormed([j EXCEPT !.pc = "llm", !.content = disk[j.src]])
      BY <1>1, <3>1 DEF Job, WellFormed
    <3> QED  BY <2>2, <3>2, GoOnKeeps
  <2> QED  BY <1>2, <2>1, <2>2 DEF IngestRead
<1>3. CASE IngestUnanswered(k)  BY <1>1, <1>3, EndKeeps DEF IngestUnanswered
<1>4. ASSUME NEW s \in Slugs, IngestCheck(k, s) PROVE Inv'
  <2>1. CASE End(k, "failed")  BY <1>1, <2>1, EndKeeps
  <2>2. CASE GoOn(k, [j EXCEPT !.pc = "apply", !.slug = s])
    <3>1. j.content \in Contents  BY <1>1, <1>4 DEF IngestCheck, WellFormed
    <3>2. /\ [j EXCEPT !.pc = "apply", !.slug = s] \in Job
          /\ WellFormed([j EXCEPT !.pc = "apply", !.slug = s])
      BY <1>1, <3>1 DEF Job, WellFormed
    <3> QED  BY <2>2, <3>2, GoOnKeeps
  <2> QED  BY <1>4, <2>1, <2>2 DEF IngestCheck
<1>5. CASE IngestLand(k)
  <2>1. j.slug \in Slugs /\ Fresh(j.src, j.content) \in Note
    BY <1>1, <1>5, FolderAssumption DEF IngestLand, WellFormed, Fresh, Note
  <2>2. /\ notes' \in [Slugs -> Note \cup {None}] /\ displaced' \subseteq Files
        /\ KeepsOwners
    BY <1>5, <2>1, Displaces DEF IngestLand
  <2> QED  BY <1>1, <1>5, <2>2, FinishKeeps DEF IngestLand, Inv, TypeOK
<1>6. CASE IngestRollsBack(k)
  <2>1. j.slug \in Slugs  BY <1>1, <1>6 DEF IngestRollsBack, WellFormed
  <2>2. /\ notes' \in [Slugs -> Note \cup {None}] /\ displaced' \subseteq Files
        /\ KeepsOwners
    BY <1>6, <2>1, Displaces DEF IngestRollsBack
  <2>3. errors' \in 0 .. MaxErrors  BY <1>6, FolderAssumption DEF IngestRollsBack, Inv, TypeOK
  <2> QED  BY <1>1, <1>6, <2>2, <2>3, FinishKeeps DEF IngestRollsBack
<1> QED  BY <1>2, <1>3, <1>4, <1>5, <1>6

(* The note a replacement leaves: the job's, or with a later addition.     *)
LEMMA Replacements ==
  ASSUME Inv, NEW k \in Jobs, AtPC(k, {"update", "mark", "restore"}, "apply"), Fits(jobs[k])
  PROVE  /\ jobs[k] \in Job /\ WellFormed(jobs[k]) /\ jobs[k].slug \in Slugs
         /\ jobs[k].old \in Note /\ Rewritten(jobs[k]) \in Note
         /\ notes[jobs[k].slug] \in Note /\ Replaced(jobs[k]) \in Note
         /\ notes[jobs[k].slug].src = jobs[k].old.src
         /\ notes[jobs[k].slug].hash = jobs[k].old.hash
         /\ Replaced(jobs[k]).src = Rewritten(jobs[k]).src
         /\ Replaced(jobs[k]).hash = Rewritten(jobs[k]).hash
<1> USE Markers DEF Inv, AtPC
<1> DEFINE j == jobs[k]  note == notes[j.slug]
<1>1. j \in Job /\ WellFormed(j) /\ j.kind \in {"update", "mark", "restore"} /\ j.pc = "apply"
  BY DEF TypeOK, JobsOK
<1>2. j.slug \in Slugs /\ j.old \in Note  BY <1>1 DEF WellFormed
<1>3. j.kind = "update" => j.src \in Files /\ j.content \in Contents  BY <1>1 DEF WellFormed
<1>4. note \in Note  BY <1>2 DEF TypeOK, Fits, IsNote
<1>5. note = [j.old EXCEPT !.added = note.added]  BY DEF Fits
<1>6. note.src = j.old.src /\ note.hash = j.old.hash  BY <1>2, <1>5 DEF Note
<1>7. Rewritten(j) \in Note
  <2>1. CASE j.kind = "mark"  BY <1>2, <2>1 DEF Rewritten, Note
  <2>2. CASE j.kind = "restore"  BY <1>2, <2>2 DEF Rewritten, Note
  <2>3. CASE j.kind = "update" /\ j.old.hash = j.content
    BY <1>2, <1>3, <2>3 DEF Rewritten, Note
  <2>4. CASE j.kind = "update" /\ j.old.hash # j.content
    <3>1. Fresh(j.src, j.content) \in Note
      BY <1>3, <2>4, FolderAssumption DEF Fresh, Note
    <3> QED  BY <2>4, <3>1 DEF Rewritten
  <2> QED  BY <1>1, <2>1, <2>2, <2>3, <2>4
<1>8. /\ Replaced(j) \in Note /\ Replaced(j).src = Rewritten(j).src
      /\ Replaced(j).hash = Rewritten(j).hash
  BY <1>4, <1>7 DEF Replaced, Note
<1> QED  BY <1>1, <1>2, <1>4, <1>6, <1>7, <1>8

LEMMA EditKeeps ==
  ASSUME Inv, NEW k \in Jobs,
         EditRead(k) \/ EditLand(k) \/ EditRefused(k) \/ DeleteMove(k)
  PROVE  Inv'
<1> USE Markers
<1> DEFINE j == jobs[k]
<1>1. j \in Job /\ WellFormed(j) /\ j # None
  BY DEF Inv, TypeOK, JobsOK, EditRead, EditLand, EditRefused, DeleteMove, AtPC
<1>2. CASE EditRead(k)
  <2> DEFINE job == [j EXCEPT !.pc = "apply", !.old = notes[j.slug],
                              !.content = IF j.kind = "update" THEN disk[j.src] ELSE None]
  <2>1. CASE End(k, "failed") \/ End(k, "ok")  BY <1>1, <2>1, EndKeeps
  <2>2. CASE /\ ~(notes[j.slug] = None \/ (j.kind = "update" /\ ~Present(j.src)))
             /\ GoOn(k, job)
    <3>1. j.kind \in {"update", "mark", "restore", "delete"}  BY <1>2 DEF EditRead, AtPC
    <3>2. j.slug \in Slugs  BY <1>1, <3>1 DEF WellFormed
    <3>3. notes[j.slug] \in Note  BY <2>2, <3>2 DEF Inv, TypeOK
    <3>4. j.kind = "update" => disk[j.src] \in Contents
      BY <1>1, <2>2 DEF Inv, TypeOK, Present, WellFormed
    <3>5. job \in Job /\ WellFormed(job)
      BY <1>1, <3>1, <3>2, <3>3, <3>4 DEF Job, WellFormed
    <3> QED  BY <2>2, <3>5, GoOnKeeps
  <2> QED  BY <1>2, <2>1, <2>2 DEF EditRead
<1>3. CASE EditLand(k)
  <2> DEFINE s == j.slug  new == Replaced(j)
  <2>1. /\ s \in Slugs /\ new \in Note /\ j.old \in Note /\ notes[s] \in Note
        /\ notes[s].src = j.old.src /\ new.src = Rewritten(j).src
    BY <1>3, Replacements DEF EditLand
  <2>2. /\ notes' = [notes EXCEPT ![s] = new]
        /\ displaced' = displaced \cup ({j.old.src} \ {new.src})
    BY <1>3, <2>1 DEF EditLand
  <2> HIDE DEF new
  <2>3. notes' \in [Slugs -> Note \cup {None}]  BY <2>1, <2>2 DEF Inv, TypeOK
  <2>4. displaced' \subseteq Files  BY <2>1, <2>2 DEF Inv, TypeOK, Note
  <2>5. KeepsOwners  BY <2>1, <2>2 DEF KeepsOwners, IsNote, Inv, TypeOK
  <2> QED  BY <1>1, <1>3, <2>3, <2>4, <2>5, FinishKeeps DEF EditLand, Inv, TypeOK
<1>4. CASE EditRefused(k)  BY <1>1, <1>4, EndKeeps DEF EditRefused
<1>5. CASE DeleteMove(k)
  <2>1. j.slug \in Slugs  BY <1>1, <1>5 DEF DeleteMove, AtPC, WellFormed
  <2>2. /\ notes' \in [Slugs -> Note \cup {None}] /\ displaced' \subseteq Files
        /\ KeepsOwners
    BY <1>5, <2>1, Displaces DEF DeleteMove
  <2> QED  BY <1>1, <1>5, <2>2, FinishKeeps DEF DeleteMove, Inv, TypeOK
<1> QED  BY <1>2, <1>3, <1>4, <1>5

-----------------------------------------------------------------------------
(* A death, a boot and a restart of the watcher empty caches and slots.    *)
LEMMA ProcessKeeps ==
  ASSUME Inv, NEW p \in Procs, Die(p) \/ Boot(p) \/ Restart(p)
  PROVE  Inv'
<1> USE Markers DEF Inv
<1>1. /\ stops' \in 0 .. MaxStops
      /\ running' \subseteq Procs /\ loops' \subseteq running'
      /\ timers' \in [Procs -> SUBSET Event]
      /\ cache' \in [Procs -> Cache \cup {None}]
      /\ todo' \in [Procs -> SUBSET Job]
  BY FolderAssumption DEF Die, Boot, Restart, TypeOK
<1>2. lost' \subseteq Files
  <2>1. InHand(p) \subseteq Files  BY DEF TypeOK, InHand, FilesOf, Event
  <2>2. WorkedOn(p) \subseteq Files
    <3>1. \A k \in Active : jobs[k].src \in Files \cup {None} /\ jobs[k].next \in Files \cup {None}
      BY DEF TypeOK, Active, Job
    <3> QED  BY <3>1 DEF WorkedOn
  <2> QED  BY <2>1, <2>2 DEF Die, Boot, Restart, TypeOK
<1>3. \A k \in Jobs : /\ jobs'[k] \in Job \cup {None}
                      /\ jobs'[k] # None => WellFormed(jobs'[k])
  <2> SUFFICES ASSUME NEW k \in Jobs
               PROVE  /\ jobs'[k] \in Job \cup {None}
                      /\ jobs'[k] # None => WellFormed(jobs'[k])
    OBVIOUS
  <2>1. jobs[k] \in Job \cup {None} /\ (jobs[k] # None => WellFormed(jobs[k]))
    BY DEF TypeOK, JobsOK
  <2>2. CASE jobs'[k] \in {None, jobs[k]}  BY <2>1, <2>2
  <2>3. CASE jobs[k] # None /\ jobs'[k] = [jobs[k] EXCEPT !.caller = "stopped"]
    BY <2>1, <2>3 DEF Job, WellFormed
  <2> QED  BY <2>2, <2>3 DEF Die, Boot, Restart
<1>4. DOMAIN jobs' = Jobs /\ jobs' = [k \in Jobs |-> jobs'[k]]
  BY DEF Die, Boot, Restart, TypeOK
<1>5. TypeOK'
  <2>1. jobs' \in [Jobs -> Job \cup {None}]  BY <1>3, <1>4
  <2>2. UNCHANGED <<disk, notes, rows, past, displaced, changes, edits, tools, errors>>
    BY DEF Die, Boot, Restart
  <2> QED  BY <1>1, <1>2, <2>1, <2>2 DEF TypeOK
<1>6. JobsOK'
  <2>1. \A q \in Procs : todo'[q] \subseteq todo[q]  BY DEF Die, Boot, Restart, TypeOK
  <2> QED  BY <1>3, <2>1 DEF JobsOK
<1>7. CacheFrom  BY DEF CacheFrom, Die, Boot, Restart, TypeOK
<1>8. KeepsOwners  BY DEF KeepsOwners, IsNote, Die, Boot, Restart
<1> QED  BY <1>5, <1>6, <1>7, <1>8, OwnNoteKeeps

LEMMA NextKeeps == Inv /\ [Next]_vars => Inv'
<1> SUFFICES ASSUME Inv, [Next]_vars PROVE Inv'  OBVIOUS
<1>1. CASE UNCHANGED vars
  BY <1>1 DEF vars, Inv, TypeOK, JobsOK, CacheNamesOwnNote, NotesOf, IsNote
<1>2. CASE User
  <2>1. ASSUME NEW f \in Files, Remove(f) PROVE Inv'
    <3>1. Present(f)  BY <2>1 DEF Remove
    <3>2. disk[f] \in Contents  BY <3>1 DEF Present, Inv, TypeOK
    <3> QED  BY <2>1, <3>2, FolderKeeps
  <2>2. ASSUME NEW f \in Files, NEW c \in Contents, Save(f, c) PROVE Inv'
    BY <2>2, FolderKeeps
  <2>3. ASSUME NEW f \in Files, NEW g \in Files, Rename(f, g) PROVE Inv'
    <3>1. Present(f)  BY <2>3 DEF Rename
    <3>2. disk[f] \in Contents  BY <3>1 DEF Present, Inv, TypeOK
    <3> QED  BY <2>3, <3>2, FolderKeeps
  <2>4. running \subseteq Procs  BY DEF Inv, TypeOK
  <2> QED  BY <1>2, <2>1, <2>2, <2>3, <2>4, EditNoteKeeps, ToolsKeep, StartResyncKeeps DEF User
<1>3. ASSUME NEW p \in Procs, Dispatch(p) \/ ContinueResync(p) \/ Die(p) \/ Boot(p) \/ Restart(p)
      PROVE  Inv'
  BY <1>3, DispatchKeeps, ContinueResyncKeeps, ProcessKeeps
<1>4. ASSUME NEW k \in Jobs, JobStep(k) \/ Fail(k) \/ IngestRollsBack(k)
      PROVE  Inv'
  BY <1>4, IngestKeeps, EditKeeps, FailKeeps DEF JobStep
<1> QED  BY <1>1, <1>2, <1>3, <1>4 DEF Next

-----------------------------------------------------------------------------
(* A job whose note changes in a step was about to write it, and knew what *)
(* it writes over.                                                         *)
Knew(s) ==
  \E k \in Active :
    /\ jobs[k].slug = s /\ jobs[k].pc = "apply" /\ jobs'[k] # jobs[k]
    /\ jobs[k].kind \in {"update", "mark", "restore"} =>
         \/ notes[s] = jobs[k].old
         \/ /\ notes[s] = [jobs[k].old EXCEPT !.added = notes[s].added]
            /\ IsNote(s)' /\ notes'[s].added = notes[s].added

(* The slot of a job that ends does not hold it any more.                  *)
LEMMA SlotChanges ==
  ASSUME Inv, NEW k \in Jobs, jobs[k] # None, jobs[k].pc = "apply",
         NEW status \in {"ok", "failed", "skipped_duplicate"}, Finish(k, status)
  PROVE  k \in Active /\ jobs'[k] # jobs[k]
<1>1. \A q \in Procs, f \in Files : IngestJob(q, f) # jobs[k]  BY IngestJobs
<1>2. jobs[k].by \in Procs /\ jobs[k].next \in Files \cup {None}  BY DEF Inv, TypeOK, Job
<1>3. jobs'[k] = IF jobs[k].next # None /\ disk[jobs[k].next] # None
                 THEN IngestJob(jobs[k].by, jobs[k].next) ELSE None
  BY DEF Finish, Inv, TypeOK
<1> QED  BY <1>1, <1>2, <1>3 DEF Active

LEMMA NobodyOverwrites ==
  ASSUME Inv, [Next]_vars, edits' = edits, NEW s \in Slugs, IsNote(s), notes'[s] # notes[s]
  PROVE  Knew(s)
<1> USE Markers
<1>1. CASE User
  <2>1. UNCHANGED notes
    <3>1. ASSUME NEW t \in Slugs, EditNote(t) PROVE FALSE
      BY <3>1, FolderAssumption DEF EditNote, Inv, TypeOK
    <3> QED  BY <1>1, <3>1 DEF User, Remove, Save, Rename, Observe, CallTool, StartResync
  <2> QED  BY <2>1
<1>2. ASSUME NEW p \in Procs, Dispatch(p) \/ ContinueResync(p) \/ Die(p) \/ Boot(p) \/ Restart(p)
      PROVE  UNCHANGED notes
  BY <1>2 DEF Dispatch, Unclaimed, HandleCreate, HandleModify, HandleGone, HandleUnmapped, Fired,
              ContinueResync, NextOfResync, Die, Boot, Restart
<1>3. ASSUME NEW k \in Jobs, JobStep(k) \/ Fail(k) \/ IngestRollsBack(k) PROVE Knew(s)
  <2>1. CASE IngestRead(k) \/ IngestUnanswered(k) \/ (\E t \in Slugs : IngestCheck(k, t))
               \/ EditRead(k) \/ EditRefused(k) \/ Fail(k)
    <3>1. UNCHANGED notes
      BY <2>1 DEF IngestRead, IngestUnanswered, IngestCheck, EditRead, EditRefused, Fail, End, GoOn
    <3> QED  BY <3>1
  <2>2. CASE IngestLand(k) \/ IngestRollsBack(k) \/ DeleteMove(k)
    <3>1. /\ jobs[k] # None /\ jobs[k].pc = "apply" /\ jobs[k].kind \in {"ingest", "delete"}
          /\ Finish(k, "ok") \/ Finish(k, "failed")
          /\ \E note : notes' = [notes EXCEPT ![jobs[k].slug] = note]
      BY <2>2 DEF IngestLand, IngestRollsBack, DeleteMove, AtPC
    <3>2. jobs[k].slug = s  BY <3>1
    <3>3. k \in Active /\ jobs'[k] # jobs[k]  BY <3>1, SlotChanges
    <3> QED  BY <3>1, <3>2, <3>3 DEF Knew
  <2>3. CASE EditLand(k)
    <3> DEFINE j == jobs[k]
    <3>1. /\ j # None /\ j.pc = "apply" /\ Finish(k, "ok")
          /\ Fits(j) /\ notes' = [notes EXCEPT ![j.slug] = Replaced(j)]
      BY <2>3 DEF EditLand, AtPC
    <3>2. j.slug = s  BY <3>1
    <3>3. k \in Active /\ jobs'[k] # j  BY <3>1, SlotChanges
    <3>4. Rewritten(j) \in Note /\ Replaced(j) \in Note  BY <2>3, Replacements DEF EditLand
    <3>5. CASE notes[s] = j.old  BY <3>1, <3>2, <3>3, <3>5 DEF Knew
    <3>6. CASE notes[s] # j.old
      <4>1. notes'[s] = Replaced(j)  BY <3>1, <3>2 DEF Inv, TypeOK
      <4>2. Replaced(j) = [Rewritten(j) EXCEPT !.added = notes[s].added]
        BY <3>2, <3>6 DEF Replaced
      <4>3. IsNote(s)' /\ notes'[s].added = notes[s].added
        BY <3>4, <4>1, <4>2 DEF IsNote, Note
      <4>4. notes[s] = [j.old EXCEPT !.added = notes[s].added]  BY <3>1, <3>2 DEF Fits
      <4> QED  BY <3>1, <3>2, <3>3, <4>3, <4>4 DEF Knew
    <3> QED  BY <3>5, <3>6
  <2> QED  BY <1>3, <2>1, <2>2, <2>3 DEF JobStep
<1>4. Next  BY DEF vars
<1> QED  BY <1>1, <1>2, <1>3, <1>4 DEF Next

-----------------------------------------------------------------------------
LEMMA Invariant == Spec => []Inv
  BY InitInv, NextKeeps, PTL DEF Spec

(* The type invariant holds in every reachable state.                      *)
THEOREM TypeCorrect == Spec => []TypeOK
<1>1. Inv => TypeOK  BY DEF Inv
<1> QED  BY <1>1, Invariant, PTL

(* Whatever other jobs, other processes and the user do to the notes, the  *)
(* watcher's cache names a file's own note or one the file has lost.       *)
THEOREM CacheCorrect == Spec => []CacheNamesOwnNote
<1>1. Inv => CacheNamesOwnNote  BY DEF Inv
<1> QED  BY <1>1, Invariant, PTL

(* A job that writes a note has read what it writes over, or keeps it.     *)
THEOREM NothingUnreadCorrect == Spec => NothingUnreadIsLost
<1> DEFINE Careful == \A s \in Slugs : IsNote(s) /\ notes'[s] # notes[s] /\ edits' = edits => Knew(s)
<1>1. Inv /\ [Next]_vars => [Careful]_vars
  <2> SUFFICES ASSUME Inv, Next PROVE Careful  OBVIOUS
  <2> QED  BY NobodyOverwrites
<1>2. Spec => [][Careful]_vars  BY <1>1, Invariant, PTL DEF Spec
<1> QED  BY <1>2 DEF NothingUnreadIsLost, Knew

-----------------------------------------------------------------------------
(* The source is canonical.  A text a job or a note has is one the file    *)
(* has had, so that a text that never comes back cannot be overwritten by  *)
(* an older one: an update whose text is no longer the file's found a note *)
(* that does not show the file either.                                     *)
Grounded(j) ==
  j.pc # "read" =>
    /\ j.kind # "ingest" => j.old.hash \in past[j.old.src]
    /\ j.kind \in {"ingest", "update"} => j.content \in past[j.src]
    /\ j.kind = "update" => \/ j.content = disk[j.src]
                            \/ j.old.src # j.src
                            \/ j.old.hash # disk[j.src]

History ==
  /\ \A f \in Files : Present(f) => disk[f] \in past[f]
  /\ \A s \in Slugs : IsNote(s) => notes[s].hash \in past[notes[s].src]
  /\ \A k \in Jobs : jobs[k] # None => Grounded(jobs[k])

(* What is still on its way to a file's note: an event that a timer holds, *)
(* a job that has the file's text or has yet to read it.                   *)
Carries(e, f) == IF e.kind = "moved" THEN e.dest = f ELSE e.kind # "deleted" /\ e.src = f
Brings(j, f) ==
  \/ j.kind = "mark" /\ j.next = f
  \/ j.kind \in {"ingest", "update"} /\ j.src = f /\ (j.pc = "read" \/ j.content = disk[f])
Waiting(f) == \E p \in Answering \cap loops : \E e \in timers[p] : Carries(e, f)
Bringing(f) == \E k \in Jobs : jobs[k] # None /\ jobs[k].by \in Answering /\ Brings(jobs[k], f)

Accounted(f) == Shown(f) \/ Reported(f) \/ Waiting(f) \/ Bringing(f)
Answered == \A f \in Files : Present(f) /\ f \notin lost \cup displaced => Accounted(f)

CInv == Inv /\ History /\ Answered

LEMMA InitCanonical == Init => CInv
<1> SUFFICES ASSUME Init PROVE CInv  OBVIOUS
<1> USE Markers DEF Init
<1>1. Inv  BY InitInv
<1>2. \A s \in Slugs : IsNote(s) => /\ notes[s].src \in Files /\ Present(notes[s].src)
                                    /\ notes[s].hash = disk[notes[s].src]
  <2> SUFFICES ASSUME NEW s \in Slugs, IsNote(s)
               PROVE  /\ notes[s].src \in Files /\ Present(notes[s].src)
                      /\ notes[s].hash = disk[notes[s].src]
    OBVIOUS
  <2>1. PICK f \in Files : Present(f) /\ notes[s] = Fresh(f, disk[f])  BY DEF IsNote
  <2> QED  BY <2>1 DEF Fresh
<1>3. History  BY <1>2 DEF History, Present
<1>4. Answered
  <2> SUFFICES ASSUME NEW f \in Files, Present(f) PROVE Shown(f)
    BY DEF Answered, Accounted
  <2>1. NotesOf(f) # {}
    <3>1. Cardinality(NotesOf(f)) = 1  OBVIOUS
    <3>2. Cardinality({}) = 0  BY FS_EmptySet
    <3> HIDE DEF Init
    <3> QED  BY <3>1, <3>2
  <2> QED  BY <1>2, <2>1 DEF Shown, NotesOf
<1> QED  BY <1>1, <1>3, <1>4 DEF CInv

(* A change of the folder: the file gets a text it has not had, and an     *)
(* event for it, or no process is left that would handle one.              *)
FreshText ==
  \A f \in Files : /\ past[f] \subseteq past'[f]
                   /\ disk'[f] # None => disk'[f] \in past'[f]
                   /\ disk'[f] = disk[f] \/ disk'[f] = None \/ disk'[f] \notin past[f]

LEMMA ObserveHistory ==
  ASSUME Inv, History, FreshText, UNCHANGED <<notes, jobs>>
  PROVE  History'
<1> USE Markers DEF Inv
<1>1. \A s \in Slugs : IsNote(s) => notes[s].src \in Files  BY DEF TypeOK, IsNote, Note
<1>2. ASSUME NEW k \in Jobs, jobs[k] # None, jobs[k].pc # "read"
      PROVE  LET j == jobs[k] IN
             /\ j.kind # "ingest" => j.old.hash \in past'[j.old.src]
             /\ j.kind \in {"ingest", "update"} => j.content \in past'[j.src]
             /\ j.kind = "update" => \/ j.content = disk'[j.src]
                                     \/ j.old.src # j.src
                                     \/ j.old.hash # disk'[j.src]
  <2> DEFINE j == jobs[k]
  <2>1. WellFormed(j) /\ Grounded(j)  BY <1>2 DEF JobsOK, History
  <2>2. j.kind # "ingest" => j.old.src \in Files /\ j.old.hash \in Contents
    BY <1>2, <2>1 DEF WellFormed, Note
  <2>3. j.kind \in {"ingest", "update"} => j.src \in Files  BY <2>1 DEF WellFormed
  <2>4. j.kind # "ingest" => j.old.hash \in past[j.old.src]  BY <1>2, <2>1 DEF Grounded
  <2>5. j.kind \in {"ingest", "update"} => j.content \in past[j.src]  BY <1>2, <2>1 DEF Grounded
  <2>6. j.kind = "update" => \/ j.content = disk[j.src]
                             \/ j.old.src # j.src
                             \/ j.old.hash # disk[j.src]
    BY <1>2, <2>1 DEF Grounded
  <2>7. j.kind = "update" => \/ j.content = disk'[j.src]
                             \/ j.old.src # j.src
                             \/ j.old.hash # disk'[j.src]
    BY <2>2, <2>3, <2>4, <2>6 DEF FreshText
  <2> QED  BY <2>2, <2>3, <2>4, <2>5, <2>7 DEF FreshText
<1>3. \A k \in Jobs : jobs'[k] # None => Grounded(jobs[k])'  BY <1>2 DEF Grounded
<1> QED  BY <1>1, <1>3 DEF History, FreshText, Present, IsNote

LEMMA ObserveAnswered ==
  ASSUME Inv, Answered, NEW e \in Event, Observe(e),
         \A f \in Files \ FilesOf(e) : disk'[f] = disk[f],
         \A f \in FilesOf(e) : disk'[f] # None => Carries(e, f)
  PROVE  Answered'
<1> USE Markers DEF Inv, Observe
<1> SUFFICES ASSUME NEW f \in Files, disk'[f] # None, f \notin lost', f \notin displaced
             PROVE  Accounted(f)'
  BY DEF Answered, Present
<1>1. CASE f \in FilesOf(e)
  <2>1. PICK p \in loops \cap Answering : TRUE  BY <1>1
  <2>2. e \in timers'[p]  BY <2>1 DEF TypeOK
  <2>3. Carries(e, f)  BY <1>1
  <2> QED  BY <2>1, <2>2, <2>3 DEF Accounted, Waiting, Carries
<1>2. CASE f \notin FilesOf(e)
  <2>1. disk'[f] = disk[f] /\ rows'[f] = rows[f] /\ f \notin lost  BY <1>2 DEF TypeOK
  <2>2. Accounted(f)  BY <2>1 DEF Answered, Present
  <2>3. CASE Shown(f)  BY <2>1, <2>3 DEF Accounted, Shown, NotesOf, IsNote
  <2>4. CASE Reported(f)  BY <2>1, <2>4 DEF Accounted, Reported
  <2>5. CASE Waiting(f)
    <3>1. PICK p \in Answering \cap loops : \E d \in timers[p] : Carries(d, f)  BY <2>5 DEF Waiting
    <3>2. PICK d \in timers[p] : Carries(d, f)  BY <3>1
    <3>3. ~SameKey(d, e)  BY <1>2, <3>2 DEF Carries, SameKey, FilesOf
    <3>4. d \in timers'[p]  BY <3>1, <3>2, <3>3 DEF TypeOK
    <3> QED  BY <3>1, <3>2, <3>4 DEF Accounted, Waiting, Carries
  <2>6. CASE Bringing(f)
    <3>1. PICK k \in Jobs : jobs[k] # None /\ jobs[k].by \in Answering /\ Brings(jobs[k], f)
      BY <2>6 DEF Bringing
    <3>2. Brings(jobs[k], f)'  BY <2>1, <3>1 DEF Brings
    <3> QED  BY <3>1, <3>2 DEF Accounted, Bringing
  <2> QED  BY <2>2, <2>3, <2>4, <2>5, <2>6 DEF Accounted
<1> QED  BY <1>1, <1>2

LEMMA FolderCanonical ==
  ASSUME ~Reverts, CInv, NEW f \in Files, NEW g \in Files, NEW c \in Contents,
         Save(f, c) \/ Remove(f) \/ Rename(f, g)
  PROVE  History' /\ Answered'
<1> USE Markers DEF CInv, Inv
<1>1. CASE Save(f, c)
  <2> DEFINE e == [kind |-> IF Present(f) THEN "modified" ELSE "created", src |-> f, dest |-> f]
  <2>1. /\ Observe(e) /\ e \in Event /\ FilesOf(e) = {f} /\ Carries(e, f)
        /\ disk' = [disk EXCEPT ![f] = c] /\ past' = [past EXCEPT ![f] = @ \cup {c}]
    BY <1>1 DEF Save, Event, FilesOf, Carries
  <2>2. FreshText  BY <1>1, <2>1 DEF FreshText, TypeOK, History, Present, Save, MayHold
  <2>3. UNCHANGED <<notes, jobs>>  BY <2>1 DEF Observe
  <2> HIDE DEF e
  <2>4. Answered'
    <3>1. \A h \in Files \ FilesOf(e) : disk'[h] = disk[h]  BY <2>1 DEF TypeOK
    <3>2. \A h \in FilesOf(e) : disk'[h] # None => Carries(e, h)  BY <2>1
    <3> QED  BY <2>1, <3>1, <3>2, ObserveAnswered
  <2> QED  BY <2>2, <2>3, <2>4, ObserveHistory
<1>2. CASE Remove(f)
  <2> DEFINE e == [kind |-> "deleted", src |-> f, dest |-> f]
  <2>1. /\ Observe(e) /\ e \in Event /\ FilesOf(e) = {f}
        /\ disk' = [disk EXCEPT ![f] = None] /\ past' = past
    BY <1>2 DEF Remove, Event, FilesOf
  <2>2. FreshText  BY <2>1 DEF FreshText, TypeOK, History, Present
  <2>3. UNCHANGED <<notes, jobs>>  BY <2>1 DEF Observe
  <2> HIDE DEF e
  <2>4. Answered'
    <3>1. \A h \in Files \ FilesOf(e) : disk'[h] = disk[h]  BY <2>1 DEF TypeOK
    <3>2. \A h \in FilesOf(e) : disk'[h] # None => Carries(e, h)  BY <2>1 DEF TypeOK
    <3> QED  BY <2>1, <3>1, <3>2, ObserveAnswered
  <2> QED  BY <2>2, <2>3, <2>4, ObserveHistory
<1>3. CASE Rename(f, g)
  <2> DEFINE e == [kind |-> "moved", src |-> f, dest |-> g]
  <2>1. /\ Observe(e) /\ e \in Event /\ FilesOf(e) = {f, g} /\ Carries(e, g) /\ f # g
        /\ disk' = [disk EXCEPT ![f] = None, ![g] = disk[f]]
        /\ past' = [past EXCEPT ![g] = @ \cup {disk[f]}]
    BY <1>3 DEF Rename, Event, FilesOf, Carries
  <2>2. FreshText  BY <1>3, <2>1 DEF FreshText, TypeOK, History, Present, Rename, MayHold
  <2>3. UNCHANGED <<notes, jobs>>  BY <2>1 DEF Observe
  <2> HIDE DEF e
  <2>4. Answered'
    <3>1. \A h \in Files \ FilesOf(e) : disk'[h] = disk[h]  BY <2>1 DEF TypeOK
    <3>2. \A h \in FilesOf(e) : disk'[h] # None => Carries(e, h)  BY <2>1 DEF TypeOK
    <3> QED  BY <2>1, <3>1, <3>2, ObserveAnswered
  <2> QED  BY <2>2, <2>3, <2>4, ObserveHistory
<1> QED  BY <1>1, <1>2, <1>3

(* The folder as it is, a note that shows its file goes on showing it and  *)
(* what is on its way stays on its way, arrives or is reported.            *)
KeepsText ==
  \A s \in Slugs : IsNote(s) /\ notes[s].src \notin displaced' =>
    /\ notes'[s] # None /\ notes'[s].src = notes[s].src
    /\ notes[s].hash = disk[notes[s].src] => notes'[s].hash = disk[notes[s].src]

MovesOn ==
  \A f \in Files : Present(f) /\ f \notin lost' \cup displaced' /\ (Waiting(f) \/ Bringing(f)) =>
    \/ \E s \in Slugs : notes'[s] # None /\ notes'[s].src = f /\ notes'[s].hash = disk[f]
    \/ \E row \in rows'[f] : row.by \in Answering /\ row.status # "ok"
    \/ \E p \in Answering \cap loops' : \E e \in timers'[p] : Carries(e, f)
    \/ \E k \in Jobs : jobs'[k] # None /\ jobs'[k].by \in Answering /\ Brings(jobs'[k], f)

LEMMA AnsweredKeeps ==
  ASSUME Answered, UNCHANGED disk, lost \subseteq lost', displaced \subseteq displaced',
         \A f \in Files : rows[f] \subseteq rows'[f], KeepsText, MovesOn
  PROVE  Answered'
<1> SUFFICES ASSUME NEW f \in Files, Present(f), f \notin lost' \cup displaced'
             PROVE  Accounted(f)'
  BY DEF Answered, Present
<1>1. Accounted(f)  BY DEF Answered
<1>2. CASE Shown(f)  BY <1>2 DEF Accounted, Shown, NotesOf, IsNote, KeepsText
<1>3. CASE Reported(f)  BY <1>3 DEF Accounted, Reported
<1>4. CASE Waiting(f) \/ Bringing(f)
  <2>1. CASE \E s \in Slugs : notes'[s] # None /\ notes'[s].src = f /\ notes'[s].hash = disk[f]
    BY <2>1 DEF Accounted, Shown, NotesOf, IsNote
  <2>2. CASE \E row \in rows'[f] : row.by \in Answering /\ row.status # "ok"
    BY <2>2 DEF Accounted, Reported
  <2>3. CASE \E p \in Answering \cap loops' : \E e \in timers'[p] : Carries(e, f)
    BY <2>3 DEF Accounted, Waiting, Carries
  <2>4. CASE \E k \in Jobs : jobs'[k] # None /\ jobs'[k].by \in Answering /\ Brings(jobs'[k], f)
    BY <2>4 DEF Accounted, Bringing, Brings
  <2> QED  BY <1>4, <2>1, <2>2, <2>3, <2>4 DEF MovesOn
<1> QED  BY <1>1, <1>2, <1>3, <1>4 DEF Accounted

(* Where the notes and the rows stay, only what is on its way matters.     *)
LEMMA StillCanonical ==
  ASSUME History, Answered, UNCHANGED <<disk, notes, past, rows, displaced>>,
         lost \subseteq lost', MovesOn,
         \A k \in Jobs : jobs'[k] # None => Grounded(jobs'[k])
  PROVE  History' /\ Answered'
<1>1. \A k \in Jobs : jobs'[k] # None => Grounded(jobs[k])'  BY DEF Grounded
<1>2. History'  BY <1>1 DEF History, Present, IsNote
<1>3. KeepsText  BY DEF KeepsText, IsNote
<1> QED  BY <1>2, <1>3, AnsweredKeeps

(* A new job in a free slot takes nothing away.                            *)
LEMMA BeginCanonical ==
  ASSUME CInv, NEW k \in Jobs, NEW job, Begin(k, job), job.pc = "read",
         UNCHANGED <<disk, notes, loops, timers, past, rows, lost, displaced>>
  PROVE  History' /\ Answered'
<1> USE Markers DEF CInv, Inv, Begin
<1>1. \A i \in Jobs : i # k => jobs'[i] = jobs[i]  BY DEF TypeOK
<1>2. jobs'[k] = job  BY DEF TypeOK
<1>3. \A i \in Jobs : jobs'[i] # None => Grounded(jobs'[i])  BY <1>1, <1>2 DEF History, Grounded
<1>4. MovesOn
  <2> SUFFICES ASSUME NEW f \in Files, Waiting(f) \/ Bringing(f)
               PROVE  \/ \E p \in Answering \cap loops' : \E e \in timers'[p] : Carries(e, f)
                      \/ \E i \in Jobs : /\ jobs'[i] # None /\ jobs'[i].by \in Answering
                                         /\ Brings(jobs'[i], f)
    BY DEF MovesOn
  <2>1. CASE Waiting(f)  BY <2>1 DEF Waiting
  <2>2. CASE Bringing(f)  BY <1>1, <2>2 DEF Bringing
  <2> QED  BY <2>1, <2>2
<1> QED  BY <1>3, <1>4, StillCanonical

(* An event that fires hands the file over to a job.                       *)
LEMMA FiredCanonical ==
  ASSUME CInv, NEW p \in Procs, NEW e \in Event, Fired(p, e),
         \A i \in Jobs : jobs[i] # None => jobs'[i] = jobs[i],
         \A i \in Jobs : jobs[i] = None /\ jobs'[i] # None => jobs'[i].pc = "read",
         \A f \in Files : p \in Answering \cap loops /\ Carries(e, f) /\ Present(f) =>
           \E i \in Jobs : jobs'[i] # None /\ jobs'[i].by = p /\ Brings(jobs'[i], f)
  PROVE  History' /\ Answered'
<1> USE Markers DEF CInv, Inv, Fired
<1>1. \A i \in Jobs : jobs'[i] # None => Grounded(jobs'[i])  BY DEF History, Grounded
<1>2. MovesOn
  <2> SUFFICES ASSUME NEW f \in Files, Present(f), Waiting(f) \/ Bringing(f)
               PROVE  \/ \E q \in Answering \cap loops' : \E d \in timers'[q] : Carries(d, f)
                      \/ \E i \in Jobs : /\ jobs'[i] # None /\ jobs'[i].by \in Answering
                                         /\ Brings(jobs'[i], f)
    BY DEF MovesOn
  <2>1. CASE Bringing(f)  BY <2>1 DEF Bringing
  <2>2. CASE Waiting(f)
    <3>1. PICK q \in Answering \cap loops : \E d \in timers[q] : Carries(d, f)
      BY <2>2 DEF Waiting
    <3>2. PICK d \in timers[q] : Carries(d, f)  BY <3>1
    <3>3. CASE q = p /\ d = e  BY <3>1, <3>2, <3>3
    <3>4. CASE ~(q = p /\ d = e)
      <4>1. q \in Procs /\ d \in timers'[q]  BY <3>1, <3>2, <3>4 DEF TypeOK
      <4> QED  BY <3>1, <3>2, <4>1
    <3> QED  BY <3>3, <3>4
  <2> QED  BY <2>1, <2>2
<1> QED  BY <1>1, <1>2, StillCanonical

LEMMA DispatchCanonical ==
  ASSUME CInv, NEW p \in Procs, Dispatch(p)
  PROVE  History' /\ Answered'
<1> USE Markers
<1>1. PICK e \in timers[p], k \in Jobs :
        \/ Unclaimed(p, e) \/ HandleCreate(p, e, k)
        \/ \E c \in Lookups(p) :
             HandleModify(p, e, k, c) \/ HandleGone(p, e, k, c) \/ HandleUnmapped(p, e, k, c)
  BY DEF Dispatch
<1>2. e \in Event /\ e.src \in Files /\ e.dest \in Files
  BY DEF CInv, Inv, TypeOK, Event
<1>3. Fired(p, e)
  BY <1>1 DEF Unclaimed, HandleCreate, HandleModify, HandleGone, HandleUnmapped
<1>4. CASE UNCHANGED jobs
           /\ ~(\E f \in Files : p \in loops /\ Carries(e, f) /\ Present(f))
  BY <1>2, <1>3, <1>4, FiredCanonical
<1>5. ASSUME NEW job \in Job, Begin(k, job), job.pc = "read", job.by = p,
             \A f \in Files : p \in loops /\ Carries(e, f) /\ Present(f) => Brings(job, f)
      PROVE  History' /\ Answered'
  <2>1. jobs[k] = None /\ jobs'[k] = job /\ \A i \in Jobs \ {k} : jobs'[i] = jobs[i]
    BY <1>5 DEF Begin, CInv, Inv, TypeOK
  <2> QED  BY <1>2, <1>3, <1>5, <2>1, FiredCanonical
<1>6. ASSUME NEW job \in Job, Schedule(p, k, job), job.pc = "read", job.by = p,
             \A f \in Files : p \in loops /\ Carries(e, f) /\ Present(f) => Brings(job, f)
      PROVE  History' /\ Answered'
  BY <1>4, <1>5, <1>6 DEF Schedule
<1>7. CASE Unclaimed(p, e)  BY <1>4, <1>7 DEF Unclaimed, Carries
<1>8. CASE HandleCreate(p, e, k)
  <2> DEFINE job == IngestJob(p, e.src)
  <2>1. job \in Job /\ job.pc = "read"  BY <1>2, IngestJobs
  <2>2. job.by = p /\ job.kind = "ingest" /\ job.src = e.src  BY DEF IngestJob, NewJob
  <2> HIDE DEF job
  <2>3. \A f \in Files : Carries(e, f) => Brings(job, f)
    BY <1>8, <2>1, <2>2 DEF HandleCreate, Carries, Brings
  <2>4. Schedule(p, k, job)  BY <1>8 DEF HandleCreate, job
  <2> QED  BY <1>6, <2>1, <2>2, <2>3, <2>4
<1>9. ASSUME NEW c \in Lookups(p), HandleModify(p, e, k, c) PROVE History' /\ Answered'
  <2> DEFINE job == IF c[e.src] = None THEN IngestJob(p, e.src)
                    ELSE NewJob("update", p, "watcher", e.src, c[e.src], None)
  <2>1. c[e.src] \in Slugs \cup {None}
    BY <1>2 DEF CInv, Inv, TypeOK, Lookups, Indexes, Cache
  <2>2. job \in Job /\ job.pc = "read"  BY <1>2, <2>1, IngestJobs, NewJobs
  <2>3. job.by = p /\ job.kind \in {"ingest", "update"} /\ job.src = e.src
    BY DEF IngestJob, NewJob
  <2>4. Schedule(p, k, job)  BY <1>9 DEF HandleModify
  <2> HIDE DEF job
  <2>5. \A f \in Files : Carries(e, f) => Brings(job, f)
    BY <1>9, <2>2, <2>3 DEF HandleModify, Carries, Brings
  <2> QED  BY <1>6, <2>2, <2>3, <2>4, <2>5
<1>10. ASSUME NEW c \in Lookups(p), HandleGone(p, e, k, c) PROVE History' /\ Answered'
  <2> DEFINE next == IF e.kind = "moved" /\ p \in loops THEN e.dest ELSE None
             job == NewJob("mark", p, "watcher", e.src, c[e.src], next)
  <2>1. c[e.src] \in Slugs
    BY <1>2, <1>10 DEF HandleGone, CInv, Inv, TypeOK, Lookups, Indexes, Cache
  <2>2. job \in Job /\ job.pc = "read"  BY <1>2, <2>1, NewJobs
  <2>3. job.by = p /\ job.kind = "mark" /\ job.next = next  BY DEF NewJob
  <2>4. Begin(k, job)  BY <1>10 DEF HandleGone
  <2> HIDE DEF job
  <2>5. \A f \in Files : p \in loops /\ Carries(e, f) => Brings(job, f)
    BY <1>10, <2>3 DEF HandleGone, Carries, Brings
  <2> QED  BY <1>5, <2>2, <2>3, <2>4, <2>5
<1>11. ASSUME NEW c \in Lookups(p), HandleUnmapped(p, e, k, c) PROVE History' /\ Answered'
  <2> DEFINE job == IngestJob(p, e.dest)
  <2>1. job \in Job /\ job.pc = "read"  BY <1>2, IngestJobs
  <2>2. job.by = p /\ job.kind = "ingest" /\ job.src = e.dest  BY DEF IngestJob, NewJob
  <2>3. CASE e.kind = "moved" /\ Present(e.dest)
    <3>1. Schedule(p, k, job)  BY <1>11, <2>3 DEF HandleUnmapped
    <3> HIDE DEF job
    <3>2. \A f \in Files : Carries(e, f) => Brings(job, f)
      BY <2>1, <2>2, <2>3 DEF Carries, Brings
    <3> QED  BY <1>6, <2>1, <2>2, <3>1, <3>2
  <2>4. CASE ~(e.kind = "moved" /\ Present(e.dest))
    BY <1>4, <1>11, <2>4 DEF HandleUnmapped, Carries
  <2> QED  BY <2>3, <2>4
<1> QED  BY <1>1, <1>7, <1>8, <1>9, <1>10, <1>11

-----------------------------------------------------------------------------
(* A step of a job: what it brought is shown, reported or still brought.   *)
LEMMA JobCanonical ==
  ASSUME CInv, NEW k \in Jobs, NEW x, jobs' = [jobs EXCEPT ![k] = x],
         UNCHANGED <<disk, loops, timers, past, lost>>,
         displaced \subseteq displaced', \A f \in Files : rows[f] \subseteq rows'[f],
         x # None => Grounded(x), KeepsText,
         \A s \in Slugs : notes'[s] # None => notes'[s].hash \in past[notes'[s].src],
         \A f \in Files :
           Present(f) /\ f \notin displaced' /\ jobs[k].by \in Answering /\ Brings(jobs[k], f) =>
             \/ \E s \in Slugs : notes'[s] # None /\ notes'[s].src = f /\ notes'[s].hash = disk[f]
             \/ \E row \in rows'[f] : row.by \in Answering /\ row.status # "ok"
             \/ x # None /\ x.by \in Answering /\ Brings(x, f)
  PROVE  History' /\ Answered'
<1> USE DEF CInv, Inv
<1>1. jobs'[k] = x /\ \A i \in Jobs \ {k} : jobs'[i] = jobs[i]  BY DEF TypeOK
<1>2. \A i \in Jobs : jobs'[i] # None => Grounded(jobs[i])'
  <2>1. \A i \in Jobs : jobs'[i] # None => Grounded(jobs'[i])  BY <1>1 DEF History
  <2> QED  BY <2>1 DEF Grounded
<1>3. History'  BY <1>2 DEF History, Present, IsNote
<1>4. MovesOn
  <2> SUFFICES ASSUME NEW f \in Files, Present(f), f \notin displaced', Waiting(f) \/ Bringing(f)
               PROVE  \/ \E s \in Slugs : /\ notes'[s] # None /\ notes'[s].src = f
                                          /\ notes'[s].hash = disk[f]
                      \/ \E row \in rows'[f] : row.by \in Answering /\ row.status # "ok"
                      \/ \E p \in Answering \cap loops' : \E e \in timers'[p] : Carries(e, f)
                      \/ \E i \in Jobs : /\ jobs'[i] # None /\ jobs'[i].by \in Answering
                                         /\ Brings(jobs'[i], f)
    BY DEF MovesOn
  <2>1. CASE Waiting(f)  BY <2>1 DEF Waiting
  <2>2. CASE Bringing(f)  BY <1>1, <2>2 DEF Bringing
  <2> QED  BY <2>1, <2>2
<1> QED  BY <1>3, <1>4, AnsweredKeeps

LEMMA GoOnCanonical ==
  ASSUME CInv, NEW k \in Jobs, jobs[k] # None, NEW job, GoOn(k, job), Grounded(job), job # None,
         job.by = jobs[k].by,
         \A f \in Files : Present(f) /\ Brings(jobs[k], f) => Brings(job, f)
  PROVE  History' /\ Answered'
<1>1. KeepsText  BY DEF GoOn, KeepsText, IsNote
<1>2. \A s \in Slugs : notes'[s] # None => notes'[s].hash \in past[notes'[s].src]
  BY DEF GoOn, CInv, History, IsNote
<1> QED  BY <1>1, <1>2, JobCanonical DEF GoOn

LEMMA FinishCanonical ==
  ASSUME CInv, NEW k \in Jobs, jobs[k] # None,
         NEW status \in {"ok", "failed", "skipped_duplicate"}, Finish(k, status),
         displaced \subseteq displaced', KeepsText,
         \A s \in Slugs : notes'[s] # None => notes'[s].hash \in past[notes'[s].src],
         status = "ok" /\ jobs[k].kind \in {"ingest", "update"} /\ Present(jobs[k].src)
           /\ Brings(jobs[k], jobs[k].src) =>
             \E s \in Slugs : /\ notes'[s] # None /\ notes'[s].src = jobs[k].src
                              /\ notes'[s].hash = disk[jobs[k].src]
  PROVE  History' /\ Answered'
<1> USE Markers DEF Finish
<1> DEFINE j == jobs[k]
           job == IF j.next # None /\ disk[j.next] # None THEN IngestJob(j.by, j.next) ELSE None
<1>1. j \in Job /\ WellFormed(j) /\ j.by \in Procs /\ j.next \in Files \cup {None}
  BY DEF CInv, Inv, TypeOK, JobsOK, Job
<1>2. job # None => /\ job.pc = "read" /\ job.by = j.by /\ job.kind = "ingest"
                    /\ job.src = j.next
  BY <1>1 DEF IngestJob, NewJob
<1>3. \A f \in Files : Present(f) /\ j.next = f => job # None
  BY <1>1, IngestJobs DEF Present
<1>4. jobs' = [jobs EXCEPT ![k] = job]  OBVIOUS
<1> HIDE DEF job
<1>5. job # None => Grounded(job)  BY <1>2 DEF Grounded
<1>6. \A f \in Files : rows[f] \subseteq rows'[f]  BY DEF CInv, Inv, TypeOK
<1>7. ASSUME NEW f \in Files, Present(f), j.by \in Answering, Brings(j, f)
      PROVE  \/ \E s \in Slugs : notes'[s] # None /\ notes'[s].src = f /\ notes'[s].hash = disk[f]
             \/ \E row \in rows'[f] : row.by \in Answering /\ row.status # "ok"
             \/ job # None /\ job.by \in Answering /\ Brings(job, f)
  <2>1. CASE j.kind = "mark"
    <3>1. j.next = f  BY <1>7, <2>1 DEF Brings
    <3> QED  BY <1>2, <1>3, <1>7, <3>1 DEF Brings
  <2>2. CASE j.kind # "mark"
    <3>1. j.kind \in {"ingest", "update"} /\ j.src = f  BY <1>7, <2>2 DEF Brings
    <3>2. CASE status = "ok"  BY <1>7, <3>1, <3>2
    <3>3. CASE status # "ok"
      <4>1. rows' = [rows EXCEPT ![j.src] = @ \cup {[by |-> j.by, status |-> status]}]
        BY <3>1
      <4>2. [by |-> j.by, status |-> status] \in rows'[f]
        BY <3>1, <4>1 DEF CInv, Inv, TypeOK
      <4> QED  BY <1>7, <3>3, <4>2
    <3> QED  BY <3>2, <3>3
  <2> QED  BY <2>1, <2>2
<1>8. UNCHANGED <<disk, loops, timers, past, lost>>  OBVIOUS
<1> HIDE DEF Finish
<1> QED  BY <1>4, <1>5, <1>6, <1>7, <1>8, JobCanonical

LEMMA EndCanonical ==
  ASSUME CInv, NEW k \in Jobs, jobs[k] # None, NEW status \in {"failed", "skipped_duplicate"},
         Finish(k, status), UNCHANGED <<notes, displaced>>
  PROVE  History' /\ Answered'
<1>1. KeepsText  BY DEF KeepsText, IsNote
<1>2. \A s \in Slugs : notes'[s] # None => notes'[s].hash \in past[notes'[s].src]
  BY DEF CInv, History, IsNote
<1> QED  BY <1>1, <1>2, FinishCanonical

(* A note that is replaced or goes: its file is displaced.                 *)
LEMMA DisplaceCanonical ==
  ASSUME CInv, NEW s \in Slugs, NEW note, notes' = [notes EXCEPT ![s] = note], Displace(s),
         note # None => note.hash \in past[note.src]
  PROVE  /\ displaced \subseteq displaced' /\ KeepsText
         /\ \A t \in Slugs : notes'[t] # None => notes'[t].hash \in past[notes'[t].src]
         /\ notes'[s] = note
<1> USE DEF CInv, Inv, Displace
<1>1. notes'[s] = note /\ \A t \in Slugs \ {s} : notes'[t] = notes[t]  BY DEF TypeOK
<1>2. KeepsText  BY <1>1 DEF KeepsText, IsNote
<1>3. \A t \in Slugs : notes'[t] # None => notes'[t].hash \in past[notes'[t].src]
  BY <1>1 DEF History, IsNote
<1> QED  BY <1>1, <1>2, <1>3

LEMMA IngestCanonical ==
  ASSUME CInv, NEW k \in Jobs,
         IngestRead(k) \/ IngestUnanswered(k) \/ (\E s \in Slugs : IngestCheck(k, s))
           \/ IngestLand(k) \/ IngestRollsBack(k)
  PROVE  History' /\ Answered'
<1> USE Markers DEF AtPC
<1> DEFINE j == jobs[k]
<1>1. j \in Job /\ WellFormed(j) /\ Grounded(j) /\ j # None /\ j.kind = "ingest" /\ j.src \in Files
  BY DEF CInv, Inv, TypeOK, JobsOK, History, WellFormed, IngestRead, IngestUnanswered,
         IngestCheck, IngestLand, IngestRollsBack
<1>2. CASE IngestRead(k)
  <2> DEFINE job == [j EXCEPT !.pc = "llm", !.content = disk[j.src]]
  <2>1. CASE End(k, "failed") \/ End(k, "skipped_duplicate")
    BY <1>1, <2>1, EndCanonical DEF End
  <2>2. CASE Present(j.src) /\ GoOn(k, job)
    <3>1. /\ job.pc = "llm" /\ job.content = disk[j.src] /\ job.kind = "ingest"
          /\ job.src = j.src /\ job.by = j.by /\ job # None
      <4>1. disk[j.src] \in Contents  BY <1>1, <2>2 DEF CInv, Inv, TypeOK, Present
      <4>2. job \in Job  BY <1>1, <4>1 DEF Job
      <4> QED  BY <1>1, <4>2 DEF Job
    <3> HIDE DEF job
    <3>2. Grounded(job)  BY <1>1, <2>2, <3>1 DEF Grounded, CInv, History
    <3>3. \A f \in Files : Brings(j, f) => Brings(job, f)  BY <1>1, <3>1 DEF Brings
    <3> QED  BY <1>1, <2>2, <3>1, <3>2, <3>3, GoOnCanonical
  <2> QED  BY <1>2, <2>1, <2>2 DEF IngestRead
<1>3. CASE IngestUnanswered(k)  BY <1>1, <1>3, EndCanonical DEF IngestUnanswered, End
<1>4. ASSUME NEW s \in Slugs, IngestCheck(k, s) PROVE History' /\ Answered'
  <2> DEFINE job == [j EXCEPT !.pc = "apply", !.slug = s]
  <2>1. CASE End(k, "failed")  BY <1>1, <2>1, EndCanonical DEF End
  <2>2. CASE GoOn(k, job)
    <3>1. /\ job.pc = "apply" /\ job.content = j.content /\ job.kind = "ingest"
          /\ job.src = j.src /\ job.by = j.by /\ job # None
      BY <1>1 DEF Job
    <3>2. j.pc = "llm"  BY <1>4 DEF IngestCheck
    <3> HIDE DEF job
    <3>3. Grounded(job)  BY <1>1, <3>1, <3>2 DEF Grounded
    <3>4. \A f \in Files : Brings(j, f) => Brings(job, f)  BY <1>1, <3>1, <3>2 DEF Brings
    <3> QED  BY <1>1, <2>2, <3>1, <3>3, <3>4, GoOnCanonical
  <2> QED  BY <1>4, <2>1, <2>2 DEF IngestCheck
<1>5. CASE IngestLand(k)
  <2> DEFINE note == Fresh(j.src, j.content)
  <2>1. /\ j.pc = "apply" /\ j.slug \in Slugs /\ notes' = [notes EXCEPT ![j.slug] = note]
        /\ Displace(j.slug) /\ Finish(k, "ok")
    BY <1>1, <1>5 DEF IngestLand, WellFormed
  <2>2. note.src = j.src /\ note.hash = j.content  BY DEF Fresh
  <2>3. note \in Note
    BY <1>1, <2>1, FolderAssumption DEF WellFormed, Fresh, Note
  <2> HIDE DEF note
  <2>4. note.hash \in past[note.src]  BY <1>1, <2>1, <2>2 DEF Grounded
  <2>5. /\ displaced \subseteq displaced' /\ KeepsText /\ notes'[j.slug] = note
        /\ \A t \in Slugs : notes'[t] # None => notes'[t].hash \in past[notes'[t].src]
    BY <2>1, <2>4, DisplaceCanonical
  <2>6. Brings(j, j.src) => notes'[j.slug].hash = disk[j.src]
    BY <1>1, <2>1, <2>2, <2>5 DEF Brings
  <2> QED  BY <1>1, <2>1, <2>2, <2>3, <2>5, <2>6, FinishCanonical
<1>6. CASE IngestRollsBack(k)
  <2>1. /\ j.slug \in Slugs /\ notes' = [notes EXCEPT ![j.slug] = None]
        /\ Displace(j.slug) /\ Finish(k, "failed")
    BY <1>1, <1>6 DEF IngestRollsBack, WellFormed
  <2>2. /\ displaced \subseteq displaced' /\ KeepsText
        /\ \A t \in Slugs : notes'[t] # None => notes'[t].hash \in past[notes'[t].src]
    BY <2>1, DisplaceCanonical
  <2> QED  BY <1>1, <2>1, <2>2, FinishCanonical
<1> QED  BY <1>2, <1>3, <1>4, <1>5, <1>6

LEMMA EditCanonical ==
  ASSUME CInv, NEW k \in Jobs,
         EditRead(k) \/ EditLand(k) \/ EditRefused(k) \/ DeleteMove(k)
  PROVE  History' /\ Answered'
<1> USE Markers
<1> DEFINE j == jobs[k]
<1>1. j \in Job /\ WellFormed(j) /\ Grounded(j) /\ j # None
      /\ j.kind \in {"update", "mark", "restore", "delete"} /\ j.slug \in Slugs
  BY DEF CInv, Inv, TypeOK, JobsOK, History, WellFormed, AtPC,
         EditRead, EditLand, EditRefused, DeleteMove
<1>2. CASE EditRead(k)
  <2> DEFINE note == notes[j.slug]
             job == [j EXCEPT !.pc = "apply", !.old = note,
                              !.content = IF j.kind = "update" THEN disk[j.src] ELSE None]
  <2>1. CASE End(k, "failed")  BY <1>1, <2>1, EndCanonical DEF End
  <2>2. CASE note # None /\ NothingToDo(j, note) /\ End(k, "ok")
    <3>1. j.kind = "update" => note.hash = disk[j.src] /\ note.src = j.src
      BY <2>2 DEF NothingToDo
    <3>2. KeepsText  BY <2>2 DEF End, KeepsText, IsNote
    <3>3. \A s \in Slugs : notes'[s] # None => notes'[s].hash \in past[notes'[s].src]
      BY <2>2 DEF End, CInv, History, IsNote
    <3>4. Finish(k, "ok") /\ UNCHANGED <<notes, displaced>>  BY <2>2 DEF End
    <3> QED  BY <1>1, <2>2, <3>1, <3>2, <3>3, <3>4, FinishCanonical
  <2>3. CASE /\ ~(note = None \/ (j.kind = "update" /\ ~Present(j.src)))
             /\ GoOn(k, job)
    <3>1. note \in Note  BY <1>1, <2>3 DEF CInv, Inv, TypeOK
    <3>2. j.kind = "update" => Present(j.src) /\ disk[j.src] \in Contents /\ j.src \in Files
      BY <1>1, <2>3 DEF CInv, Inv, TypeOK, Present, WellFormed
    <3>3. /\ job.pc = "apply" /\ job.old = note /\ job.kind = j.kind
          /\ job.src = j.src /\ job.by = j.by /\ job.next = j.next /\ job # None
          /\ j.kind = "update" => job.content = disk[j.src]
      <4>1. job \in Job  BY <1>1, <3>1, <3>2 DEF Job
      <4> QED  BY <1>1, <4>1 DEF Job
    <3>4. note.hash \in past[note.src]  BY <1>1, <3>1 DEF CInv, History, IsNote
    <3> HIDE DEF job, note
    <3>5. Grounded(job)  BY <1>1, <3>2, <3>3, <3>4 DEF Grounded, CInv, History
    <3>6. \A f \in Files : Brings(j, f) => Brings(job, f)  BY <1>1, <3>2, <3>3 DEF Brings
    <3> QED  BY <1>1, <2>3, <3>3, <3>5, <3>6, GoOnCanonical DEF job
  <2> QED  BY <1>2, <2>1, <2>2, <2>3 DEF EditRead
<1>3. CASE EditLand(k)
  <2> DEFINE s == j.slug  old == j.old  new == Replaced(j)
  <2>1. /\ AtPC(k, {"update", "mark", "restore"}, "apply") /\ Fits(j)
        /\ notes' = [notes EXCEPT ![s] = new]
        /\ displaced' = displaced \cup ({old.src} \ {Rewritten(j).src})
        /\ Finish(k, "ok")
    BY <1>3 DEF EditLand
  <2>2. /\ old \in Note /\ new \in Note /\ notes[s] \in Note
        /\ notes[s].src = old.src /\ notes[s].hash = old.hash
        /\ new.src = Rewritten(j).src /\ new.hash = Rewritten(j).hash
    BY <2>1, Replacements DEF CInv
  <2>3. j.pc = "apply" /\ j.kind \in {"update", "mark", "restore"}  BY <2>1 DEF AtPC
  <2>4. j.kind \in {"mark", "restore"} => new.src = old.src /\ new.hash = old.hash
    BY <2>2 DEF Rewritten, Note
  <2>5. j.kind = "update" => new.src = j.src /\ new.hash = j.content
    <3> SUFFICES ASSUME j.kind = "update" PROVE new.src = j.src /\ new.hash = j.content
      OBVIOUS
    <3>1. CASE old.hash = j.content  BY <2>2, <3>1 DEF Rewritten, Note
    <3>2. CASE old.hash # j.content  BY <2>2, <3>2 DEF Rewritten, Fresh
    <3> QED  BY <3>1, <3>2
  <2> HIDE DEF new
  <2>6. notes'[s] = new /\ \A t \in Slugs \ {s} : notes'[t] = notes[t]
    BY <1>1, <2>1 DEF CInv, Inv, TypeOK
  <2>7. new.hash \in past[new.src]  BY <1>1, <2>3, <2>4, <2>5 DEF Grounded
  <2>8. \A t \in Slugs : notes'[t] # None => notes'[t].hash \in past[notes'[t].src]
    BY <2>6, <2>7 DEF CInv, History, IsNote
  <2>9. KeepsText
    <3>1. ASSUME old.src \notin displaced'
          PROVE  new.src = old.src /\ (old.hash = disk[old.src] => new.hash = disk[old.src])
      <4>1. new.src = old.src  BY <2>1, <2>2, <3>1
      <4>2. CASE j.kind = "update"
        BY <1>1, <2>3, <2>5, <4>1, <4>2 DEF Grounded
      <4>3. CASE j.kind \in {"mark", "restore"}  BY <2>4, <4>3
      <4> QED  BY <2>3, <4>1, <4>2, <4>3
    <3> QED  BY <2>2, <2>6, <3>1 DEF KeepsText, IsNote
  <2>10. Brings(j, j.src) /\ j.kind = "update" => new.hash = disk[j.src]
    BY <2>3, <2>5 DEF Brings
  <2> QED  BY <1>1, <2>1, <2>2, <2>3, <2>5, <2>6, <2>8, <2>9, <2>10, FinishCanonical
<1>4. CASE EditRefused(k)  BY <1>1, <1>4, EndCanonical DEF EditRefused, End
<1>5. CASE DeleteMove(k)
  <2>1. /\ notes' = [notes EXCEPT ![j.slug] = None] /\ Displace(j.slug) /\ Finish(k, "ok")
        /\ j.kind = "delete"
    BY <1>5 DEF DeleteMove, AtPC
  <2>2. /\ displaced \subseteq displaced' /\ KeepsText
        /\ \A t \in Slugs : notes'[t] # None => notes'[t].hash \in past[notes'[t].src]
    BY <1>1, <2>1, DisplaceCanonical
  <2> QED  BY <1>1, <2>1, <2>2, FinishCanonical
<1> QED  BY <1>2, <1>3, <1>4, <1>5

(* A process that goes takes what it held with it, and the files are lost. *)
LEMMA ProcessCanonical ==
  ASSUME CInv, NEW p \in Procs, Die(p) \/ Boot(p) \/ Restart(p)
  PROVE  History' /\ Answered'
<1> USE Markers DEF CInv, Inv
<1>1. UNCHANGED <<disk, notes, past, rows, displaced>> /\ lost \subseteq lost'
  BY DEF Die, Boot, Restart
<1>2. \A i \in Jobs : jobs'[i] # None =>
        \/ jobs'[i] = jobs[i]
        \/ jobs[i] # None /\ jobs'[i] = [jobs[i] EXCEPT !.caller = "stopped"]
  BY DEF Die, Boot, Restart
<1>3. \A i \in Jobs : jobs'[i] # None => Grounded(jobs'[i])
  <2> SUFFICES ASSUME NEW i \in Jobs, jobs'[i] # None PROVE Grounded(jobs'[i])
    OBVIOUS
  <2>1. CASE jobs'[i] = jobs[i]  BY <2>1 DEF History
  <2>2. CASE jobs[i] # None /\ jobs'[i] = [jobs[i] EXCEPT !.caller = "stopped"]
    <3>1. jobs[i] \in Job /\ Grounded(jobs[i])  BY <2>2 DEF History, TypeOK
    <3> QED  BY <2>2, <3>1 DEF Grounded, Job
  <2> QED  BY <1>2, <2>1, <2>2
<1>4. MovesOn
  <2> SUFFICES ASSUME NEW f \in Files, f \notin lost', Waiting(f) \/ Bringing(f)
               PROVE  \/ \E q \in Answering \cap loops' : \E e \in timers'[q] : Carries(e, f)
                      \/ \E i \in Jobs : /\ jobs'[i] # None /\ jobs'[i].by \in Answering
                                         /\ Brings(jobs'[i], f)
    BY DEF MovesOn
  <2>1. CASE Waiting(f)
    <3>1. PICK q \in Answering \cap loops : \E e \in timers[q] : Carries(e, f)
      BY <2>1 DEF Waiting
    <3>2. PICK e \in timers[q] : Carries(e, f)  BY <3>1
    <3>3. f \in FilesOf(e)  BY <3>2 DEF Carries, FilesOf
    <3>4. CASE Boot(p)  BY <3>1, <3>2, <3>4 DEF Boot
    <3>5. CASE Die(p) \/ Restart(p)
      <4>1. q # p  BY <3>2, <3>3, <3>5 DEF Die, Restart, InHand
      <4>2. q \in loops' /\ timers'[q] = timers[q]  BY <3>1, <3>5, <4>1 DEF Die, Restart, TypeOK
      <4> QED  BY <3>1, <3>2, <4>2
    <3> QED  BY <3>4, <3>5
  <2>2. CASE Bringing(f)
    <3>1. PICK i \in Jobs : jobs[i] # None /\ jobs[i].by \in Answering /\ Brings(jobs[i], f)
      BY <2>2 DEF Bringing
    <3>2. jobs[i] \in Job  BY <3>1 DEF TypeOK
    <3>3. CASE Die(p)
      <4>1. f \in {jobs[i].src, jobs[i].next}  BY <3>1 DEF Brings
      <4>2. jobs[i].by # p
        <5> SUFFICES ASSUME jobs[i].by = p PROVE FALSE  OBVIOUS
        <5>1. f \in WorkedOn(p)  BY <3>1, <4>1 DEF WorkedOn, Active
        <5> QED  BY <3>3, <5>1 DEF Die
      <4> QED  BY <3>1, <3>3, <4>2 DEF Die
    <3>4. CASE Boot(p)  BY <3>1, <3>4 DEF Boot
    <3>5. CASE Restart(p)
      <4>1. CASE jobs'[i] = jobs[i]  BY <3>1, <4>1
      <4>2. CASE jobs'[i] = [jobs[i] EXCEPT !.caller = "stopped"]
        <5>1. jobs'[i] \in Job /\ jobs'[i].by = jobs[i].by  BY <3>2, <4>2 DEF Job
        <5>2. Brings(jobs'[i], f)  BY <3>1, <3>2, <4>2 DEF Brings, Job
        <5> QED  BY <3>1, <5>1, <5>2
      <4> QED  BY <3>5, <4>1, <4>2 DEF Restart
    <3> QED  BY <3>3, <3>4, <3>5
  <2> QED  BY <2>1, <2>2
<1> QED  BY <1>1, <1>3, <1>4, StillCanonical

(* The user's edits of a note leave its file and the text it was made from. *)
LEMMA UserCanonical ==
  ASSUME ~Reverts, CInv, User
  PROVE  History' /\ Answered'
<1> USE Markers DEF CInv, Inv
<1>1. ASSUME NEW f \in Files, Remove(f) \/ (\E g \in Files : Rename(f, g))
      PROVE  History' /\ Answered'
  <2>1. disk[f] \in Contents  BY <1>1 DEF Remove, Rename, Present, TypeOK
  <2> QED  BY <1>1, <2>1, FolderCanonical
<1>2. ASSUME NEW f \in Files, NEW c \in Contents, Save(f, c) PROVE History' /\ Answered'
  BY <1>2, FolderCanonical
<1>3. ASSUME NEW s \in Slugs, EditNote(s) PROVE History' /\ Answered'
  <2>1. notes[s] \in Note  BY <1>3 DEF EditNote, IsNote, TypeOK
  <2>2. /\ notes'[s] \in Note
        /\ notes'[s].src = notes[s].src /\ notes'[s].hash = notes[s].hash
        /\ \A t \in Slugs \ {s} : notes'[t] = notes[t]
    <3>1. edits + 1 \in 0 .. MaxEdits  BY <1>3, FolderAssumption DEF EditNote, TypeOK
    <3>2. CASE notes' = [notes EXCEPT ![s].edit = edits + 1]
      BY <2>1, <3>1, <3>2 DEF Note, TypeOK
    <3>3. CASE notes' = [notes EXCEPT ![s].added = edits + 1]
      BY <2>1, <3>1, <3>3 DEF Note, TypeOK
    <3> QED  BY <1>3, <3>2, <3>3 DEF EditNote
  <2>3. KeepsText  BY <1>3, <2>1, <2>2 DEF KeepsText, IsNote
  <2>4. MovesOn  BY <1>3 DEF EditNote, MovesOn, Waiting, Bringing
  <2>5. Answered'  BY <1>3, <2>3, <2>4, AnsweredKeeps DEF EditNote
  <2>6. History'
    <3>1. \A k \in Jobs : jobs'[k] # None => Grounded(jobs[k])'
      BY <1>3 DEF EditNote, Grounded, History
    <3> QED  BY <1>3, <2>1, <2>2, <3>1 DEF EditNote, History, Present, IsNote
  <2> QED  BY <2>5, <2>6
<1>4. ASSUME NEW p \in running, NEW s \in Slugs, NEW k \in Jobs, NEW kind, CallTool(p, kind, s, k)
      PROVE  History' /\ Answered'
  BY <1>4, BeginCanonical DEF CallTool, NewJob
<1>5. ASSUME NEW p \in running, StartResync(p) PROVE History' /\ Answered'
  <2>1. UNCHANGED <<disk, notes, loops, timers, jobs, rows, past, lost, displaced>>
    BY <1>5 DEF StartResync
  <2>2. MovesOn  BY <2>1 DEF MovesOn, Waiting, Bringing
  <2> QED  BY <2>1, <2>2, StillCanonical DEF History
<1> QED  BY <1>1, <1>2, <1>3, <1>4, <1>5 DEF User

LEMMA NextCanonical ==
  ASSUME ~Reverts, CInv, [Next]_vars
  PROVE  CInv'
<1>1. Inv'  BY NextKeeps DEF CInv
<1>2. CASE UNCHANGED vars
  <2>1. UNCHANGED <<disk, notes, loops, timers, jobs, rows, past, lost, displaced>>
    BY <1>2 DEF vars
  <2>2. MovesOn  BY <2>1 DEF MovesOn, Waiting, Bringing
  <2>3. History' /\ Answered'  BY <2>1, <2>2, StillCanonical DEF CInv, History
  <2> QED  BY <1>1, <2>3 DEF CInv
<1>3. CASE Next
  <2>1. ASSUME User PROVE History' /\ Answered'  BY <2>1, UserCanonical
  <2>2. ASSUME NEW p \in Procs, ContinueResync(p) PROVE History' /\ Answered'
    <3>1. PICK job \in todo[p], k \in Jobs : NextOfResync(p, job, k)
      BY <2>2 DEF ContinueResync
    <3>2. job.pc = "read"  BY DEF CInv, Inv, JobsOK
    <3> QED  BY <3>1, <3>2, BeginCanonical DEF NextOfResync
  <2>3. ASSUME NEW p \in Procs, Dispatch(p) \/ Die(p) \/ Boot(p) \/ Restart(p)
        PROVE  History' /\ Answered'
    BY <2>3, DispatchCanonical, ProcessCanonical
  <2>4. ASSUME NEW k \in Jobs, JobStep(k) \/ Fail(k) \/ IngestRollsBack(k)
        PROVE  History' /\ Answered'
    <3>1. CASE Fail(k)  BY <3>1, EndCanonical DEF Fail
    <3> QED  BY <2>4, <3>1, IngestCanonical, EditCanonical DEF JobStep
  <2>5. History' /\ Answered'  BY <1>3, <2>1, <2>2, <2>3, <2>4 DEF Next
  <2> QED  BY <1>1, <2>5 DEF CInv
<1> QED  BY <1>2, <1>3

(* When no text of a file comes back, the last change of every file is in  *)
(* a note or in ingest_history once nothing is under way any more.         *)
THEOREM CanonicalCorrect == ASSUME ~Reverts PROVE Spec => []QuietIsCanonical
<1>1. CInv => QuietIsCanonical
  <2> SUFFICES ASSUME CInv, Quiet, NEW f \in Files, Present(f), f \notin lost \cup displaced
               PROVE  Shown(f) \/ Reported(f)
    BY DEF QuietIsCanonical
  <2>1. Accounted(f)  BY DEF CInv, Answered
  <2>2. ~Waiting(f)  BY Markers DEF Quiet, Waiting
  <2>3. ~Bringing(f)  BY DEF Quiet, Active, Bringing
  <2> QED  BY <2>1, <2>2, <2>3 DEF Accounted
<1>2. CInv /\ [Next]_vars => CInv'  BY NextCanonical
<1> QED  BY <1>1, <1>2, InitCanonical, PTL DEF Spec

=============================================================================
