-------------------------- MODULE VaultBackupProofs --------------------------
(* Theorems of VaultBackup.                                                *)
EXTENDS VaultBackup, FiniteSetTheorems, TLAPS

(* What a call is, tool by tool, at each of its steps.                     *)
CreateCall == [op : {"create"}, pc : {"seed"}, id : Ids, from : Slugs, to : Slugs, todo : {{}},
               read : {None}, edits : {{}}]
RenameCall == [op : {"rename"}, pc : {"own", "links", "save", "record"}, id : Ids,
               from : Slugs \ {personal}, to : Slugs \ {personal}, todo : SUBSET Path,
               read : {None} \cup Path, edits : SUBSET Path]
DeleteCall == [op : {"delete"}, pc : {"record", "save"}, id : Ids, from : Slugs \ {personal},
               to : Slugs, todo : {{}}, read : {None}, edits : {{}}]
UndoCall == [op : {"undo"}, pc : {"files"}, id : Ids, from : Slugs, to : Slugs, todo : SUBSET Path,
             read : {None}, edits : {{}}]
SnapshotCall == [op : {"snapshot"}, pc : {"pack"}, id : Ids, from : {None}, to : {None},
                 todo : SUBSET (Slugs \cup {InBrain}), read : {None}, edits : {{}}]
RestoreCall == [op : {"restore"}, pc : {"aside", "extract"}, id : Ids, from : {None}, to : {None},
                todo : SUBSET (Slugs \cup {InBrain}), read : Ids, edits : {{}}]
Calls == CreateCall \cup RenameCall \cup DeleteCall \cup UndoCall \cup SnapshotCall \cup RestoreCall

BrainType == [config : {None} \cup Config, trash : [Ids -> {None} \cup Folder],
              records : [Ids -> {None} \cup Record]]
Image == [vault : Vaults, brain : BrainType, readable : BOOLEAN]

(* None stands apart: no folder and no archive is taken for one that is    *)
(* not there.                                                              *)
FilesTyped ==
  /\ None \notin Folder \cup Image
  /\ vault \in Vaults
  /\ trash \in [Ids -> {None} \cup Folder]
  /\ records \in [Ids -> {None} \cup Record]
  /\ snaps \in [Ids -> {None} \cup Image]
  /\ aside \subseteq Note
ConfigTyped ==
  /\ config \in {None} \cup Config
  /\ live \in [Procs -> Config]
CallsTyped ==
  /\ None \notin Calls
  /\ call \in [Procs -> {None} \cup Calls]
  /\ calls \in 0 .. MaxCalls
GhostsTyped ==
  /\ latest \in [Names -> Text] /\ forfeit \subseteq Names
  /\ origin \in [Ids -> {None} \cup Vaults]
  /\ reached \in Ids \cup {None} /\ apart \in BOOLEAN
  /\ edits \in Text
Types == FilesTyped /\ ConfigTyped /\ CallsTyped /\ GhostsTyped

(* What a call in the middle of its work may rely on.                      *)
DeleteWork(p) ==
  Running(p, "delete") =>
    /\ live[p].active # call[p].from
    /\ live[p].domains \ {personal, call[p].from} # {}
SnapshotWork(p) ==
  Running(p, "snapshot") => snaps[call[p].id] \in Image /\ ~snaps[call[p].id].readable
RestoreWork(p) ==
  Running(p, "restore") =>
    /\ snaps[call[p].read] \in Image /\ snaps[call[p].read].readable /\ call[p].read <= calls
    /\ call[p].pc = "extract" =>
         \A s \in call[p].todo \ {InBrain} : snaps[call[p].read].vault[s] # None
WorkOK == \A p \in Procs : DeleteWork(p) /\ SnapshotWork(p) /\ RestoreWork(p)

(* What there is of a folder in the trash, and of a record, with what the  *)
(* archives hold of them.                                                  *)
Archives == {k \in Ids : snaps[k] # None}
TrashOf(i) == ({trash[i]} \cup {snaps[j].brain.trash[i] : j \in Archives}) \ {None}
RecordsOf(i) == ({records[i]} \cup {snaps[j].brain.records[i] : j \in Archives}) \ {None}

(* Every call but an undo has an id of its own, which nothing bears before *)
(* it, and no record until it is over, or only the save of a delete left.  *)
OwnId(p) == ~Idle(p) /\ call[p].op # "undo"
CallIds ==
  /\ \A p \in Procs : ~Idle(p) => call[p].id <= calls
  /\ \A p, q \in Procs : OwnId(p) /\ OwnId(q) /\ call[p].id = call[q].id => p = q
Fresh ==
  \A i \in Ids : i > calls => TrashOf(i) = {} /\ RecordsOf(i) = {} /\ snaps[i] = None
Unrecorded ==
  \A p \in Procs : OwnId(p) /\ ~(call[p].op = "delete" /\ call[p].pc = "save")
    => RecordsOf(call[p].id) = {}
IdsOK == CallIds /\ Fresh /\ Unrecorded

(* All there is of one folder, or of one record, is the same.              *)
OneCopy ==
  \A i \in Ids : (\A f, g \in TrashOf(i) : f = g) /\ (\A r, s \in RecordsOf(i) : r = s)

USE DEF Idle, Running, Begins, Becomes, Ends, EndsBadly, NewCall, Touch, Persist, Exists, Fault,
        files, ghosts, counters

(* A process begins a call, goes on with it, or ends it.                   *)
LEMMA CallSet ==
  ASSUME CallsTyped, NEW p \in Procs, NEW r \in {None} \cup Calls, call' = [call EXCEPT ![p] = r],
         calls' \in 0 .. MaxCalls
  PROVE  CallsTyped' /\ call'[p] = r /\ \A q \in Procs \ {p} : call'[q] = call[q]
  BY DEF CallsTyped

LEMMA RunningIs ==
  ASSUME CallsTyped, NEW p \in Procs, ~Idle(p)
  PROVE  /\ call[p] \in Calls
         /\ call[p].op = "create" => call[p] \in CreateCall
         /\ call[p].op = "rename" => call[p] \in RenameCall
         /\ call[p].op = "delete" => call[p] \in DeleteCall
         /\ call[p].op = "undo" => call[p] \in UndoCall
         /\ call[p].op = "snapshot" => call[p] \in SnapshotCall
         /\ call[p].op = "restore" => call[p] \in RestoreCall
<1>1. call[p] \in Calls  BY DEF CallsTyped
<1> QED  BY <1>1 DEF Calls, CreateCall, RenameCall, DeleteCall, UndoCall, SnapshotCall, RestoreCall

LEMMA RenameMoves ==
  ASSUME NEW c \in RenameCall
  PROVE  /\ \A t \in SUBSET Path, q \in {"own", "links", "save", "record"} :
              [c EXCEPT !.pc = q, !.todo = t] \in RenameCall
         /\ \A q \in {"own", "links", "save", "record"} : [c EXCEPT !.pc = q] \in RenameCall
         /\ [c EXCEPT !.read = None] \in RenameCall
         /\ \A t \in SUBSET Path, x \in Path, es \in SUBSET Path :
              [c EXCEPT !.todo = t, !.read = x, !.edits = es] \in RenameCall
  BY DEF RenameCall

LEMMA TodoMoves ==
  /\ \A c \in UndoCall, t \in SUBSET Path : [c EXCEPT !.todo = t] \in UndoCall
  /\ \A c \in SnapshotCall, t \in SUBSET (Slugs \cup {InBrain}) : [c EXCEPT !.todo = t] \in SnapshotCall
  /\ \A c \in RestoreCall, t \in SUBSET (Slugs \cup {InBrain}) :
       /\ [c EXCEPT !.todo = t] \in RestoreCall
       /\ [c EXCEPT !.pc = "extract", !.todo = t] \in RestoreCall
  /\ \A c \in DeleteCall : [c EXCEPT !.pc = "save"] \in DeleteCall
  BY DEF UndoCall, SnapshotCall, RestoreCall, DeleteCall
LEMMA NextId ==
  ASSUME CallsTyped, calls < MaxCalls
  PROVE  calls + 1 \in Ids /\ calls + 1 \in 0 .. MaxCalls
  BY DomainAssumption DEF CallsTyped, Ids

LEMMA CallBegins ==
  ASSUME CallsTyped, NEW p \in Procs, NEW r \in Calls, Begins(p, r)
  PROVE  CallsTyped' /\ call'[p] = r /\ \A q \in Procs \ {p} : call'[q] = call[q]
  BY NextId, CallSet

SamePlace(x, y) == x.slug = y.slug /\ x.note.name = y.note.name

(* Where the next note of a walk is.                                       *)
LEMMA HereIs ==
  ASSUME FilesTyped, NEW s \in Slugs, NEW m, NEW x, x.slug = s, x.note = m, In(s, m.name)
  PROVE  Here(x) \in vault[s] /\ Here(x) \in Note /\ Here(x).name = m.name
<1>1. vault[s] \in Folder  BY DEF FilesTyped, Vaults, In
<1>2. \E k \in vault[s] : k.name = m.name  BY DEF In
<1>3. Here(x) \in vault[s] /\ Here(x).name = m.name  BY <1>2 DEF Here
<1> QED  BY <1>1, <1>3 DEF Folder

LEMMA WalkIs ==
  ASSUME FilesTyped, NEW slugs \in SUBSET Slugs
  PROVE  Walk(slugs) = {x \in Path : x.slug \in slugs /\ vault[x.slug] # None /\ x.note \in vault[x.slug]}
<1>1. \A s \in Slugs : vault[s] # None => vault[s] \subseteq Note  BY DEF FilesTyped, Vaults, Folder
<1>2. ASSUME NEW x \in Walk(slugs)
      PROVE  x \in Path /\ x.slug \in slugs /\ vault[x.slug] # None /\ x.note \in vault[x.slug]
  <2>1. PICK s \in slugs, m \in NotesOf(vault) : vault[s] # None /\ x = [slug |-> s, note |-> m]
    BY <1>2 DEF Walk, PathsOf
  <2>2. x.note \in vault[x.slug]  BY <1>2 DEF Walk
  <2> QED  BY <1>1, <2>1, <2>2 DEF Path
<1>3. ASSUME NEW x \in Path, x.slug \in slugs, vault[x.slug] # None, x.note \in vault[x.slug]
      PROVE  x \in Walk(slugs)
  <2>1. x = [slug |-> x.slug, note |-> x.note]  BY <1>3 DEF Path
  <2>2. x.note \in NotesOf(vault)  BY <1>3 DEF NotesOf
  <2>3. x \in PathsOf(slugs)  BY <1>3, <2>1, <2>2 DEF PathsOf
  <2> QED  BY <1>3, <2>3 DEF Walk
<1> QED  BY <1>2, <1>3

LEMMA PutIs ==
  ASSUME NEW f \in SUBSET Note, NEW m \in Note
  PROVE  Put(f, m) \in Folder
  BY DEF Put, Folder

LEMMA RewrittenIs ==
  ASSUME NEW c \in RenameCall, NEW m \in Note
  PROVE  /\ Rewritten(c, m) \in Note /\ Rewritten(c, m).name = m.name /\ Rewritten(c, m).text = m.text
<1>1. c.to \in Slugs  BY DEF RenameCall
<1> QED  BY <1>1 DEF Rewritten, Note

LEMMA VaultSet ==
  ASSUME vault \in Vaults, NEW s \in Slugs, NEW f \in {None} \cup Folder
  PROVE  [vault EXCEPT ![s] = f] \in Vaults
  BY DEF Vaults

LEMMA Remembered ==
  ASSUME GhostsTyped, NEW id
  PROVE  [i \in Ids |-> IF i = id THEN origin[i] ELSE None] \in [Ids -> {None} \cup Vaults]
  BY DEF GhostsTyped
-----------------------------------------------------------------------------
(* The types, action by action.                                            *)

LEMMA EditNoteTypes ==
  ASSUME Types, NEW s \in Slugs, NEW n \in Names, EditNote(s, n), UNCHANGED <<snaps, aside>>
  PROVE  Types' /\ vault'[s] \in Folder /\ vault'[s] # None
<1> USE DEF Types, EditNote
<1>1. edits + 1 \in Text  BY DomainAssumption DEF GhostsTyped, Text
<1> DEFINE New(m) == IF m.name = n THEN [m EXCEPT !.text = edits + 1] ELSE m
<1>2. \A m \in Note : New(m) \in Note  BY <1>1 DEF Note
<1>3. vault[s] \subseteq Note  BY DEF FilesTyped, Vaults, In, Folder
<1> DEFINE f == {New(m) : m \in vault[s]}
<1>4. f \in Folder  BY <1>2, <1>3 DEF Folder
<1>5. vault' = [vault EXCEPT ![s] = f]  OBVIOUS
<1> HIDE DEF f
<1>6. vault' \in Vaults
  <2>1. vault \in Vaults  BY DEF FilesTyped
  <2>2. [vault EXCEPT ![s] = f] \in Vaults  BY ONLY <2>1, <1>4, VaultSet, s \in Slugs
  <2> QED  BY ONLY <1>5, <2>2
<1>7. FilesTyped'  BY <1>6 DEF FilesTyped
<1>10. vault'[s] \in Folder /\ vault'[s] # None  BY <1>4, <1>5 DEF FilesTyped, Vaults
<1>8. GhostsTyped'  BY <1>1, Remembered DEF GhostsTyped
<1>9. ConfigTyped' /\ CallsTyped'  BY DEF ConfigTyped, CallsTyped
<1> QED  BY <1>7, <1>8, <1>9, <1>10

LEMMA AddNoteTypes ==
  ASSUME Types, NEW s \in Slugs, NEW n \in Names, AddNote(s, n), UNCHANGED <<snaps, aside>>
  PROVE  Types' /\ vault'[s] \in Folder /\ vault'[s] # None
<1> USE DEF Types, AddNote
<1>1. edits + 1 \in Text  BY DomainAssumption DEF GhostsTyped, Text
<1> DEFINE new == [name |-> n, dom |-> s, link |-> None, text |-> edits + 1]
           old == IF vault[s] = None THEN {} ELSE vault[s]
<1>2. new \in Note  BY <1>1 DEF Note
<1>3. old \subseteq Note  BY DEF FilesTyped, Vaults, Folder
<1> DEFINE f == old \cup {new}
<1>4. f \in Folder  BY <1>2, <1>3 DEF Folder
<1>5. vault' = [vault EXCEPT ![s] = f]  OBVIOUS
<1> HIDE DEF f
<1>6. vault' \in Vaults
  <2>1. vault \in Vaults  BY DEF FilesTyped
  <2>2. [vault EXCEPT ![s] = f] \in Vaults  BY ONLY <2>1, <1>4, VaultSet, s \in Slugs
  <2> QED  BY ONLY <1>5, <2>2
<1>7. FilesTyped'  BY <1>6 DEF FilesTyped
<1>10. vault'[s] \in Folder /\ vault'[s] # None  BY <1>4, <1>5 DEF FilesTyped, Vaults
<1>8. GhostsTyped'  BY <1>1, Remembered DEF GhostsTyped
<1>9. ConfigTyped' /\ CallsTyped'  BY DEF ConfigTyped, CallsTyped
<1> QED  BY <1>7, <1>8, <1>9, <1>10

LEMMA LoadedTyped == ASSUME ConfigTyped  PROVE Loaded \in Config
  BY DomainAssumption DEF ConfigTyped, Loaded

LEMMA ReloadTypes ==
  ASSUME Types, NEW p \in Procs, Reload(p), UNCHANGED <<snaps, aside>>
  PROVE  Types'
  BY LoadedTyped DEF Types, Reload, FilesTyped, ConfigTyped, CallsTyped, GhostsTyped

LEMMA CreateTypes ==
  ASSUME Types, NEW p \in Procs, NEW s \in Slugs, Create(p, s), UNCHANGED <<snaps, aside>>
  PROVE  Types'
<1> USE DEF Types, Create
<1>1. NewCall("create", "seed", calls + 1, s, s, {}) \in CreateCall  BY NextId DEF CreateCall
<1>2. CallsTyped'  BY <1>1, CallBegins DEF Calls
<1>3. vault' \in Vaults  BY VaultSet DEF FilesTyped, Folder
<1>4. FilesTyped'  BY <1>3 DEF FilesTyped
<1>5. GhostsTyped'  BY Remembered DEF GhostsTyped
<1>6. ConfigTyped'  BY DEF ConfigTyped
<1> QED  BY <1>2, <1>4, <1>5, <1>6

LEMMA CreateStepTypes ==
  ASSUME Types, NEW p \in Procs, CreateSaves(p) \/ CreateFails(p),
         UNCHANGED <<snaps, aside>>
  PROVE  Types'
<1> USE DEF Types, Creating
<1>1. CallsTyped'  BY CallSet DEF CreateSaves, CreateFails, CallsTyped
<1>2. call[p] \in CreateCall  BY RunningIs DEF CreateSaves, CreateFails
<1>3. call[p].from \in Slugs  BY <1>2 DEF CreateCall
<1>4. FilesTyped'
  <2>1. vault' \in Vaults  BY <1>3, VaultSet DEF CreateSaves, CreateFails, FilesTyped
  <2> QED  BY <2>1 DEF CreateSaves, CreateFails, FilesTyped
<1>5. ConfigTyped'
  <2>1. CASE CreateFails(p)  BY <2>1 DEF CreateFails, ConfigTyped
  <2>2. CASE CreateSaves(p)
    <3>1. live[p] \in Config  BY DEF ConfigTyped
    <3>2. [live[p] EXCEPT !.domains = live[p].domains \cup {call[p].from}] \in Config
      BY <1>3, <3>1 DEF Config
    <3> QED  BY <2>2, <3>2 DEF CreateSaves, ConfigTyped
  <2> QED  BY <2>1, <2>2
<1>6. GhostsTyped'
  <2>1. forfeit' \subseteq Names
    <3>1. \A s \in Slugs : vault[s] # None => NamesIn(vault[s]) \subseteq Names
      BY DEF FilesTyped, Vaults, Folder, NamesIn, Note
    <3> QED  BY <1>3, <3>1 DEF CreateSaves, CreateFails, GhostsTyped
  <2>2. origin' \in [Ids -> {None} \cup Vaults]  BY Remembered DEF CreateSaves, CreateFails, GhostsTyped
  <2> QED  BY <2>1, <2>2 DEF CreateSaves, CreateFails, GhostsTyped
<1> QED  BY <1>1, <1>4, <1>5, <1>6

LEMMA RenameStartsTypes ==
  ASSUME Types, NEW p \in Procs, NEW a \in Slugs, NEW b \in Slugs, RenameStarts(p, a, b), UNCHANGED <<snaps, aside>>
  PROVE  Types'
<1> USE DEF Types, RenameStarts
<1>1. Walk({a}) \subseteq Path  BY WalkIs
<1>2. NewCall("rename", "own", calls + 1, a, b, Walk({a})) \in RenameCall
  BY <1>1, NextId DEF RenameCall
<1>3. CallsTyped'  BY <1>2, CallBegins DEF Calls
<1>4. FilesTyped' /\ ConfigTyped'  BY DEF FilesTyped, ConfigTyped
<1>5. GhostsTyped'
  <2>1. origin' \in [Ids -> {None} \cup Vaults]  BY DEF GhostsTyped, FilesTyped
  <2> QED  BY <2>1 DEF GhostsTyped
<1> QED  BY <1>3, <1>4, <1>5

(* read_text takes a note that is there.                                   *)
NextHit(p) == CHOOSE y \in Hits(call[p]) : TRUE
NextPath(p) == [slug |-> NextHit(p).slug, note |-> Here(NextHit(p))]

LEMMA ReadNoteIs ==
  ASSUME FilesTyped, CallsTyped, NEW p \in Procs, ReadNote(p)
  PROVE  /\ call[p] \in RenameCall /\ NextHit(p) \in call[p].todo /\ NextHit(p) \in Path
         /\ Concerns(call[p], NextPath(p).note)
         /\ NextPath(p) \in Path /\ SamePlace(NextPath(p), NextHit(p))
         /\ vault[NextPath(p).slug] # None /\ NextPath(p).note \in vault[NextPath(p).slug]
         /\ call' = [call EXCEPT ![p] = [call[p] EXCEPT !.todo = @ \ {NextHit(p)},
                        !.read = NextPath(p), !.edits = @ \cup {NextPath(p)}]]
         /\ call'[p] \in RenameCall
<1>1. call[p] \in RenameCall  BY RunningIs DEF ReadNote, Walking
<1>2. NextHit(p) \in Hits(call[p])  BY DEF ReadNote, NextHit
<1> DEFINE c == call[p]  x == NextHit(p)  m == Here(x)  r == NextPath(p)
<1> HIDE DEF x
<1>3. x \in c.todo /\ In(x.slug, x.note.name) /\ Concerns(c, m)  BY <1>2 DEF Hits, x
<1>4. x \in Path /\ x.slug \in Slugs  BY <1>1, <1>3 DEF RenameCall, Path
<1>5. m \in vault[x.slug] /\ m \in Note /\ m.name = x.note.name
  BY <1>3, <1>4, HereIs
<1>6. r = [slug |-> x.slug, note |-> m]  BY DEF NextPath, x
<1> HIDE DEF m, r
<1>7. r \in Path /\ r.slug = x.slug /\ r.note = m  BY <1>4, <1>5, <1>6 DEF Path
<1>8. call' = [call EXCEPT ![p] = [c EXCEPT !.todo = @ \ {x}, !.read = r, !.edits = @ \cup {r}]]
  <2>1. call' = [call EXCEPT ![p] = [c EXCEPT !.todo = @ \ {NextHit(p)},
           !.read = [slug |-> NextHit(p).slug, note |-> Here(NextHit(p))],
           !.edits = @ \cup {[slug |-> NextHit(p).slug, note |-> Here(NextHit(p))]}]]
    BY DEF ReadNote, Recorded, NextHit
  <2> QED  BY <2>1, <1>6 DEF x, m
<1>9. [c EXCEPT !.todo = @ \ {x}, !.read = r, !.edits = @ \cup {r}] \in RenameCall
  <2> HIDE DEF c
  <2>1. c.todo \ {x} \in SUBSET Path /\ c.edits \cup {r} \in SUBSET Path
    BY <1>1, <1>7 DEF RenameCall, c
  <2> QED  BY <1>1, <1>7, <2>1, RenameMoves DEF c
<1>10. call'[p] \in RenameCall  BY <1>8, <1>9 DEF CallsTyped
<1> QED  BY <1>1, <1>3, <1>4, <1>5, <1>7, <1>8, <1>10 DEF In, SamePlace, x, r

(* The write of what was read.                                             *)
LEMMA ReplaceNoteIs ==
  ASSUME FilesTyped, CallsTyped, NEW p \in Procs, ReplaceNote(p)
  PROVE  LET c == call[p]  x == c.read
             old == IF vault[x.slug] = None THEN {} ELSE vault[x.slug] IN
         /\ c \in RenameCall /\ x \in Path
         /\ Rewritten(c, x.note) \in Note /\ Rewritten(c, x.note).name = x.note.name
         /\ Rewritten(c, x.note).text = x.note.text
         /\ old \subseteq Note /\ Put(old, Rewritten(c, x.note)) \in Folder
         /\ vault' = [vault EXCEPT ![x.slug] = Put(old, Rewritten(c, x.note))]
         /\ call' = [call EXCEPT ![p] = [c EXCEPT !.read = None]] /\ call'[p] \in RenameCall
<1> DEFINE c == call[p]  x == c.read
           old == IF vault[x.slug] = None THEN {} ELSE vault[x.slug]
<1>1. c \in RenameCall  BY RunningIs DEF ReplaceNote, Walking
<1>2. x \in Path /\ x.slug \in Slugs /\ x.note \in Note  BY <1>1 DEF ReplaceNote, RenameCall, Path
<1>3. old \subseteq Note  BY <1>2 DEF FilesTyped, Vaults, Folder
<1>4. /\ Rewritten(c, x.note) \in Note /\ Rewritten(c, x.note).name = x.note.name
      /\ Rewritten(c, x.note).text = x.note.text  BY <1>1, <1>2, RewrittenIs
<1>5. Put(old, Rewritten(c, x.note)) \in Folder  BY <1>3, <1>4, PutIs
<1>6. vault' = [vault EXCEPT ![x.slug] = Put(old, Rewritten(c, x.note))]  BY DEF ReplaceNote
<1>7. call' = [call EXCEPT ![p] = [c EXCEPT !.read = None]]  BY DEF ReplaceNote
<1>8. call'[p] \in RenameCall  BY <1>1, <1>7, RenameMoves DEF CallsTyped
<1> QED  BY <1>1, <1>2, <1>3, <1>4, <1>5, <1>6, <1>7, <1>8

LEMMA RenamedIs ==
  ASSUME NEW c \in RenameCall, NEW cfg \in Config
  PROVE  Renamed(cfg, c.from, c.to) \in Config
  BY DEF RenameCall, Config, Renamed

LEMMA RenameCallMoves ==
  ASSUME Types, NEW p \in Procs,
         LinksStart(p) \/ MoveFolder(p) \/ RenameSaves(p) \/ RenameRecords(p) \/ RenameFails(p)
  PROVE  call[p] \in RenameCall /\ call' = [call EXCEPT ![p] = call'[p]]
         /\ CallsTyped' /\ (call'[p] = None \/ call'[p] \in RenameCall)
<1> USE DEF Types
<1>1. call[p] \in RenameCall
  BY RunningIs DEF LinksStart, MoveFolder, RenameSaves, RenameRecords, RenameFails, Walking
<1>2. calls' \in 0 .. MaxCalls
  BY DEF LinksStart, MoveFolder, RenameSaves, RenameRecords, RenameFails, CallsTyped
<1>3. CASE LinksStart(p)
  <2>1. Walk(Slugs \ {call[p].from}) \in SUBSET Path  BY WalkIs
  <2> DEFINE r == [call[p] EXCEPT !.pc = "links", !.todo = Walk(Slugs \ {call[p].from})]
  <2>2. r \in RenameCall  BY <1>1, <2>1, RenameMoves
  <2>3. call' = [call EXCEPT ![p] = r]  BY <1>3 DEF LinksStart
  <2> HIDE DEF r
  <2> QED  BY <1>1, <1>2, <2>2, <2>3, CallSet DEF Calls, CallsTyped
<1>4. CASE MoveFolder(p)
  <2> DEFINE r == [call[p] EXCEPT !.pc = "save", !.todo = {}]
  <2>2. r \in RenameCall  BY <1>1, RenameMoves
  <2>3. call' = [call EXCEPT ![p] = r]  BY <1>4 DEF MoveFolder
  <2> HIDE DEF r
  <2> QED  BY <1>1, <1>2, <2>2, <2>3, CallSet DEF Calls, CallsTyped
<1>5. CASE RenameSaves(p)
  <2> DEFINE r == [call[p] EXCEPT !.pc = "record"]
  <2>2. r \in RenameCall  BY <1>1, RenameMoves
  <2>3. call' = [call EXCEPT ![p] = r]  BY <1>5 DEF RenameSaves
  <2> HIDE DEF r
  <2> QED  BY <1>1, <1>2, <2>2, <2>3, CallSet DEF Calls, CallsTyped
<1>6. CASE RenameRecords(p) \/ RenameFails(p)
  <2>1. call' = [call EXCEPT ![p] = None]  BY <1>6 DEF RenameRecords, RenameFails
  <2> QED  BY <1>1, <1>2, <2>1, CallSet DEF CallsTyped
<1> QED  BY <1>3, <1>4, <1>5, <1>6

LEMMA RenameStepTypes ==
  ASSUME Types, NEW p \in Procs, UNCHANGED <<snaps, aside>>,
         \/ ReadNote(p) \/ ReplaceNote(p) \/ LinksStart(p) \/ MoveFolder(p)
         \/ RenameSaves(p) \/ RenameRecords(p) \/ RenameFails(p)
  PROVE  Types'
<1> USE DEF Types
<1>1. CASE ReadNote(p)
  <2>1. CallsTyped'  BY <1>1, ReadNoteIs, CallSet DEF ReadNote, CallsTyped, Calls
  <2> QED  BY <1>1, <2>1 DEF ReadNote, FilesTyped, ConfigTyped, GhostsTyped
<1>2. CASE ReplaceNote(p)
  <2>1. CallsTyped'  BY <1>2, ReplaceNoteIs, CallSet DEF ReplaceNote, CallsTyped, Calls
  <2>2. vault' \in Vaults  BY <1>2, ReplaceNoteIs, VaultSet DEF FilesTyped, Path
  <2>3. FilesTyped'  BY <1>2, <2>2 DEF ReplaceNote, FilesTyped
  <2>4. call[p].read.note.name \in Names  BY <1>2, ReplaceNoteIs DEF Path, Note
  <2>5. GhostsTyped'  BY <1>2, <2>4, Remembered DEF ReplaceNote, GhostsTyped
  <2>6. ConfigTyped'  BY <1>2 DEF ReplaceNote, ConfigTyped
  <2> QED  BY <2>1, <2>3, <2>5, <2>6
<1>3. CASE LinksStart(p) \/ RenameFails(p)
  <2>1. CallsTyped'  BY <1>3, RenameCallMoves
  <2> QED  BY <1>3, <2>1 DEF LinksStart, RenameFails, FilesTyped, ConfigTyped, GhostsTyped
<1>4. CASE MoveFolder(p)
  <2>1. CallsTyped' /\ call[p] \in RenameCall  BY <1>4, RenameCallMoves
  <2>2. call[p].from \in Slugs /\ call[p].to \in Slugs  BY <2>1 DEF RenameCall
  <2>3. vault' \in Vaults  BY <1>4, <2>2 DEF MoveFolder, FilesTyped, Vaults
  <2>4. FilesTyped'  BY <1>4, <2>3 DEF MoveFolder, FilesTyped
  <2>5. GhostsTyped'  BY <1>4, Remembered DEF MoveFolder, GhostsTyped
  <2>6. ConfigTyped'  BY <1>4 DEF MoveFolder, ConfigTyped
  <2> QED  BY <2>1, <2>4, <2>5, <2>6
<1>5. CASE RenameSaves(p)
  <2>1. CallsTyped' /\ call[p] \in RenameCall  BY <1>5, RenameCallMoves
  <2>2. Renamed(live[p], call[p].from, call[p].to) \in Config  BY <2>1, RenamedIs DEF ConfigTyped
  <2>3. ConfigTyped'  BY <1>5, <2>2 DEF RenameSaves, ConfigTyped
  <2> QED  BY <1>5, <2>1, <2>3 DEF RenameSaves, FilesTyped, GhostsTyped
<1>6. CASE RenameRecords(p)
  <2>1. CallsTyped' /\ call[p] \in RenameCall  BY <1>6, RenameCallMoves
  <2> DEFINE r == [kind |-> "rename", from |-> call[p].from, to |-> call[p].to, edits |-> call[p].edits]
  <2>2. r \in Record  BY <2>1 DEF Record, RenameCall
  <2>3. records' = [records EXCEPT ![call[p].id] = r]  BY <1>6 DEF RenameRecords
  <2> HIDE DEF r
  <2>4. records' \in [Ids -> {None} \cup Record]  BY <2>2, <2>3 DEF FilesTyped
  <2> QED  BY <1>6, <2>1, <2>4 DEF RenameRecords, FilesTyped, ConfigTyped, GhostsTyped
<1> QED  BY <1>1, <1>2, <1>3, <1>4, <1>5, <1>6

LEMMA RecordIs ==
  ASSUME FilesTyped, NEW id \in Ids, records[id] # None
  PROVE  /\ records[id] \in Record
         /\ records[id].from \in Slugs
         /\ records[id].kind = "rename" => records[id].to \in Slugs /\ records[id].edits \in SUBSET Path
  BY DEF FilesTyped, Record

LEMMA DeleteTypes ==
  ASSUME Types, NEW p \in Procs, NEW s \in Slugs, Delete(p, s), UNCHANGED <<snaps, aside>>
  PROVE  Types'
<1> USE DEF Types, Delete
<1>1. NewCall("delete", "record", calls + 1, s, s, {}) \in DeleteCall  BY NextId DEF DeleteCall
<1>2. CallsTyped'  BY <1>1, CallBegins DEF Calls
<1>3. vault' \in Vaults  BY VaultSet DEF FilesTyped
<1>4. trash' \in [Ids -> {None} \cup Folder]  BY DEF FilesTyped, Vaults
<1>5. FilesTyped'  BY <1>3, <1>4 DEF FilesTyped
<1>6. GhostsTyped'
  <2>1. origin' \in [Ids -> {None} \cup Vaults]  BY DEF FilesTyped
  <2> QED  BY <2>1 DEF GhostsTyped
<1>7. ConfigTyped'  BY DEF ConfigTyped
<1> QED  BY <1>2, <1>5, <1>6, <1>7

LEMMA DeleteSavesIs ==
  ASSUME ConfigTyped, CallsTyped, NEW p \in Procs, DeleteWork(p), Running(p, "delete")
  PROVE  [live[p] EXCEPT !.domains = @ \ {call[p].from}] \in Config
<1>1. live[p] \in Config /\ call[p].from # personal  BY RunningIs DEF ConfigTyped, DeleteCall
<1>2. live[p].active # call[p].from /\ live[p].domains \ {personal, call[p].from} # {}
  BY DEF DeleteWork
<1> QED  BY <1>1, <1>2 DEF Config

LEMMA DeleteStepTypes ==
  ASSUME Types, NEW p \in Procs, DeleteWork(p), UNCHANGED <<snaps, aside>>,
         DeleteRecords(p) \/ DeleteSaves(p) \/ DeleteFails(p)
  PROVE  Types'
<1> USE DEF Types
<1>1. call[p] \in DeleteCall /\ Running(p, "delete")
  BY RunningIs DEF DeleteRecords, DeleteSaves, DeleteFails
<1>2. calls' \in 0 .. MaxCalls  BY DEF DeleteRecords, DeleteSaves, DeleteFails, CallsTyped
<1>3. CASE DeleteRecords(p)
  <2>1. CallsTyped'  BY <1>1, <1>2, <1>3, TodoMoves, CallSet DEF DeleteRecords, Calls
  <2> DEFINE r == [kind |-> "delete", from |-> call[p].from]
  <2>2. r \in Record  BY <1>1 DEF Record, DeleteCall
  <2>3. records' = [records EXCEPT ![call[p].id] = r]  BY <1>3 DEF DeleteRecords
  <2> HIDE DEF r
  <2>4. records' \in [Ids -> {None} \cup Record]  BY <2>2, <2>3 DEF FilesTyped
  <2> QED  BY <1>3, <2>1, <2>4 DEF DeleteRecords, FilesTyped, ConfigTyped, GhostsTyped
<1>4. CASE DeleteSaves(p)
  <2>1. CallsTyped'  BY <1>2, <1>4, CallSet DEF DeleteSaves
  <2>2. ConfigTyped'  BY <1>1, <1>4, DeleteSavesIs DEF DeleteSaves, ConfigTyped
  <2> QED  BY <1>4, <2>1, <2>2 DEF DeleteSaves, FilesTyped, GhostsTyped
<1>5. CASE DeleteFails(p)
  <2>1. CallsTyped'  BY <1>2, <1>5, CallSet DEF DeleteFails
  <2> QED  BY <1>5, <2>1 DEF DeleteFails, FilesTyped, ConfigTyped, GhostsTyped
<1> QED  BY <1>3, <1>4, <1>5

LEMMA UndoDeleteTypes ==
  ASSUME Types, NEW p \in Procs, NEW id \in Ids, UndoDelete(p, id), UNCHANGED <<snaps, aside>>
  PROVE  Types'
<1> USE DEF Types, UndoDelete
<1>1. records[id].from \in Slugs  BY RecordIs
<1>2. trash[id] \in Folder  BY DEF FilesTyped
<1>3. vault' \in Vaults  BY <1>1, <1>2, VaultSet DEF FilesTyped
<1>4. FilesTyped'  BY <1>3 DEF FilesTyped
<1>5. CallsTyped'  BY NextId DEF CallsTyped
<1>6. GhostsTyped'  BY Remembered DEF GhostsTyped
<1>7. ConfigTyped'  BY DEF ConfigTyped
<1> QED  BY <1>4, <1>5, <1>6, <1>7

LEMMA UndoRenameTypes ==
  ASSUME Types, NEW p \in Procs, NEW id \in Ids, UndoRename(p, id), UNCHANGED <<snaps, aside>>
  PROVE  Types'
<1> USE DEF Types, UndoRename, Undoes
<1>1. /\ records[id].from \in Slugs /\ records[id].to \in Slugs
      /\ records[id].edits \in SUBSET Path  BY RecordIs
<1>2. NewCall("undo", "files", id, records[id].from, records[id].to, records[id].edits) \in UndoCall
  BY <1>1 DEF UndoCall
<1>3. CallsTyped'  BY <1>2, CallBegins DEF Calls
<1>4. vault' \in Vaults  BY <1>1 DEF FilesTyped, Vaults
<1>5. FilesTyped'  BY <1>4 DEF FilesTyped
<1>6. GhostsTyped'  BY Remembered DEF GhostsTyped
<1>7. ConfigTyped'  BY DEF ConfigTyped
<1> QED  BY <1>3, <1>5, <1>6, <1>7

(* The next note an undo puts back.                                        *)
NextEdit(p) == CHOOSE y \in call[p].todo : TRUE

LEMMA UndoNoteIs ==
  ASSUME FilesTyped, CallsTyped, NEW p \in Procs, UndoNote(p)
  PROVE  LET x == NextEdit(p) IN
         /\ call[p] \in UndoCall /\ x \in call[p].todo /\ x \in Path
         /\ vault[x.slug] \in Folder /\ vault[x.slug] # None
         /\ vault' = [vault EXCEPT ![x.slug] = Put(vault[x.slug], x.note)]
         /\ Put(vault[x.slug], x.note) \in Folder
         /\ forfeit' = forfeit \cup (IF latest[x.note.name] = x.note.text THEN {} ELSE {x.note.name})
         /\ call' = [call EXCEPT ![p] = [call[p] EXCEPT !.todo = @ \ {x}]] /\ call'[p] \in UndoCall
<1> DEFINE x == NextEdit(p)
<1>1. call[p] \in UndoCall  BY RunningIs DEF UndoNote
<1>2. x \in call[p].todo  BY DEF UndoNote, NextEdit
<1>3. x \in Path /\ x.slug \in Slugs /\ x.note \in Note  BY <1>1, <1>2 DEF UndoCall, Path
<1>4. vault[x.slug] \in Folder /\ vault[x.slug] # None
  BY <1>3 DEF UndoNote, NextEdit, FilesTyped, Vaults
<1>5. Put(vault[x.slug], x.note) \in Folder  BY <1>3, <1>4, PutIs DEF Folder
<1>6. /\ vault' = [vault EXCEPT ![x.slug] = Put(vault[x.slug], x.note)]
      /\ forfeit' = forfeit \cup (IF latest[x.note.name] = x.note.text THEN {} ELSE {x.note.name})
      /\ call' = [call EXCEPT ![p] = [call[p] EXCEPT !.todo = @ \ {x}]]
  BY DEF UndoNote, NextEdit
<1> HIDE DEF x
<1>7. call[p].todo \ {x} \in SUBSET Path  BY <1>1 DEF UndoCall
<1>8. call'[p] \in UndoCall  BY <1>1, <1>6, <1>7, TodoMoves DEF CallsTyped
<1> QED  BY <1>1, <1>2, <1>3, <1>4, <1>5, <1>6, <1>8 DEF x

LEMMA UndoStepTypes ==
  ASSUME Types, NEW p \in Procs, UndoNote(p) \/ UndoEnds(p) \/ UndoFails(p), UNCHANGED <<snaps, aside>>
  PROVE  Types'
<1> USE DEF Types
<1>1. CASE UndoNote(p)
  <2>1. CallsTyped'  BY <1>1, UndoNoteIs, CallSet DEF UndoNote, CallsTyped, Calls
  <2>2. vault' \in Vaults  BY <1>1, UndoNoteIs, VaultSet DEF FilesTyped, Path
  <2>3. FilesTyped'  BY <1>1, <2>2 DEF UndoNote, FilesTyped
  <2>4. NextEdit(p).note.name \in Names  BY <1>1, UndoNoteIs DEF Path, Note
  <2>5. forfeit' \subseteq Names  BY <1>1, <2>4, UndoNoteIs DEF GhostsTyped
  <2>6. GhostsTyped'  BY <1>1, <2>5, Remembered DEF UndoNote, GhostsTyped
  <2>7. ConfigTyped'  BY <1>1 DEF UndoNote, ConfigTyped
  <2> QED  BY <2>1, <2>3, <2>6, <2>7
<1>2. CASE UndoEnds(p) \/ UndoFails(p)
  <2>1. CallsTyped'  BY <1>2, CallSet DEF UndoEnds, UndoFails, CallsTyped
  <2>2. call[p].id \in Ids  BY <1>2, RunningIs DEF UndoEnds, UndoFails, UndoCall
  <2>3. GhostsTyped'  BY <1>2, <2>2 DEF UndoEnds, UndoFails, GhostsTyped
  <2> QED  BY <1>2, <2>1, <2>3 DEF UndoEnds, UndoFails, FilesTyped, ConfigTyped
<1> QED  BY <1>1, <1>2

LEMMA ItemsIs == Items \in SUBSET (Slugs \cup {InBrain})
  BY DEF Items

LEMMA NextItemIs ==
  ASSUME NEW todo, todo # {}
  PROVE  NextItem(todo) \in todo /\ (InBrain \in todo <=> NextItem(todo) = InBrain)
  BY DEF NextItem

LEMMA PackedTyped ==
  ASSUME FilesTyped, ConfigTyped, NEW image \in Image, NEW i \in Slugs \cup {InBrain}
  PROVE  /\ Packed(image, i) \in Image /\ Packed(image, i).readable = image.readable
         /\ [image EXCEPT !.readable = TRUE] \in Image
<1>1. Brain \in BrainType  BY DEF FilesTyped, ConfigTyped, BrainType, Brain
<1>2. CASE i = InBrain  BY <1>1, <1>2 DEF Packed, Image
<1>3. CASE i # InBrain
  <2>1. [image.vault EXCEPT ![i] = vault[i]] \in Vaults  BY <1>3 DEF FilesTyped, Vaults, Image
  <2>2. Packed(image, i) = [image EXCEPT !.vault = [image.vault EXCEPT ![i] = vault[i]]]
    BY <1>3 DEF Packed, Image
  <2> HIDE DEF Packed
  <2> QED  BY <2>1, <2>2 DEF Image
<1> QED  BY <1>2, <1>3

LEMMA SnapshotStartsTypes ==
  ASSUME Types, NEW p \in Procs, SnapshotStarts(p)
  PROVE  Types'
<1> USE DEF Types, SnapshotStarts
<1>1. NewCall("snapshot", "pack", calls + 1, None, None, Items) \in SnapshotCall
  BY NextId, ItemsIs DEF SnapshotCall
<1>2. CallsTyped'  BY <1>1, CallBegins DEF Calls
<1>3. Empty \in Image  BY DEF Empty, Image, Nothing, BrainType, Vaults
<1>4. snaps' \in [Ids -> {None} \cup Image]  BY <1>3 DEF FilesTyped
<1>5. FilesTyped'  BY <1>4 DEF FilesTyped
<1>6. GhostsTyped'
  <2>1. origin' \in [Ids -> {None} \cup Vaults]  BY DEF GhostsTyped, FilesTyped
  <2> QED  BY <2>1 DEF GhostsTyped
<1>7. ConfigTyped'  BY DEF ConfigTyped
<1> QED  BY <1>2, <1>5, <1>6, <1>7

LEMMA PackStepTypes ==
  ASSUME Types, NEW p \in Procs, SnapshotWork(p), Pack(p) \/ PackEnds(p) \/ PackFails(p)
  PROVE  Types'
<1> USE DEF Types
<1>1. call[p] \in SnapshotCall /\ Running(p, "snapshot")
  BY RunningIs DEF Pack, PackEnds, PackFails
<1>2. call[p].id \in Ids /\ snaps[call[p].id] \in Image  BY <1>1 DEF SnapshotCall, SnapshotWork
<1>3. calls' \in 0 .. MaxCalls  BY DEF Pack, PackEnds, PackFails, CallsTyped
<1>4. CASE Pack(p)
  <2> DEFINE i == NextItem(call[p].todo)
  <2>1. i \in Slugs \cup {InBrain}  BY <1>1, <1>4, NextItemIs DEF Pack, SnapshotCall
  <2>2. /\ snaps' = [snaps EXCEPT ![call[p].id] = Packed(snaps[call[p].id], i)]
        /\ call' = [call EXCEPT ![p] = [call[p] EXCEPT !.todo = call[p].todo \ {i}]]
    BY <1>4 DEF Pack
  <2> HIDE DEF i
  <2>3. snaps' \in [Ids -> {None} \cup Image]  BY <1>2, <2>1, <2>2, PackedTyped DEF FilesTyped
  <2>4. [call[p] EXCEPT !.todo = call[p].todo \ {i}] \in SnapshotCall
    <3>1. call[p].todo \ {i} \in SUBSET (Slugs \cup {InBrain})  BY <1>1 DEF SnapshotCall
    <3> QED  BY <1>1, <3>1, TodoMoves
  <2>5. CallsTyped'  BY <1>3, <2>2, <2>4, CallSet DEF Calls
  <2> QED  BY <1>4, <2>3, <2>5 DEF Pack, FilesTyped, ConfigTyped, GhostsTyped
<1>5. CASE PackEnds(p) \/ PackFails(p)
  <2>1. snaps' = [snaps EXCEPT ![call[p].id] = [snaps[call[p].id] EXCEPT !.readable = TRUE]]
    BY <1>2, <1>5 DEF PackEnds, PackFails, FilesTyped
  <2>2. [snaps[call[p].id] EXCEPT !.readable = TRUE] \in Image  BY <1>2 DEF Image
  <2>3. snaps' \in [Ids -> {None} \cup Image]  BY <2>1, <2>2 DEF FilesTyped
  <2>4. CallsTyped'  BY <1>3, <1>5, CallSet DEF PackEnds, PackFails
  <2> QED  BY <1>5, <2>3, <2>4 DEF PackEnds, PackFails, FilesTyped, ConfigTyped, GhostsTyped
<1> QED  BY <1>4, <1>5

LEMMA RestoreStartsTypes ==
  ASSUME Types, NEW p \in Procs, NEW id \in Ids, RestoreStarts(p, id)
  PROVE  Types'
<1> USE DEF Types, RestoreStarts
<1> DEFINE r == [NewCall("restore", "aside", calls + 1, None, None, Items) EXCEPT !.read = id]
<1>1. r \in RestoreCall  BY NextId, ItemsIs DEF RestoreCall
<1>2. CallsTyped'
  <2>1. Begins(p, r)  OBVIOUS
  <2> HIDE DEF r, RestoreStarts, Begins
  <2> QED  BY <1>1, <2>1, CallBegins DEF Calls
<1>3. snaps[id].vault \in Vaults  BY DEF FilesTyped, Image
<1>4. GhostsTyped'
  <2>1. origin' \in [Ids -> {None} \cup Vaults]  BY <1>3 DEF GhostsTyped
  <2> QED  BY <2>1 DEF GhostsTyped
<1> QED  BY <1>2, <1>4 DEF FilesTyped, ConfigTyped

LEMMA MoveAsideTypes ==
  ASSUME Types, NEW p \in Procs, MoveAside(p)
  PROVE  Types'
<1> USE DEF Types, MoveAside, MovesAside
<1>1. call[p] \in RestoreCall  BY RunningIs
<1>2. PICK i \in call[p].todo :
         /\ call' = [call EXCEPT ![p] = [call[p] EXCEPT !.todo = call[p].todo \ {i}]]
         /\ IF i = InBrain
            THEN /\ config' = None /\ trash' = Nothing.trash /\ records' = Nothing.records
                 /\ aside' = aside \cup (Trashed(trash) \cup Prior(records))
                 /\ UNCHANGED vault
            ELSE /\ Exists(i)
                 /\ vault' = [vault EXCEPT ![i] = None]
                 /\ aside' = aside \cup vault[i]
                 /\ UNCHANGED <<trash, records, config>>
  OBVIOUS
<1>3. CallsTyped'
  <2>1. call[p].todo \ {i} \in SUBSET (Slugs \cup {InBrain})  BY <1>1 DEF RestoreCall
  <2>2. [call[p] EXCEPT !.todo = call[p].todo \ {i}] \in RestoreCall  BY <1>1, <2>1, TodoMoves
  <2> QED  BY <1>2, <2>2, CallSet DEF Calls, CallsTyped
<1>4. i \in Slugs \cup {InBrain}  BY <1>1 DEF RestoreCall
<1>5. GhostsTyped'  BY Remembered DEF GhostsTyped
<1>6. CASE i = InBrain
  <2>1. Trashed(trash) \subseteq Note  BY DEF Trashed, FilesTyped, Folder
  <2>2. Prior(records) \subseteq Note
    <3>1. \A j \in Ids : records[j] # None /\ records[j].kind = "rename" => records[j].edits \subseteq Path
      BY RecordIs
    <3> QED  BY <3>1 DEF Prior, Path
  <2>3. FilesTyped'  BY <1>2, <1>6, <2>1, <2>2 DEF FilesTyped, Nothing
  <2>4. ConfigTyped'  BY <1>2, <1>6 DEF ConfigTyped
  <2> QED  BY <1>3, <1>5, <2>3, <2>4
<1>7. CASE i # InBrain
  <2>1. i \in Slugs /\ vault[i] \subseteq Note  BY <1>2, <1>4, <1>7 DEF FilesTyped, Vaults, Folder
  <2>2. vault' \in Vaults  BY <1>2, <1>7, <2>1, VaultSet DEF FilesTyped
  <2>3. FilesTyped'  BY <1>2, <1>7, <2>1, <2>2 DEF FilesTyped
  <2>4. ConfigTyped'  BY <1>2, <1>7 DEF ConfigTyped
  <2> QED  BY <1>3, <1>5, <2>3, <2>4
<1> QED  BY <1>6, <1>7

LEMMA OverTyped ==
  /\ \A f, g \in [Ids -> {None} \cup Folder] : Over(f, g) \in [Ids -> {None} \cup Folder]
  /\ \A f, g \in [Ids -> {None} \cup Record] : Over(f, g) \in [Ids -> {None} \cup Record]
  BY DEF Over

LEMMA MergeTyped ==
  ASSUME NEW f \in Folder, NEW g \in Folder
  PROVE  Merge(f, g) \in Folder
  BY DEF Folder, Merge

(* The archive a restore extracts, and the item it is at.                  *)
ImageOf(p) == snaps[call[p].read]
ItemOf(p) == NextItem(call[p].todo)

LEMMA ExtractIs ==
  ASSUME FilesTyped, CallsTyped, NEW p \in Procs, RestoreWork(p), Extract(p)
  PROVE  /\ call[p] \in RestoreCall /\ ImageOf(p) \in Image /\ ImageOf(p).readable
         /\ call[p].read \in Ids /\ call[p].id \in Ids
         /\ ItemOf(p) \in call[p].todo /\ (InBrain \in call[p].todo <=> ItemOf(p) = InBrain)
         /\ call' = [call EXCEPT ![p] = [call[p] EXCEPT !.todo = call[p].todo \ {ItemOf(p)}]]
         /\ call'[p] \in RestoreCall
         /\ ItemOf(p) = InBrain =>
              /\ config' = IF ImageOf(p).brain.config = None THEN config ELSE ImageOf(p).brain.config
              /\ trash' = Over(trash, ImageOf(p).brain.trash)
              /\ records' = Over(records, ImageOf(p).brain.records)
              /\ UNCHANGED <<vault, forfeit>>
         /\ ItemOf(p) # InBrain =>
              /\ ItemOf(p) \in Slugs /\ ImageOf(p).vault[ItemOf(p)] \in Folder
              /\ ImageOf(p).vault[ItemOf(p)] # None
              /\ vault' = [vault EXCEPT ![ItemOf(p)] =
                    IF vault[ItemOf(p)] = None THEN ImageOf(p).vault[ItemOf(p)]
                    ELSE Merge(vault[ItemOf(p)], ImageOf(p).vault[ItemOf(p)])]
              /\ forfeit' = forfeit \cup
                    IF Exists(ItemOf(p))
                    THEN NamesIn(vault[ItemOf(p)]) \cap NamesIn(ImageOf(p).vault[ItemOf(p)]) ELSE {}
              /\ UNCHANGED <<trash, records, config>>
<1>1. call[p] \in RestoreCall  BY RunningIs DEF Extract
<1>2. ImageOf(p) \in Image /\ ImageOf(p).readable  BY DEF Extract, RestoreWork, ImageOf
<1>3. ItemOf(p) \in call[p].todo /\ (InBrain \in call[p].todo <=> ItemOf(p) = InBrain)
  BY NextItemIs DEF Extract, ItemOf
<1>4. call' = [call EXCEPT ![p] = [call[p] EXCEPT !.todo = call[p].todo \ {ItemOf(p)}]]
  BY DEF Extract, ItemOf
<1>5. call'[p] \in RestoreCall
  <2>1. call[p].todo \ {ItemOf(p)} \in SUBSET (Slugs \cup {InBrain})  BY <1>1 DEF RestoreCall
  <2>2. [call[p] EXCEPT !.todo = call[p].todo \ {ItemOf(p)}] \in RestoreCall
    BY <1>1, <2>1, TodoMoves
  <2> QED  BY <1>4, <2>2 DEF CallsTyped
<1>6. ItemOf(p) = InBrain =>
              /\ config' = IF ImageOf(p).brain.config = None THEN config ELSE ImageOf(p).brain.config
              /\ trash' = Over(trash, ImageOf(p).brain.trash)
              /\ records' = Over(records, ImageOf(p).brain.records)
              /\ UNCHANGED <<vault, forfeit>>
  BY DEF Extract, ItemOf, ImageOf
<1>7. ItemOf(p) # InBrain =>
              /\ vault' = [vault EXCEPT ![ItemOf(p)] =
                    IF vault[ItemOf(p)] = None THEN ImageOf(p).vault[ItemOf(p)]
                    ELSE Merge(vault[ItemOf(p)], ImageOf(p).vault[ItemOf(p)])]
              /\ forfeit' = forfeit \cup
                    IF Exists(ItemOf(p))
                    THEN NamesIn(vault[ItemOf(p)]) \cap NamesIn(ImageOf(p).vault[ItemOf(p)]) ELSE {}
              /\ UNCHANGED <<trash, records, config>>
  BY DEF Extract, ItemOf, ImageOf
<1>8. ItemOf(p) # InBrain =>
              /\ ItemOf(p) \in Slugs /\ ImageOf(p).vault[ItemOf(p)] \in Folder
              /\ ImageOf(p).vault[ItemOf(p)] # None
  <2> SUFFICES ASSUME ItemOf(p) # InBrain
               PROVE  /\ ItemOf(p) \in Slugs /\ ImageOf(p).vault[ItemOf(p)] \in Folder
                      /\ ImageOf(p).vault[ItemOf(p)] # None
    OBVIOUS
  <2>1. ItemOf(p) \in Slugs  BY <1>1, <1>3 DEF RestoreCall
  <2>2. ImageOf(p).vault[ItemOf(p)] # None  BY <1>3 DEF Extract, RestoreWork, ImageOf
  <2> QED  BY <1>2, <2>1, <2>2 DEF Image, Vaults
<1>9. call[p].read \in Ids /\ call[p].id \in Ids  BY <1>1 DEF RestoreCall
<1> QED  BY <1>1, <1>2, <1>3, <1>4, <1>5, <1>6, <1>7, <1>8, <1>9

LEMMA ExtractTypes ==
  ASSUME Types, NEW p \in Procs, RestoreWork(p), Extract(p)
  PROVE  Types'
<1> USE DEF Types
<1>1. CallsTyped'  BY ExtractIs, CallSet DEF Extract, Calls, CallsTyped
<1>2. UNCHANGED <<live, latest, reached, edits, snaps, aside, apart>>  BY DEF Extract
<1>3. origin' \in [Ids -> {None} \cup Vaults]  BY Remembered DEF Extract
<1>4. CASE ItemOf(p) = InBrain
  <2>1. ImageOf(p).brain \in BrainType  BY ExtractIs DEF Image
  <2>2. trash' \in [Ids -> {None} \cup Folder] /\ records' \in [Ids -> {None} \cup Record]
    BY <1>4, <2>1, ExtractIs, OverTyped DEF BrainType, FilesTyped
  <2>3. config' \in {None} \cup Config  BY <1>4, <2>1, ExtractIs DEF BrainType, ConfigTyped
  <2>4. UNCHANGED <<vault, forfeit>>  BY <1>4, ExtractIs
  <2> QED  BY <1>1, <1>2, <1>3, <2>2, <2>3, <2>4 DEF FilesTyped, ConfigTyped, GhostsTyped
<1>5. CASE ItemOf(p) # InBrain
  <2> DEFINE i == ItemOf(p)  g == ImageOf(p).vault[i]
             f == IF vault[i] = None THEN g ELSE Merge(vault[i], g)
  <2>1. i \in Slugs /\ g \in Folder  BY <1>5, ExtractIs
  <2>2. f \in Folder
    <3>1. vault[i] \in {None} \cup Folder  BY <2>1 DEF FilesTyped, Vaults
    <3> QED  BY <2>1, <3>1, MergeTyped
  <2>3. vault' = [vault EXCEPT ![i] = f] /\ UNCHANGED <<trash, records, config>>
    BY <1>5, ExtractIs
  <2>4. forfeit' \subseteq Names
    <3>1. NamesIn(g) \subseteq Names  BY <2>1 DEF NamesIn, Folder, Note
    <3> QED  BY <1>5, <3>1, ExtractIs DEF GhostsTyped
  <2> HIDE DEF f
  <2>5. vault' \in Vaults  BY <2>1, <2>2, <2>3, VaultSet DEF FilesTyped
  <2> QED  BY <1>1, <1>2, <1>3, <2>3, <2>4, <2>5 DEF FilesTyped, ConfigTyped, GhostsTyped
<1> QED  BY <1>4, <1>5

LEMMA RestoreStepTypes ==
  ASSUME Types, NEW p \in Procs, RestoreWork(p),
         ExtractStarts(p) \/ RestoreEnds(p) \/ RestoreFails(p)
  PROVE  Types'
<1> USE DEF Types
<1>1. call[p] \in RestoreCall /\ calls' \in 0 .. MaxCalls
  BY RunningIs DEF ExtractStarts, RestoreEnds, RestoreFails, CallsTyped
<1>2. CASE ExtractStarts(p)
  <2> DEFINE t == {InBrain} \cup {s \in Slugs : snaps[call[p].read].vault[s] # None}
  <2>1. call' = [call EXCEPT ![p] = [call[p] EXCEPT !.pc = "extract", !.todo = t]]
    BY <1>2 DEF ExtractStarts
  <2>2. t \in SUBSET (Slugs \cup {InBrain})  OBVIOUS
  <2> HIDE DEF t
  <2>3. [call[p] EXCEPT !.pc = "extract", !.todo = t] \in RestoreCall  BY <1>1, <2>2, TodoMoves
  <2>4. CallsTyped'  BY <1>1, <2>1, <2>3, CallSet DEF Calls
  <2> QED  BY <1>2, <2>4 DEF ExtractStarts, FilesTyped, ConfigTyped, GhostsTyped
<1>3. CASE RestoreEnds(p) \/ RestoreFails(p)
  <2>1. CallsTyped'  BY <1>1, <1>3, CallSet DEF RestoreEnds, RestoreFails
  <2>2. reached' \in Ids \cup {None}  BY <1>1, <1>3 DEF RestoreEnds, RestoreFails, RestoreCall, GhostsTyped
  <2> QED  BY <1>3, <2>1, <2>2 DEF RestoreEnds, RestoreFails, FilesTyped, ConfigTyped, GhostsTyped
<1> QED  BY <1>2, <1>3

LEMMA DieTypes ==
  ASSUME Types, NEW p \in Procs, Die(p)
  PROVE  Types'
<1> USE DEF Types
<1>1. CallsTyped'  BY CallSet DEF Die, CallsTyped
<1>2. ConfigTyped'  BY LoadedTyped DEF Die, ConfigTyped
<1> QED  BY <1>1, <1>2 DEF Die, FilesTyped, GhostsTyped

LEMMA InitialTypes ==
  ASSUME None \notin Folder \cup Image \cup Calls, InitBackup
  PROVE  Types
<1> USE DEF InitBackup, Init
<1>1. FilesTyped  BY DomainAssumption DEF FilesTyped
<1>2. ConfigTyped  BY DomainAssumption DEF ConfigTyped
<1>3. CallsTyped  BY DomainAssumption DEF CallsTyped
<1>4. GhostsTyped  BY DomainAssumption DEF GhostsTyped, Text
<1> QED  BY <1>1, <1>2, <1>3, <1>4 DEF Types
-----------------------------------------------------------------------------
(* Steps of one process leave the calls of the others alone.               *)

Starts(p) ==
  \/ \E s \in Slugs : Create(p, s) \/ Delete(p, s)
  \/ \E a, b \in Slugs : RenameStarts(p, a, b)
  \/ \E id \in Ids : UndoRename(p, id)
  \/ SnapshotStarts(p)
  \/ \E id \in Ids : RestoreStarts(p, id)

ByOne(p) ==
  \/ (Reload(p) \/ DomainStep(p) \/ \E id \in Ids : UndoDelete(p, id)) /\ UNCHANGED <<snaps, aside>>
  \/ (\E s \in Slugs : Create(p, s) \/ Delete(p, s)) /\ UNCHANGED <<snaps, aside>>
  \/ (\E a, b \in Slugs : RenameStarts(p, a, b)) /\ UNCHANGED <<snaps, aside>>
  \/ (\E id \in Ids : UndoRename(p, id)) /\ UNCHANGED <<snaps, aside>>
  \/ SnapshotStarts(p) \/ BackupStep(p) \/ Die(p)
  \/ \E id \in Ids : RestoreStarts(p, id)

ByNobody ==
  (\E s \in Slugs, n \in Names : EditNote(s, n) \/ AddNote(s, n)) /\ UNCHANGED <<snaps, aside>>

LEMMA NextIs ==
  ASSUME [Next]_vars
  PROVE  ByNobody \/ (\E p \in Procs : ByOne(p)) \/ UNCHANGED vars
  BY DEF Next, DomainNext, ByNobody, ByOne, Exhausted

LEMMA TypesKept ==
  ASSUME Types, WorkOK, [Next]_vars
  PROVE  Types'
<1>1. CASE ByNobody  BY <1>1, EditNoteTypes, AddNoteTypes DEF ByNobody
<1>2. ASSUME NEW p \in Procs, ByOne(p)  PROVE Types'
  <2>0. DeleteWork(p) /\ SnapshotWork(p) /\ RestoreWork(p)  BY DEF WorkOK
  <2>1. CASE (Reload(p) \/ DomainStep(p) \/ \E id \in Ids : UndoDelete(p, id)) /\ UNCHANGED <<snaps, aside>>
    BY <2>0, <2>1, ReloadTypes, CreateStepTypes, RenameStepTypes, DeleteStepTypes, UndoStepTypes,
       UndoDeleteTypes DEF DomainStep
  <2>2. CASE (\E s \in Slugs : Create(p, s) \/ Delete(p, s)) /\ UNCHANGED <<snaps, aside>>
    BY <2>2, CreateTypes, DeleteTypes
  <2>3. CASE (\E a, b \in Slugs : RenameStarts(p, a, b)) /\ UNCHANGED <<snaps, aside>>
    BY <2>3, RenameStartsTypes
  <2>4. CASE (\E id \in Ids : UndoRename(p, id)) /\ UNCHANGED <<snaps, aside>>
    BY <2>4, UndoRenameTypes
  <2>5. CASE SnapshotStarts(p) \/ BackupStep(p) \/ Die(p)
    BY <2>0, <2>5, SnapshotStartsTypes, PackStepTypes, MoveAsideTypes, ExtractTypes, RestoreStepTypes,
       DieTypes DEF BackupStep
  <2>6. CASE \E id \in Ids : RestoreStarts(p, id)  BY <2>6, RestoreStartsTypes
  <2> QED  BY <1>2, <2>1, <2>2, <2>3, <2>4, <2>5, <2>6 DEF ByOne
<1>3. CASE UNCHANGED vars
  BY <1>3 DEF vars, domainVars, Types, FilesTyped, ConfigTyped, CallsTyped, GhostsTyped
<1> QED  BY <1>1, <1>2, <1>3, NextIs

LEMMA OthersStay ==
  ASSUME Types, NEW p \in Procs, ByOne(p), NEW q \in Procs \ {p}
  PROVE  call'[q] = call[q] /\ live'[q] = live[q]
<1> USE DEF Types, CallsTyped, ConfigTyped
<1>1. CASE Reload(p) \/ \E id \in Ids : UndoDelete(p, id)
  BY <1>1 DEF Reload, UndoDelete
<1>2. CASE DomainStep(p)
  <2>1. CASE CreateSaves(p) \/ CreateFails(p)  BY <2>1 DEF CreateSaves, CreateFails
  <2>2. CASE ReadNote(p) \/ ReplaceNote(p) \/ LinksStart(p)  BY <2>2 DEF ReadNote, ReplaceNote, LinksStart
  <2>3. CASE MoveFolder(p) \/ RenameSaves(p) \/ RenameRecords(p) \/ RenameFails(p)
    BY <2>3 DEF MoveFolder, RenameSaves, RenameRecords, RenameFails
  <2>4. CASE DeleteRecords(p) \/ DeleteSaves(p) \/ DeleteFails(p)
    BY <2>4 DEF DeleteRecords, DeleteSaves, DeleteFails
  <2>5. CASE UndoNote(p) \/ UndoEnds(p) \/ UndoFails(p)  BY <2>5 DEF UndoNote, UndoEnds, UndoFails
  <2> QED  BY <1>2, <2>1, <2>2, <2>3, <2>4, <2>5 DEF DomainStep
<1>3. CASE Starts(p)
  BY <1>3 DEF Starts, Create, Delete, RenameStarts, UndoRename, Undoes, SnapshotStarts, RestoreStarts
<1>4. CASE BackupStep(p) \/ Die(p)
  <2>1. CASE Pack(p) \/ PackEnds(p) \/ PackFails(p)  BY <2>1 DEF Pack, PackEnds, PackFails
  <2>2. CASE MoveAside(p)  BY <2>2 DEF MoveAside, MovesAside
  <2>3. CASE ExtractStarts(p) \/ Extract(p)  BY <2>3 DEF ExtractStarts, Extract
  <2>4. CASE RestoreEnds(p) \/ RestoreFails(p) \/ Die(p)  BY <2>4 DEF RestoreEnds, RestoreFails, Die
  <2> QED  BY <1>4, <2>1, <2>2, <2>3, <2>4 DEF BackupStep
<1> QED  BY <1>1, <1>2, <1>3, <1>4 DEF ByOne, Starts

LEMMA ArchivesStay ==
  ASSUME Types, NEW p \in Procs, ByOne(p), NEW k \in Ids, k <= calls,
         ~(Running(p, "snapshot") /\ call[p].id = k)
  PROVE  snaps'[k] = snaps[k]
<1> USE DEF Types, FilesTyped
<1>1. CASE UNCHANGED snaps  BY <1>1
<1>2. CASE SnapshotStarts(p)
  BY <1>2, NextId DEF SnapshotStarts, CallsTyped, Ids
<1>3. CASE Pack(p) \/ PackEnds(p) \/ PackFails(p)
  BY <1>3 DEF Pack, PackEnds, PackFails
<1>4. UNCHANGED snaps \/ SnapshotStarts(p) \/ Pack(p) \/ PackEnds(p) \/ PackFails(p)
  BY DEF ByOne, BackupStep, Die, RestoreStarts, MoveAside, MovesAside, ExtractStarts, Extract,
         RestoreEnds, RestoreFails
<1> QED  BY <1>1, <1>2, <1>3, <1>4

LEMMA CallsGrow ==
  ASSUME Types, Types', NEW p \in Procs, ByOne(p)
  PROVE  calls \in Nat /\ calls' \in Nat /\ calls <= calls' /\ (calls' = calls \/ calls' = calls + 1)
<1>1. calls \in Nat /\ calls' \in Nat  BY DomainAssumption DEF Types, CallsTyped
<1>2. CASE Starts(p) \/ Reload(p) \/ \E id \in Ids : UndoDelete(p, id)
  <2>1. calls' = calls \/ calls' = calls + 1
    <3>1. CASE \E s \in Slugs : Create(p, s) \/ Delete(p, s)  BY <3>1 DEF Create, Delete
    <3>2. CASE \E a, b \in Slugs : RenameStarts(p, a, b)  BY <3>2 DEF RenameStarts
    <3>3. CASE \E id \in Ids : UndoRename(p, id) \/ RestoreStarts(p, id) \/ UndoDelete(p, id)
      BY <3>3 DEF UndoRename, Undoes, RestoreStarts, UndoDelete
    <3>4. CASE SnapshotStarts(p) \/ Reload(p)  BY <3>4 DEF SnapshotStarts, Reload
    <3> QED  BY <1>2, <3>1, <3>2, <3>3, <3>4 DEF Starts
  <2> QED  BY <2>1, <1>1
<1>3. CASE DomainStep(p)
  <2>1. UNCHANGED calls
    BY <1>3 DEF DomainStep, CreateSaves, CreateFails, ReadNote, ReplaceNote, LinksStart, MoveFolder,
                RenameSaves, RenameRecords, RenameFails, DeleteRecords, DeleteSaves, DeleteFails,
                UndoNote, UndoEnds, UndoFails
  <2> QED  BY <2>1, <1>1
<1>4. CASE BackupStep(p) \/ Die(p)
  <2>1. UNCHANGED calls
    BY <1>4 DEF BackupStep, Pack, PackEnds, PackFails, MoveAside, MovesAside, ExtractStarts, Extract,
                RestoreEnds, RestoreFails, Die
  <2> QED  BY <2>1, <1>1
<1> QED  BY <1>2, <1>3, <1>4 DEF ByOne, Starts

LEMMA OthersWork ==
  ASSUME Types, Types', CallIds, WorkOK, NEW p \in Procs, ByOne(p), NEW q \in Procs \ {p}
  PROVE  DeleteWork(q)' /\ SnapshotWork(q)' /\ RestoreWork(q)'
<1>1. call'[q] = call[q] /\ live'[q] = live[q]  BY OthersStay
<1>2. DeleteWork(q)'  BY <1>1 DEF WorkOK, DeleteWork
<1>3. calls \in Nat /\ calls' \in Nat /\ calls <= calls'  BY CallsGrow
<1>4. SnapshotWork(q)'
  <2> SUFFICES ASSUME Running(q, "snapshot")  PROVE SnapshotWork(q)'
    BY <1>1 DEF SnapshotWork
  <2>1. call[q].id \in Ids /\ call[q].id <= calls
    BY RunningIs DEF Types, SnapshotCall, CallIds
  <2>2. ~(Running(p, "snapshot") /\ call[p].id = call[q].id)
    BY DEF CallIds, OwnId
  <2>3. snaps'[call[q].id] = snaps[call[q].id]  BY <2>1, <2>2, ArchivesStay
  <2> QED  BY <1>1, <2>3 DEF WorkOK, SnapshotWork
<1>5. RestoreWork(q)'
  <2> SUFFICES ASSUME Running(q, "restore")  PROVE RestoreWork(q)'
    BY <1>1 DEF RestoreWork
  <2>1. call[q].read \in Ids /\ call[q].read <= calls /\ call[q].read <= calls'
    <3>1. call[q].read \in Ids  BY RunningIs DEF Types, RestoreCall
    <3>2. call[q].read <= calls  BY DEF WorkOK, RestoreWork
    <3> QED  BY <1>3, <3>1, <3>2 DEF Ids
  <2>2. ~(Running(p, "snapshot") /\ call[p].id = call[q].read)
    BY DEF WorkOK, SnapshotWork, RestoreWork
  <2>3. snaps'[call[q].read] = snaps[call[q].read]  BY <2>1, <2>2, ArchivesStay
  <2> QED  BY <1>1, <2>1, <2>3 DEF WorkOK, RestoreWork
<1> QED  BY <1>2, <1>4, <1>5

LEMMA AnotherDomain ==
  ASSUME NEW ds, NEW x, NEW s, Cardinality(ds \ {x}) > 1
  PROVE  ds \ {x, s} # {}
<1> SUFFICES ASSUME ds \ {x, s} = {}  PROVE FALSE
  OBVIOUS
<1>1. ds \ {x} = {} \/ ds \ {x} = {s}  OBVIOUS
<1>2. Cardinality({}) = 0 /\ Cardinality({s}) = 1  BY FS_EmptySet, FS_Singleton
<1> QED  BY <1>1, <1>2

(* Its own work: a call that begins ...                                    *)
LEMMA StartsWork ==
  ASSUME Types, Fresh, NEW p \in Procs, Starts(p)
  PROVE  DeleteWork(p)' /\ SnapshotWork(p)' /\ RestoreWork(p)'
<1> USE DEF Types, CallsTyped
<1>1. CASE \E s \in Slugs : Create(p, s)
  BY <1>1 DEF Create, DeleteWork, SnapshotWork, RestoreWork
<1>2. CASE \E a, b \in Slugs : RenameStarts(p, a, b)
  BY <1>2 DEF RenameStarts, DeleteWork, SnapshotWork, RestoreWork
<1>3. CASE \E id \in Ids : UndoRename(p, id)
  BY <1>3 DEF UndoRename, Undoes, DeleteWork, SnapshotWork, RestoreWork
<1>4. ASSUME NEW s \in Slugs, Delete(p, s)  PROVE DeleteWork(p)' /\ SnapshotWork(p)' /\ RestoreWork(p)'
  <2>1. /\ call'[p] = NewCall("delete", "record", calls + 1, s, s, {})
        /\ live' = live /\ live[p].active # s /\ Cardinality(live[p].domains \ {personal}) > 1
    BY <1>4 DEF Delete
  <2>2. live[p].domains \ {personal, s} # {}  BY <2>1, AnotherDomain
  <2> QED  BY <2>1, <2>2 DEF DeleteWork, SnapshotWork, RestoreWork
<1>5. CASE SnapshotStarts(p)
  <2>1. call'[p] = NewCall("snapshot", "pack", calls + 1, None, None, Items)
    BY <1>5 DEF SnapshotStarts
  <2>2. Empty \in Image /\ ~Empty.readable  BY DEF Empty, Image, Nothing, BrainType, Vaults
  <2>3. snaps'[calls + 1] = Empty  BY <1>5, NextId DEF SnapshotStarts, FilesTyped
  <2> QED  BY <2>1, <2>2, <2>3 DEF DeleteWork, SnapshotWork, RestoreWork
<1>6. ASSUME NEW id \in Ids, RestoreStarts(p, id)
      PROVE  DeleteWork(p)' /\ SnapshotWork(p)' /\ RestoreWork(p)'
  <2>1. call'[p] = [NewCall("restore", "aside", calls + 1, None, None, Items) EXCEPT !.read = id]
    BY <1>6 DEF RestoreStarts
  <2>2. call'[p].op = "restore" /\ call'[p].read = id /\ call'[p].pc = "aside"  BY <2>1
  <2>3. snaps' = snaps /\ snaps[id] \in Image /\ snaps[id].readable
    BY <1>6 DEF RestoreStarts, FilesTyped
  <2>4. ~(id > calls)  BY <1>6 DEF Fresh, RestoreStarts
  <2>5. id <= calls' /\ calls \in Nat
    BY <1>6, <2>4, DomainAssumption DEF RestoreStarts, Ids
  <2> QED  BY <2>2, <2>3, <2>5 DEF DeleteWork, SnapshotWork, RestoreWork
<1> QED  BY <1>1, <1>2, <1>3, <1>4, <1>5, <1>6 DEF Starts

(* ... or goes on, or ends.                                                *)
LEMMA NoWork ==
  ASSUME NEW p \in Procs, call'[p] = None \/ call'[p].op \in {"create", "rename", "undo"}
  PROVE  DeleteWork(p)' /\ SnapshotWork(p)' /\ RestoreWork(p)'
  BY DEF DeleteWork, SnapshotWork, RestoreWork

LEMMA DomainStepWork ==
  ASSUME Types, NEW p \in Procs, DeleteWork(p), DomainStep(p), UNCHANGED snaps
  PROVE  DeleteWork(p)' /\ SnapshotWork(p)' /\ RestoreWork(p)'
<1> USE DEF Types
<1>1. CASE CreateSaves(p) \/ CreateFails(p)
  BY <1>1, NoWork DEF CreateSaves, CreateFails, CallsTyped
<1>2. CASE ReadNote(p) \/ ReplaceNote(p)
  BY <1>2, ReadNoteIs, ReplaceNoteIs, NoWork DEF RenameCall
<1>3. CASE LinksStart(p) \/ MoveFolder(p) \/ RenameSaves(p) \/ RenameRecords(p) \/ RenameFails(p)
  BY <1>3, RenameCallMoves, NoWork DEF RenameCall
<1>4. CASE UndoEnds(p) \/ UndoFails(p) \/ DeleteSaves(p) \/ DeleteFails(p)
  BY <1>4, NoWork DEF UndoEnds, UndoFails, DeleteSaves, DeleteFails, CallsTyped
<1>5. CASE UndoNote(p)
  BY <1>5, UndoNoteIs, NoWork DEF UndoCall
<1>6. CASE DeleteRecords(p)
  <2>1. call[p] \in DeleteCall /\ call'[p] = [call[p] EXCEPT !.pc = "save"] /\ live' = live
    BY <1>6, RunningIs DEF DeleteRecords, CallsTyped
  <2>2. call'[p].op = "delete" /\ call'[p].from = call[p].from  BY <2>1 DEF DeleteCall
  <2> QED  BY <1>6, <2>1, <2>2 DEF DeleteRecords, DeleteWork, SnapshotWork, RestoreWork
<1> QED  BY <1>1, <1>2, <1>3, <1>4, <1>5, <1>6 DEF DomainStep

LEMMA PackIs ==
  ASSUME FilesTyped, ConfigTyped, CallsTyped, NEW p \in Procs, SnapshotWork(p), Pack(p)
  PROVE  /\ call[p] \in SnapshotCall /\ call[p].id \in Ids /\ snaps[call[p].id] \in Image
         /\ ItemOf(p) \in call[p].todo /\ (InBrain \in call[p].todo <=> ItemOf(p) = InBrain)
         /\ ItemOf(p) \in Slugs \cup {InBrain}
         /\ ItemOf(p) # InBrain => Exists(ItemOf(p))
         /\ snaps' = [snaps EXCEPT ![call[p].id] = Packed(snaps[call[p].id], ItemOf(p))]
         /\ Packed(snaps[call[p].id], ItemOf(p)) \in Image
         /\ ~Packed(snaps[call[p].id], ItemOf(p)).readable
         /\ call' = [call EXCEPT ![p] = [call[p] EXCEPT !.todo = call[p].todo \ {ItemOf(p)}]]
         /\ call'[p] \in SnapshotCall /\ call'[p].id = call[p].id
<1>1. call[p] \in SnapshotCall /\ call[p].id \in Ids  BY RunningIs DEF Pack, SnapshotCall
<1>2. snaps[call[p].id] \in Image /\ ~snaps[call[p].id].readable  BY DEF Pack, SnapshotWork
<1>3. ItemOf(p) \in call[p].todo /\ (InBrain \in call[p].todo <=> ItemOf(p) = InBrain)
  BY NextItemIs DEF Pack, ItemOf
<1>4. ItemOf(p) \in Slugs \cup {InBrain}  BY <1>1, <1>3 DEF SnapshotCall
<1>5. /\ snaps' = [snaps EXCEPT ![call[p].id] = Packed(snaps[call[p].id], ItemOf(p))]
      /\ call' = [call EXCEPT ![p] = [call[p] EXCEPT !.todo = call[p].todo \ {ItemOf(p)}]]
      /\ ItemOf(p) # InBrain => Exists(ItemOf(p))
  BY DEF Pack, ItemOf
<1>6. /\ Packed(snaps[call[p].id], ItemOf(p)) \in Image
      /\ ~Packed(snaps[call[p].id], ItemOf(p)).readable
  BY <1>2, <1>4, PackedTyped
<1>7. call'[p] \in SnapshotCall /\ call'[p].id = call[p].id
  <2>1. call[p].todo \ {ItemOf(p)} \in SUBSET (Slugs \cup {InBrain})  BY <1>1 DEF SnapshotCall
  <2>2. [call[p] EXCEPT !.todo = call[p].todo \ {ItemOf(p)}] \in SnapshotCall
    BY <1>1, <2>1, TodoMoves
  <2> QED  BY <1>5, <2>2, <1>1 DEF CallsTyped, SnapshotCall
<1> QED  BY <1>1, <1>2, <1>3, <1>4, <1>5, <1>6, <1>7

LEMMA BackupStepWork ==
  ASSUME Types, NEW p \in Procs, SnapshotWork(p), RestoreWork(p), BackupStep(p)
  PROVE  DeleteWork(p)' /\ SnapshotWork(p)' /\ RestoreWork(p)'
<1> USE DEF Types
<1>1. CASE Pack(p)
  <2>1. snaps'[call'[p].id] = Packed(snaps[call[p].id], ItemOf(p))  BY <1>1, PackIs DEF FilesTyped
  <2> QED  BY <1>1, <2>1, PackIs DEF DeleteWork, SnapshotWork, RestoreWork, SnapshotCall
<1>2. CASE PackEnds(p) \/ PackFails(p) \/ RestoreEnds(p) \/ RestoreFails(p)
  BY <1>2, NoWork DEF PackEnds, PackFails, RestoreEnds, RestoreFails, CallsTyped
<1>3. CASE MoveAside(p)
  <2>1. call[p] \in RestoreCall /\ call[p].pc = "aside" /\ UNCHANGED <<snaps, calls>>
    BY <1>3, RunningIs DEF MoveAside, MovesAside
  <2>2. PICK i : call'[p] = [call[p] EXCEPT !.todo = call[p].todo \ {i}]
    BY <1>3 DEF MoveAside, MovesAside, CallsTyped
  <2>3. call'[p].op = "restore" /\ call'[p].pc = "aside" /\ call'[p].read = call[p].read
    BY <2>1, <2>2 DEF RestoreCall
  <2>4. Running(p, "restore")  BY <1>3 DEF MoveAside, MovesAside
  <2> QED  BY <2>1, <2>3, <2>4 DEF DeleteWork, SnapshotWork, RestoreWork
<1>4. CASE ExtractStarts(p)
  <2> DEFINE t == {InBrain} \cup {s \in Slugs : snaps[call[p].read].vault[s] # None}
  <2>1. call[p] \in RestoreCall /\ Running(p, "restore") /\ UNCHANGED <<snaps, calls>>
    BY <1>4, RunningIs DEF ExtractStarts
  <2>2. call'[p] = [call[p] EXCEPT !.pc = "extract", !.todo = t]
    BY <1>4 DEF ExtractStarts, CallsTyped
  <2>3. \A s \in t \ {InBrain} : snaps[call[p].read].vault[s] # None  OBVIOUS
  <2> HIDE DEF t
  <2>4. call'[p].op = "restore" /\ call'[p].todo = t /\ call'[p].read = call[p].read
    BY <2>1, <2>2 DEF RestoreCall
  <2> QED  BY <2>1, <2>3, <2>4 DEF DeleteWork, SnapshotWork, RestoreWork
<1>5. CASE Extract(p)
  <2>1. call[p] \in RestoreCall /\ Running(p, "restore") /\ UNCHANGED <<snaps, calls>>
    BY <1>5, RunningIs DEF Extract
  <2>2. call'[p] = [call[p] EXCEPT !.todo = call[p].todo \ {ItemOf(p)}]
    BY <1>5, ExtractIs DEF CallsTyped
  <2>3. /\ call'[p].op = "restore" /\ call'[p].pc = call[p].pc /\ call'[p].read = call[p].read
        /\ call'[p].todo \subseteq call[p].todo
    BY <2>1, <2>2 DEF RestoreCall
  <2> QED  BY <2>1, <2>3 DEF DeleteWork, SnapshotWork, RestoreWork
<1> QED  BY <1>1, <1>2, <1>3, <1>4, <1>5 DEF BackupStep

LEMMA WorkKept ==
  ASSUME Types, Types', IdsOK, WorkOK, [Next]_vars
  PROVE  WorkOK'
<1> USE DEF IdsOK
<1>1. CASE ByNobody \/ UNCHANGED vars
  <2>1. UNCHANGED <<call, live, snaps, calls>>
    BY <1>1 DEF ByNobody, EditNote, AddNote, vars, domainVars
  <2> QED  BY <2>1 DEF WorkOK, DeleteWork, SnapshotWork, RestoreWork
<1>2. ASSUME NEW p \in Procs, ByOne(p)  PROVE WorkOK'
  <2>1. \A q \in Procs \ {p} : DeleteWork(q)' /\ SnapshotWork(q)' /\ RestoreWork(q)'
    BY <1>2, OthersWork
  <2>2. DeleteWork(p)' /\ SnapshotWork(p)' /\ RestoreWork(p)'
    <3>0. DeleteWork(p) /\ SnapshotWork(p) /\ RestoreWork(p)  BY DEF WorkOK
    <3>1. CASE Starts(p)  BY <3>1, StartsWork
    <3>2. CASE DomainStep(p) /\ UNCHANGED snaps  BY <3>0, <3>2, DomainStepWork
    <3>3. CASE BackupStep(p)  BY <3>0, <3>3, BackupStepWork
    <3>4. CASE Reload(p) \/ (\E id \in Ids : UndoDelete(p, id)) \/ Die(p)
      BY <3>4, NoWork DEF Reload, UndoDelete, Die, Types, CallsTyped
    <3> QED  BY <1>2, <3>1, <3>2, <3>3, <3>4 DEF ByOne, Starts
  <2> QED  BY <2>1, <2>2 DEF WorkOK
<1> QED  BY <1>1, <1>2, NextIs
-----------------------------------------------------------------------------
(* What a step does to the copies of a folder or a record.                 *)

NoNew(i) == TrashOf(i)' \subseteq TrashOf(i) /\ RecordsOf(i)' \subseteq RecordsOf(i)

LEMMA NoCopies ==
  ASSUME UNCHANGED <<trash, records, snaps>>, NEW i \in Ids
  PROVE  NoNew(i)
  BY DEF NoNew, TrashOf, RecordsOf, Archives

LEMMA LessInTrash ==
  ASSUME FilesTyped, NEW k \in Ids, trash' = [trash EXCEPT ![k] = None], UNCHANGED <<records, snaps>>,
         NEW i \in Ids
  PROVE  NoNew(i)
  BY DEF NoNew, TrashOf, RecordsOf, Archives, FilesTyped

LEMMA BrainGone ==
  ASSUME trash' = Nothing.trash, records' = Nothing.records, UNCHANGED snaps, NEW i \in Ids
  PROVE  NoNew(i)
  BY DEF NoNew, TrashOf, RecordsOf, Archives, Nothing

LEMMA BrainBack ==
  ASSUME FilesTyped, NEW k \in Archives, UNCHANGED snaps, NEW i \in Ids,
         trash' = Over(trash, snaps[k].brain.trash), records' = Over(records, snaps[k].brain.records)
  PROVE  NoNew(i)
<1>1. DOMAIN trash = Ids /\ DOMAIN records = Ids  BY DEF FilesTyped
<1>2. trash'[i] \in {trash[i], snaps[k].brain.trash[i]}  BY <1>1 DEF Over
<1>3. records'[i] \in {records[i], snaps[k].brain.records[i]}  BY <1>1 DEF Over
<1>4. Archives' = Archives  BY DEF Archives
<1> QED  BY <1>2, <1>3, <1>4 DEF NoNew, TrashOf, RecordsOf

(* An archive gets what the vault has, or keeps what it had.               *)
LEMMA ArchiveWritten ==
  ASSUME FilesTyped, NEW k \in Ids, NEW image \in Image, UNCHANGED <<trash, records>>,
         snaps' = [snaps EXCEPT ![k] = image], NEW i \in Ids,
         image.brain.trash[i] \in TrashOf(i) \cup {None},
         image.brain.records[i] \in RecordsOf(i) \cup {None}
  PROVE  NoNew(i)
<1>1. ASSUME NEW j \in Archives'
      PROVE  /\ snaps'[j].brain.trash[i] \in TrashOf(i) \cup {None}
             /\ snaps'[j].brain.records[i] \in RecordsOf(i) \cup {None}
  <2>1. CASE j = k  BY <2>1 DEF FilesTyped
  <2>2. CASE j # k
    <3>1. j \in Archives /\ snaps'[j] = snaps[j]  BY <1>1, <2>2 DEF FilesTyped, Archives
    <3> QED  BY <3>1 DEF TrashOf, RecordsOf
  <2> QED  BY <2>1, <2>2
<1>2. trash'[i] \in TrashOf(i) \cup {None} /\ records'[i] \in RecordsOf(i) \cup {None}
  BY DEF TrashOf, RecordsOf
<1>3. TrashOf(i)' = ({trash'[i]} \cup {snaps'[j].brain.trash[i] : j \in Archives'}) \ {None}
  BY DEF TrashOf
<1>4. RecordsOf(i)' = ({records'[i]} \cup {snaps'[j].brain.records[i] : j \in Archives'}) \ {None}
  BY DEF RecordsOf
<1> QED  BY <1>1, <1>2, <1>3, <1>4 DEF NoNew

LEMMA SnapshotNoNew ==
  ASSUME Types, NEW p \in Procs, NEW i \in Ids,
         SnapshotStarts(p) \/ (SnapshotWork(p) /\ (Pack(p) \/ PackEnds(p) \/ PackFails(p)))
  PROVE  NoNew(i)
<1> USE DEF Types
<1>1. CASE SnapshotStarts(p)
  <2>1. snaps' = [snaps EXCEPT ![calls + 1] = Empty] /\ UNCHANGED <<trash, records>> /\ calls + 1 \in Ids
    BY <1>1, NextId DEF SnapshotStarts
  <2>2. Empty \in Image /\ Empty.brain.trash[i] = None /\ Empty.brain.records[i] = None
    BY DEF Empty, Image, Nothing, BrainType, Vaults
  <2> QED  BY <2>1, <2>2, ArchiveWritten
<1>2. CASE SnapshotWork(p) /\ Pack(p)
  <2> DEFINE k == call[p].id  old == snaps[k]  new == Packed(old, ItemOf(p))
  <2>1. /\ snaps' = [snaps EXCEPT ![k] = new] /\ UNCHANGED <<trash, records>> /\ k \in Ids
        /\ new \in Image /\ old \in Image
    BY <1>2, PackIs DEF Pack
  <2>2. k \in Archives  BY <2>1 DEF Archives, FilesTyped
  <2>3. new.brain = Brain \/ new.brain = old.brain
    BY <2>1 DEF Packed, Image
  <2>4. /\ new.brain.trash[i] \in {trash[i], old.brain.trash[i]}
        /\ new.brain.records[i] \in {records[i], old.brain.records[i]}
    BY <2>3 DEF Brain
  <2>5. {trash[i], old.brain.trash[i]} \subseteq TrashOf(i) \cup {None}
    BY <2>2 DEF TrashOf
  <2>6. {records[i], old.brain.records[i]} \subseteq RecordsOf(i) \cup {None}
    BY <2>2 DEF RecordsOf
  <2> HIDE DEF new, old, k
  <2> QED  BY <2>1, <2>4, <2>5, <2>6, ArchiveWritten
<1>3. CASE SnapshotWork(p) /\ (PackEnds(p) \/ PackFails(p))
  <2> DEFINE k == call[p].id  old == snaps[k]  new == [old EXCEPT !.readable = TRUE]
  <2>0. k \in Ids /\ old \in Image
    BY <1>3, RunningIs DEF PackEnds, PackFails, SnapshotCall, SnapshotWork
  <2>1. snaps' = [snaps EXCEPT ![k] = new] /\ UNCHANGED <<trash, records>>
    BY <1>3, <2>0 DEF PackEnds, PackFails, FilesTyped
  <2>2. k \in Archives  BY <2>0 DEF Archives, FilesTyped
  <2>3. new \in Image /\ new.brain = old.brain  BY <2>0 DEF Image
  <2>5. old.brain.trash[i] \in TrashOf(i) \cup {None}  BY <2>2 DEF TrashOf
  <2>6. old.brain.records[i] \in RecordsOf(i) \cup {None}  BY <2>2 DEF RecordsOf
  <2> HIDE DEF new, old, k
  <2> QED  BY <2>0, <2>1, <2>3, <2>5, <2>6, ArchiveWritten
<1> QED  BY <1>1, <1>2, <1>3

LEMMA RestoreNoNew ==
  ASSUME Types, NEW p \in Procs, NEW i \in Ids, RestoreWork(p), MoveAside(p) \/ Extract(p)
  PROVE  NoNew(i)
<1> USE DEF Types
<1>1. CASE MoveAside(p)
  <2>1. UNCHANGED snaps /\ \/ trash' = Nothing.trash /\ records' = Nothing.records
                           \/ UNCHANGED <<trash, records>>
    BY <1>1 DEF MoveAside, MovesAside
  <2> QED  BY <2>1, BrainGone, NoCopies
<1>2. CASE Extract(p)
  <2>1. UNCHANGED snaps /\ call[p].read \in Archives
    BY <1>2, ExtractIs DEF Extract, Archives, FilesTyped, ImageOf
  <2>2. CASE ItemOf(p) = InBrain
    <3>1. /\ trash' = Over(trash, snaps[call[p].read].brain.trash)
          /\ records' = Over(records, snaps[call[p].read].brain.records)
      BY <1>2, <2>2, ExtractIs DEF ImageOf
    <3> QED  BY <2>1, <3>1, BrainBack
  <2>3. CASE ItemOf(p) # InBrain
    <3>1. UNCHANGED <<trash, records>>  BY <1>2, <2>3, ExtractIs
    <3> QED  BY <2>1, <3>1, NoCopies
  <2> QED  BY <2>2, <2>3
<1> QED  BY <1>1, <1>2

Deletes(p) == (\E s \in Slugs : Delete(p, s)) /\ UNCHANGED <<snaps, aside>>
PutsRecord(p) == (RenameRecords(p) \/ DeleteRecords(p)) /\ UNCHANGED <<snaps, aside>>

LEMMA DeleteCopies ==
  ASSUME Types, NEW p \in Procs, NEW s \in Slugs, Delete(p, s), UNCHANGED snaps, NEW i \in Ids
  PROVE  /\ RecordsOf(i)' \subseteq RecordsOf(i)
         /\ i # calls + 1 => TrashOf(i)' \subseteq TrashOf(i)
         /\ TrashOf(i)' \subseteq TrashOf(i) \cup {vault[s]}
         /\ vault[s] \in Folder
<1> USE DEF Types, FilesTyped, Vaults
<1>1. /\ trash' = [trash EXCEPT ![calls + 1] = vault[s]] /\ records' = records /\ calls + 1 \in Ids
      /\ vault[s] \in Folder
  BY NextId DEF Delete
<1>2. trash'[i] = IF i = calls + 1 THEN vault[s] ELSE trash[i]  BY <1>1
<1>3. Archives' = Archives  BY DEF Archives
<1>4. RecordsOf(i)' = RecordsOf(i)  BY <1>1, <1>3 DEF RecordsOf
<1>5. TrashOf(i)' = ({trash'[i]} \cup {snaps[j].brain.trash[i] : j \in Archives}) \ {None}
  BY <1>3 DEF TrashOf
<1>6. TrashOf(i)' \subseteq ({trash'[i]} \ {None}) \cup TrashOf(i)  BY <1>5 DEF TrashOf
<1>7. i # calls + 1 => TrashOf(i)' \subseteq TrashOf(i)
  BY <1>2, <1>5 DEF TrashOf
<1> QED  BY <1>1, <1>2, <1>4, <1>6, <1>7

LEMMA RecordCopies ==
  ASSUME Types, NEW p \in Procs, NEW i \in Ids, PutsRecord(p)
  PROVE  /\ TrashOf(i)' \subseteq TrashOf(i)
         /\ call[p].id \in Ids /\ OwnId(p)
         /\ i # call[p].id => RecordsOf(i)' \subseteq RecordsOf(i)
         /\ RecordsOf(i)' \subseteq RecordsOf(i) \cup {records'[i]}
         /\ \A j \in Ids \ {call[p].id} : records'[j] = records[j]
<1> USE DEF Types, FilesTyped, PutsRecord
<1>1. call[p].id \in Ids /\ OwnId(p)
  BY RunningIs DEF RenameRecords, DeleteRecords, RenameCall, DeleteCall, OwnId
<1>2. UNCHANGED trash /\ \A j \in Ids \ {call[p].id} : records'[j] = records[j]
  BY DEF RenameRecords, DeleteRecords
<1>3. Archives' = Archives  BY DEF Archives
<1>4. TrashOf(i)' = TrashOf(i)  BY <1>2, <1>3 DEF TrashOf
<1>5. ASSUME NEW j \in Ids
      PROVE  RecordsOf(j)' = ({records'[j]} \cup {snaps[k].brain.records[j] : k \in Archives}) \ {None}
  BY <1>3 DEF RecordsOf
<1>6. i # call[p].id => RecordsOf(i)' \subseteq RecordsOf(i)  BY <1>2, <1>5 DEF RecordsOf
<1>7. RecordsOf(i)' \subseteq RecordsOf(i) \cup {records'[i]}  BY <1>5 DEF RecordsOf
<1> QED  BY <1>1, <1>2, <1>4, <1>6, <1>7

LEMMA CopiesKept ==
  ASSUME Types, WorkOK, NEW p \in Procs, ByOne(p), NEW i \in Ids, ~Deletes(p), ~PutsRecord(p)
  PROVE  NoNew(i)
<1>0. SnapshotWork(p) /\ RestoreWork(p)  BY DEF WorkOK
<1>1. CASE UNCHANGED <<trash, records, snaps>>  BY <1>1, NoCopies
<1>2. CASE UNCHANGED snaps /\ \E id \in Ids : UndoDelete(p, id)
  BY <1>2, LessInTrash DEF Types, UndoDelete
<1>3. CASE SnapshotStarts(p) \/ Pack(p) \/ PackEnds(p) \/ PackFails(p)
  BY <1>0, <1>3, SnapshotNoNew
<1>4. CASE MoveAside(p) \/ Extract(p)  BY <1>0, <1>4, RestoreNoNew
<1>5. CASE UNCHANGED <<snaps, aside>> /\ (Reload(p) \/ DomainStep(p))
  <2>1. UNCHANGED <<trash, records>>
    BY <1>5 DEF PutsRecord, Reload, DomainStep, CreateSaves, CreateFails, ReadNote, ReplaceNote, LinksStart,
                MoveFolder, RenameSaves, RenameFails, DeleteSaves, DeleteFails, UndoNote, UndoEnds, UndoFails
  <2> QED  BY <2>1, <1>1, <1>5
<1>6. CASE UNCHANGED <<snaps, aside>> /\ \E s \in Slugs : Create(p, s) \/ Delete(p, s)
  <2>1. UNCHANGED <<trash, records>>  BY <1>6 DEF Deletes, Create
  <2> QED  BY <2>1, <1>1, <1>6
<1>7. CASE (\E a, b \in Slugs : RenameStarts(p, a, b)) /\ UNCHANGED <<snaps, aside>>
  <2>1. UNCHANGED <<trash, records>>  BY <1>7 DEF RenameStarts
  <2> QED  BY <2>1, <1>1, <1>7
<1>8. CASE (\E id \in Ids : UndoRename(p, id)) /\ UNCHANGED <<snaps, aside>>
  <2>1. UNCHANGED <<trash, records>>  BY <1>8 DEF UndoRename, Undoes
  <2> QED  BY <2>1, <1>1, <1>8
<1>9. CASE ExtractStarts(p) \/ RestoreEnds(p) \/ RestoreFails(p) \/ Die(p) \/ \E id \in Ids : RestoreStarts(p, id)
  <2>1. UNCHANGED <<trash, records, snaps>>
    BY <1>9 DEF ExtractStarts, RestoreEnds, RestoreFails, Die, RestoreStarts
  <2> QED  BY <2>1, <1>1
<1> QED  BY <1>2, <1>3, <1>4, <1>5, <1>6, <1>7, <1>8, <1>9 DEF ByOne, BackupStep

(* Nothing bears an id before it is given out.                             *)
LEMMA FreshKept ==
  ASSUME Types, Types', IdsOK, WorkOK, [Next]_vars
  PROVE  Fresh'
<1> USE DEF IdsOK
<1>1. CASE ByNobody \/ UNCHANGED vars
  <2>1. UNCHANGED <<trash, records, snaps, calls>>
    BY <1>1 DEF ByNobody, EditNote, AddNote, vars, domainVars
  <2> QED  BY <2>1 DEF Fresh, TrashOf, RecordsOf, Archives
<1>2. ASSUME NEW p \in Procs, ByOne(p), NEW i \in Ids, i > calls'
      PROVE  TrashOf(i)' = {} /\ RecordsOf(i)' = {} /\ snaps'[i] = None
  <2>1. calls \in Nat /\ calls' \in Nat /\ i > calls  BY <1>2, CallsGrow DEF Ids
  <2>2. TrashOf(i) = {} /\ RecordsOf(i) = {} /\ snaps[i] = None  BY <2>1 DEF Fresh
  <2>3. snaps'[i] = None
    <3>1. CASE UNCHANGED snaps  BY <3>1, <2>2
    <3>2. CASE SnapshotStarts(p)
      <4>1. i # calls + 1 /\ snaps' = [snaps EXCEPT ![calls + 1] = Empty]
        BY <1>2, <2>1, <3>2 DEF SnapshotStarts, Ids
      <4> QED  BY <4>1, <2>2 DEF Types, FilesTyped
    <3>3. CASE Pack(p) \/ PackEnds(p) \/ PackFails(p)
      <4>1. call[p].id <= calls  BY <3>3 DEF Pack, PackEnds, PackFails, CallIds
      <4>2. call[p].id \in Ids
        BY <3>3, RunningIs DEF Pack, PackEnds, PackFails, Types, SnapshotCall
      <4>3. i # call[p].id  BY <2>1, <4>1, <4>2 DEF Ids
      <4> QED  BY <3>3, <4>3, <2>2 DEF Pack, PackEnds, PackFails, Types, FilesTyped
    <3>4. UNCHANGED snaps \/ SnapshotStarts(p) \/ Pack(p) \/ PackEnds(p) \/ PackFails(p)
      BY <1>2 DEF ByOne, BackupStep, Die, RestoreStarts, MoveAside, MovesAside, ExtractStarts, Extract,
             RestoreEnds, RestoreFails
    <3> QED  BY <3>1, <3>2, <3>3, <3>4
  <2>4. CASE Deletes(p)
    <3>1. UNCHANGED snaps /\ calls' = calls + 1  BY <2>4 DEF Deletes, Delete
    <3>2. i # calls + 1  BY <3>1, <1>2, <2>1 DEF Ids
    <3> QED  BY <2>2, <2>3, <2>4, <3>1, <3>2, DeleteCopies DEF Deletes
  <2>5. CASE PutsRecord(p)
    <3>1. call[p].id <= calls /\ call[p].id \in Ids  BY <2>5, RecordCopies DEF CallIds, OwnId
    <3>2. i # call[p].id  BY <2>1, <3>1 DEF Ids
    <3> QED  BY <2>2, <2>3, <2>5, <3>2, RecordCopies
  <2>6. CASE ~Deletes(p) /\ ~PutsRecord(p)
    BY <1>2, <2>2, <2>3, <2>6, CopiesKept DEF NoNew
  <2> QED  BY <2>4, <2>5, <2>6
<1> QED  BY <1>1, <1>2, NextIs DEF Fresh

(* A step of a process begins a call under a new id, or an undo of a call  *)
(* there was, or goes on with its call, or ends it.                        *)
GoesOn(p) ==
  /\ call[p] # None
  /\ call'[p].id = call[p].id /\ call'[p].op = call[p].op
  /\ call[p].op = "delete" => call'[p].pc = "save" /\ PutsRecord(p)
BeginsAnew(p) ==
  /\ call[p] = None
  /\ call'[p].id = calls + 1 /\ calls' = calls + 1 /\ call'[p].op # "undo"
  /\ call'[p].pc # "save"
BeginsUndo(p) ==
  /\ call[p] = None
  /\ call'[p].op = "undo" /\ call'[p].id \in Ids /\ records[call'[p].id] # None

LEMMA CallStep ==
  ASSUME Types, WorkOK, NEW p \in Procs, ByOne(p)
  PROVE  call'[p] = None \/ GoesOn(p) \/ BeginsAnew(p) \/ BeginsUndo(p)
<1> USE DEF Types
<1>0. SnapshotWork(p) /\ RestoreWork(p)  BY DEF WorkOK
<1>a. call[p] # None => call[p] \in Calls /\ call[p] # None  BY DEF CallsTyped
<1>1. CASE (\E s \in Slugs : Create(p, s) \/ Delete(p, s)) \/ \E a, b \in Slugs : RenameStarts(p, a, b)
  <2>1. ASSUME NEW s \in Slugs, Create(p, s)  PROVE BeginsAnew(p)
    BY <2>1 DEF Create, CallsTyped, BeginsAnew
  <2>2. ASSUME NEW s \in Slugs, Delete(p, s)  PROVE BeginsAnew(p)
    BY <2>2 DEF Delete, CallsTyped, BeginsAnew
  <2>3. ASSUME NEW a \in Slugs, NEW b \in Slugs, RenameStarts(p, a, b)  PROVE BeginsAnew(p)
    BY <2>3 DEF RenameStarts, CallsTyped, BeginsAnew
  <2> QED  BY <1>1, <2>1, <2>2, <2>3
<1>2. CASE SnapshotStarts(p) \/ \E id \in Ids : RestoreStarts(p, id)
  <2>1. CASE SnapshotStarts(p)
    BY <2>1 DEF SnapshotStarts, CallsTyped, BeginsAnew
  <2>2. ASSUME NEW id \in Ids, RestoreStarts(p, id)  PROVE BeginsAnew(p)
    BY <2>2 DEF RestoreStarts, CallsTyped, BeginsAnew
  <2> QED  BY <1>2, <2>1, <2>2
<1>3. ASSUME NEW id \in Ids, UndoRename(p, id)  PROVE BeginsUndo(p)
  BY <1>3 DEF UndoRename, Undoes, CallsTyped, BeginsUndo
<1>4. CASE Reload(p) \/ Die(p) \/ \E id \in Ids : UndoDelete(p, id)
  BY <1>4 DEF Reload, Die, UndoDelete, CallsTyped
<1>5. CASE (DomainStep(p) /\ UNCHANGED <<snaps, aside>>)
  <2>1. CASE CreateSaves(p) \/ CreateFails(p) \/ DeleteSaves(p) \/ DeleteFails(p) \/ UndoEnds(p) \/ UndoFails(p)
    BY <2>1 DEF CreateSaves, CreateFails, DeleteSaves, DeleteFails, UndoEnds, UndoFails, CallsTyped
  <2>2. CASE RenameRecords(p) \/ RenameFails(p)
    BY <2>2 DEF RenameRecords, RenameFails, CallsTyped
  <2>3. CASE ReadNote(p) \/ ReplaceNote(p) \/ LinksStart(p) \/ MoveFolder(p) \/ RenameSaves(p)
    <3>1. call[p] \in RenameCall /\ call[p] # None
      BY <2>3, RunningIs DEF ReadNote, ReplaceNote, LinksStart, MoveFolder, RenameSaves, Walking
    <3>2. \/ call'[p] = None
          \/ call'[p] \in RenameCall /\ call'[p].id = call[p].id /\ call'[p] # None
      <4>1. call'[p].id = call[p].id
        <5>1. CASE ReadNote(p)  BY <3>1, <5>1 DEF ReadNote, CallsTyped, RenameCall
        <5>3. CASE ReplaceNote(p)  BY <3>1, <5>3 DEF ReplaceNote, CallsTyped, RenameCall
        <5>2. CASE LinksStart(p) \/ MoveFolder(p) \/ RenameSaves(p)
          BY <3>1, <5>2 DEF LinksStart, MoveFolder, RenameSaves, CallsTyped, RenameCall
        <5> QED  BY <2>3, <5>1, <5>2, <5>3
      <4>2. call'[p] = None \/ call'[p] \in RenameCall
        BY <2>3, ReadNoteIs, ReplaceNoteIs, RenameCallMoves
      <4> QED  BY <4>1, <4>2
    <3> QED  BY <3>1, <3>2 DEF GoesOn, RenameCall
  <2>4. CASE DeleteRecords(p)
    <3>1. call[p] \in DeleteCall /\ call'[p] = [call[p] EXCEPT !.pc = "save"]
      BY <2>4, RunningIs DEF DeleteRecords, CallsTyped
    <3>2. call'[p].op = "delete" /\ call'[p].pc = "save" /\ call'[p].id = call[p].id /\ call[p].op = "delete"
      BY <3>1 DEF DeleteCall
    <3> QED  BY <1>5, <2>4, <3>2 DEF GoesOn, DeleteRecords, PutsRecord
  <2>5. CASE UndoNote(p)
    <3>1. call[p] \in UndoCall /\ call'[p] \in UndoCall /\ call[p] # None
      BY <2>5, UndoNoteIs DEF UndoNote
    <3>2. call'[p].id = call[p].id  BY <2>5, <3>1 DEF UndoNote, CallsTyped, UndoCall
    <3> QED  BY <3>1, <3>2 DEF GoesOn, UndoCall
  <2> QED  BY <1>5, <2>1, <2>2, <2>3, <2>4, <2>5 DEF DomainStep
<1>6. CASE BackupStep(p)
  <2>1. CASE PackEnds(p) \/ PackFails(p) \/ RestoreEnds(p) \/ RestoreFails(p)
    BY <2>1 DEF PackEnds, PackFails, RestoreEnds, RestoreFails, CallsTyped
  <2>2. CASE Pack(p)
    BY <1>0, <2>2, PackIs DEF GoesOn, SnapshotCall, Pack
  <2>3. CASE MoveAside(p) \/ Extract(p) \/ ExtractStarts(p)
    <3>1. call[p] \in RestoreCall /\ call[p] # None
      BY <2>3, RunningIs DEF MoveAside, MovesAside, Extract, ExtractStarts
    <3>2. PICK t, q : call'[p] = [call[p] EXCEPT !.todo = t] \/ call'[p] = [call[p] EXCEPT !.pc = q, !.todo = t]
      BY <2>3 DEF MoveAside, MovesAside, Extract, ExtractStarts, CallsTyped
    <3>3. call'[p].id = call[p].id /\ call'[p].op = "restore" /\ call[p].op = "restore"
      BY <3>1, <3>2 DEF RestoreCall
    <3> QED  BY <3>1, <3>3 DEF GoesOn
  <2> QED  BY <1>6, <2>1, <2>2, <2>3 DEF BackupStep
<1> QED  BY <1>1, <1>2, <1>3, <1>4, <1>5, <1>6 DEF ByOne

(* Every id a call bears has been given out.                               *)
LEMMA IdIsOld ==
  ASSUME Types, CallIds, NEW q \in Procs, call[q] # None
  PROVE  call[q].id \in Ids /\ call[q].id <= calls /\ call[q].id # calls + 1
<1>1. call[q].id \in Ids
  BY RunningIs DEF Types, Calls, CreateCall, RenameCall, DeleteCall, UndoCall, SnapshotCall, RestoreCall
<1>2. call[q].id <= calls  BY DEF CallIds
<1>3. calls \in Nat  BY DomainAssumption DEF Types, CallsTyped
<1> QED  BY <1>1, <1>2, <1>3 DEF Ids

LEMMA CallIdsKept ==
  ASSUME Types, Types', IdsOK, WorkOK, [Next]_vars
  PROVE  CallIds'
<1> USE DEF IdsOK
<1>1. CASE ByNobody \/ UNCHANGED vars
  <2>1. UNCHANGED <<call, calls>>
    BY <1>1 DEF ByNobody, EditNote, AddNote, vars, domainVars
  <2> QED  BY <2>1 DEF CallIds, OwnId
<1>2. ASSUME NEW p \in Procs, ByOne(p)  PROVE CallIds'
  <2>1. \A q \in Procs \ {p} : call'[q] = call[q]  BY <1>2, OthersStay
  <2>2. calls \in Nat /\ calls' \in Nat /\ calls <= calls'  BY <1>2, CallsGrow
  <2>3. \A q \in Procs : call[q] # None => call[q].id \in Ids /\ call[q].id <= calls /\ call[q].id # calls + 1
    BY IdIsOld
  <2>4. \A q \in Procs : call[q] # None => call[q].id <= calls'
    <3>1. \A x \in Ids : x <= calls => x <= calls'  BY <2>2 DEF Ids
    <3> QED  BY <2>3, <3>1
  <2>5. CASE call'[p] = None  BY <2>1, <2>4, <2>5 DEF CallIds, OwnId
  <2>6. CASE GoesOn(p)  BY <2>1, <2>4, <2>6 DEF CallIds, OwnId, GoesOn
  <2>7. CASE BeginsAnew(p)
    <3>1. call'[p].id <= calls'  BY <2>2, <2>7 DEF BeginsAnew
    <3> QED  BY <2>1, <2>3, <2>4, <2>7, <3>1 DEF CallIds, OwnId, BeginsAnew
  <2>8. CASE BeginsUndo(p)
    <3>1. call'[p].id \in Ids /\ records[call'[p].id] # None  BY <2>8 DEF BeginsUndo
    <3>2. RecordsOf(call'[p].id) # {}  BY <3>1 DEF RecordsOf
    <3>3. ~(call'[p].id > calls)  BY <3>1, <3>2 DEF Fresh
    <3>4. call'[p].id <= calls'  BY <2>2, <3>1, <3>3 DEF Ids
    <3> QED  BY <2>1, <2>4, <2>8, <3>4 DEF CallIds, OwnId, BeginsUndo
  <2> QED  BY <1>2, <2>5, <2>6, <2>7, <2>8, CallStep
<1> QED  BY <1>1, <1>2, NextIs

(* What a step adds to the copies of the record of an id.                  *)
LEMMA RecordsGrow ==
  ASSUME Types, WorkOK, NEW p \in Procs, ByOne(p), NEW i \in Ids
  PROVE  RecordsOf(i)' \subseteq RecordsOf(i) \/ (PutsRecord(p) /\ i = call[p].id /\ OwnId(p))
<1>1. CASE Deletes(p)  BY <1>1, DeleteCopies DEF Deletes
<1>2. CASE PutsRecord(p)  BY <1>2, RecordCopies
<1>3. CASE ~Deletes(p) /\ ~PutsRecord(p)  BY <1>3, CopiesKept DEF NoNew
<1> QED  BY <1>1, <1>2, <1>3

Early(c) == ~(c.op = "delete" /\ c.pc = "save")

LEMMA UnrecordedKept ==
  ASSUME Types, Types', IdsOK, WorkOK, [Next]_vars
  PROVE  Unrecorded'
<1> USE DEF IdsOK
<1>1. CASE ByNobody \/ UNCHANGED vars
  <2>1. UNCHANGED <<call, records, snaps>>
    BY <1>1 DEF ByNobody, EditNote, AddNote, vars, domainVars
  <2> QED  BY <2>1 DEF Unrecorded, OwnId, RecordsOf, Archives
<1>2. ASSUME NEW p \in Procs, ByOne(p)  PROVE Unrecorded'
  <2> SUFFICES ASSUME NEW q \in Procs, OwnId(q)', Early(call'[q]), NEW i \in Ids, i = call'[q].id
               PROVE  RecordsOf(i)' = {}
    <3>1. \A c \in Calls : c.id \in Ids
      BY DEF Calls, CreateCall, RenameCall, DeleteCall, UndoCall, SnapshotCall, RestoreCall
    <3>2. \A q \in Procs : OwnId(q)' => call'[q].id \in Ids  BY <3>1 DEF Types, CallsTyped, OwnId
    <3> QED  BY <3>2 DEF Unrecorded, Early
  <2>1. RecordsOf(i)' \subseteq RecordsOf(i) \/ (PutsRecord(p) /\ i = call[p].id /\ OwnId(p))
    BY <1>2, RecordsGrow
  <2>2. CASE q # p
    <3>1. call'[q] = call[q]  BY <1>2, <2>2, OthersStay
    <3>2. OwnId(q) /\ Early(call[q]) /\ i = call[q].id  BY <3>1 DEF OwnId
    <3>3. RecordsOf(i) = {}  BY <3>2 DEF Unrecorded, Early
    <3>4. ~(OwnId(p) /\ i = call[p].id)  BY <2>2, <3>2 DEF CallIds
    <3> QED  BY <2>1, <3>3, <3>4
  <2>3. CASE q = p
    <3>1. call'[p] # None /\ call'[p].op # "undo"  BY <2>3 DEF OwnId
    <3>2. CASE BeginsAnew(p)
      <4>1. i = calls + 1 /\ calls \in Nat  BY <2>3, <3>2, DomainAssumption DEF BeginsAnew, Types, CallsTyped
      <4>2. RecordsOf(i) = {}  BY <4>1 DEF Fresh
      <4>3. call[p] = None  BY <3>2 DEF BeginsAnew
      <4> QED  BY <2>1, <4>2, <4>3 DEF OwnId
    <3>3. CASE GoesOn(p)
      <4>1. OwnId(p) /\ i = call[p].id /\ call[p].op # "delete"
        BY <2>3, <3>1, <3>3 DEF GoesOn, OwnId, Early
      <4>2. RecordsOf(i) = {}  BY <4>1 DEF Unrecorded
      <4>3. ~PutsRecord(p)
        <5>1. ~RenameRecords(p)  BY <3>1 DEF RenameRecords, Types, CallsTyped
        <5>2. ~DeleteRecords(p)  BY <4>1 DEF DeleteRecords
        <5> QED  BY <5>1, <5>2 DEF PutsRecord
      <4> QED  BY <2>1, <4>2, <4>3
    <3> QED  BY <1>2, <3>1, <3>2, <3>3, CallStep DEF BeginsUndo
  <2> QED  BY <2>2, <2>3
<1> QED  BY <1>1, <1>2, NextIs

LEMMA OneCopyKept ==
  ASSUME Types, IdsOK, WorkOK, OneCopy, [Next]_vars
  PROVE  OneCopy'
<1> USE DEF IdsOK
<1>1. CASE ByNobody \/ UNCHANGED vars
  <2>1. UNCHANGED <<trash, records, snaps>>
    BY <1>1 DEF ByNobody, EditNote, AddNote, vars, domainVars
  <2>2. \A i \in Ids : NoNew(i)  BY <2>1, NoCopies
  <2> QED  BY <2>2 DEF OneCopy, NoNew
<1>2. ASSUME NEW p \in Procs, ByOne(p), NEW i \in Ids
      PROVE  (\A f, g \in TrashOf(i)' : f = g) /\ (\A r, s \in RecordsOf(i)' : r = s)
  <2>1. (\A f, g \in TrashOf(i) : f = g) /\ (\A r, s \in RecordsOf(i) : r = s)  BY DEF OneCopy
  <2>2. CASE Deletes(p)
    <3>1. PICK s \in Slugs : Delete(p, s) /\ UNCHANGED snaps  BY <2>2 DEF Deletes
    <3>2. TrashOf(calls + 1) = {} /\ calls + 1 \in Ids
      <4>1. calls < MaxCalls /\ calls \in Nat  BY <3>1, DomainAssumption DEF Delete, Types, CallsTyped
      <4>2. calls + 1 \in Ids /\ calls + 1 > calls  BY <4>1, DomainAssumption DEF Ids
      <4> QED  BY <4>2 DEF Fresh
    <3>3. /\ RecordsOf(i)' \subseteq RecordsOf(i)
          /\ i # calls + 1 => TrashOf(i)' \subseteq TrashOf(i)
          /\ TrashOf(i)' \subseteq TrashOf(i) \cup {vault[s]}
      BY <3>1, DeleteCopies
    <3>4. CASE i = calls + 1
      <4>1. TrashOf(i)' \subseteq {vault[s]}  BY <3>2, <3>3, <3>4
      <4> QED  BY <2>1, <3>3, <4>1
    <3>5. CASE i # calls + 1  BY <2>1, <3>3, <3>5
    <3> QED  BY <3>4, <3>5
  <2>3. CASE PutsRecord(p)
    <3>1. /\ TrashOf(i)' \subseteq TrashOf(i) /\ OwnId(p)
          /\ i # call[p].id => RecordsOf(i)' \subseteq RecordsOf(i)
          /\ RecordsOf(i)' \subseteq RecordsOf(i) \cup {records'[i]}
      BY <2>3, RecordCopies
    <3>2. RecordsOf(call[p].id) = {}
      BY <2>3, <3>1 DEF Unrecorded, PutsRecord, RenameRecords, DeleteRecords
    <3>3. CASE i = call[p].id
      <4>1. RecordsOf(i)' \subseteq {records'[i]}  BY <3>1, <3>2, <3>3
      <4> QED  BY <2>1, <3>1, <4>1
    <3>4. CASE i # call[p].id  BY <2>1, <3>1, <3>4
    <3> QED  BY <3>3, <3>4
  <2>4. CASE ~Deletes(p) /\ ~PutsRecord(p)
    <3>1. TrashOf(i)' \subseteq TrashOf(i) /\ RecordsOf(i)' \subseteq RecordsOf(i)
      BY <1>2, <2>4, CopiesKept DEF NoNew
    <3> QED  BY <2>1, <3>1
  <2> QED  BY <2>2, <2>3, <2>4
<1> QED  BY <1>1, <1>2, NextIs DEF OneCopy

LEMMA IdsKept ==
  ASSUME Types, Types', IdsOK, WorkOK, [Next]_vars
  PROVE  IdsOK'
  BY CallIdsKept, FreshKept, UnrecordedKept DEF IdsOK

(* What every step may rely on, and why it keeps it.                       *)
Sound == Types /\ WorkOK /\ IdsOK /\ OneCopy

LEMMA SoundAtFirst ==
  ASSUME None \notin Folder \cup Image \cup Calls, InitBackup
  PROVE  Sound
<1>1. Types  BY InitialTypes
<1>2. /\ call = [p \in Procs |-> None] /\ calls = 0 /\ snaps = [i \in Ids |-> None]
      /\ trash = [i \in Ids |-> None] /\ records = [i \in Ids |-> None]
  BY DEF InitBackup, Init
<1>3. WorkOK  BY <1>2 DEF WorkOK, DeleteWork, SnapshotWork, RestoreWork
<1>4. \A i \in Ids : TrashOf(i) = {} /\ RecordsOf(i) = {} /\ snaps[i] = None
  BY <1>2 DEF TrashOf, RecordsOf, Archives
<1>5. IdsOK  BY <1>2, <1>4 DEF IdsOK, CallIds, Fresh, Unrecorded, OwnId
<1>6. OneCopy  BY <1>4 DEF OneCopy
<1> QED  BY <1>1, <1>3, <1>5, <1>6 DEF Sound

LEMMA SoundKept ==
  ASSUME Sound, [Next]_vars
  PROVE  Sound'
<1>1. Types'  BY TypesKept DEF Sound
<1> QED  BY <1>1, WorkKept, IdsKept, OneCopyKept DEF Sound

(* Every call that begins and every archive keeps the shape its own code   *)
(* relies on, in every order of steps.                                     *)
THEOREM TypeCorrect ==
  ASSUME None \notin Folder \cup Image \cup Calls
  PROVE  Spec => []TypeOK
<1>1. InitBackup => Sound  BY SoundAtFirst
<1>2. Sound /\ [Next]_vars => Sound'  BY SoundKept
<1>3. Sound => TypeOK
  <2> SUFFICES ASSUME Sound  PROVE TypeOK
    OBVIOUS
  <2>1. \A p \in Procs : call[p] # None =>
          /\ call[p].op \in {"create", "rename", "delete", "undo", "snapshot", "restore"}
          /\ call[p].edits \subseteq Path
          /\ call[p].op \in {"rename", "undo"} =>
               call[p].todo \subseteq Path /\ call[p].read \in {None} \cup Path
          /\ call[p].op \in {"snapshot", "restore"} => call[p].todo \subseteq Slugs \cup {InBrain}
    BY RunningIs DEF Sound, Types, Calls, CreateCall, RenameCall, DeleteCall, UndoCall, SnapshotCall,
                     RestoreCall
  <2> QED  BY <2>1 DEF Sound, Types, FilesTyped, ConfigTyped, GhostsTyped, TypeOK, Call
<1> QED  BY <1>1, <1>2, <1>3, PTL DEF Spec
-----------------------------------------------------------------------------
(* NothingLost.                                                            *)

LEMMA NoteOf ==
  /\ \A m : m \in NotesOf(vault) <=> \E s \in Slugs : vault[s] # None /\ m \in vault[s]
  /\ \A m : m \in NotesOf(vault)' <=> \E s \in Slugs : vault'[s] # None /\ m \in vault'[s]
  BY DEF NotesOf

LEMMA TrashedIs ==
  /\ \A m : m \in Trashed(trash) <=> \E i \in Ids : trash[i] # None /\ m \in trash[i]
  /\ \A m : m \in Trashed(trash)' <=> \E i \in Ids : trash'[i] # None /\ m \in trash'[i]
  BY DEF Trashed

LEMMA PriorIs ==
  /\ \A m : m \in Prior(records) <=>
       \E i \in Ids : records[i] # None /\ records[i].kind = "rename" /\ \E x \in records[i].edits : m = x.note
  /\ \A m : m \in Prior(records)' <=>
       \E i \in Ids : records'[i] # None /\ records'[i].kind = "rename" /\ \E x \in records'[i].edits : m = x.note
<1>1. \A m : m \in Prior(records) <=>
       \E i \in Ids : records[i] # None /\ records[i].kind = "rename" /\ \E x \in records[i].edits : m = x.note
  <2> TAKE m
  <2> DEFINE J == {j \in Ids : records[j] # None /\ records[j].kind = "rename"}
  <2>1. m \in Prior(records) <=> \E x \in UNION {records[i].edits : i \in J} : m = x.note
    BY DEF Prior
  <2>2. \A x : x \in UNION {records[i].edits : i \in J} <=> \E i \in J : x \in records[i].edits
    OBVIOUS
  <2> QED  BY <2>1, <2>2
<1>2. \A m : m \in Prior(records)' <=>
       \E i \in Ids : records'[i] # None /\ records'[i].kind = "rename" /\ \E x \in records'[i].edits : m = x.note
  <2> TAKE m
  <2> DEFINE J == {j \in Ids : records'[j] # None /\ records'[j].kind = "rename"}
  <2>1. m \in Prior(records)' <=> \E x \in UNION {records'[i].edits : i \in J} : m = x.note
    BY DEF Prior
  <2>2. \A x : x \in UNION {records'[i].edits : i \in J} <=> \E i \in J : x \in records'[i].edits
    OBVIOUS
  <2> QED  BY <2>1, <2>2
<1> QED  BY <1>1, <1>2

(* A step that loses nothing but what it forfeits.                         *)
LEMMA StillKept ==
  ASSUME NothingLost, UNCHANGED latest, forfeit \subseteq forfeit',
         \A m \in Kept : m.name \notin forfeit' /\ m.text = latest[m.name] =>
            \E k \in Kept' : k.name = m.name /\ k.text = m.text
  PROVE  NothingLost'
  BY DEF NothingLost

LEMMA MoreKept ==
  ASSUME NothingLost, UNCHANGED <<latest, forfeit>>, Kept \subseteq Kept'
  PROVE  NothingLost'
  BY StillKept

LEMMA SameKept ==
  ASSUME NothingLost, UNCHANGED <<latest, forfeit, vault, trash, records, aside>>
  PROVE  NothingLost'
  BY MoreKept DEF Kept, NotesOf, Trashed, Prior

(* Only the vault changes.                                                 *)
LEMMA VaultKept ==
  ASSUME UNCHANGED <<trash, records, aside>>,
         NEW m \in Kept, m \notin NotesOf(vault) \/ m \in NotesOf(vault)'
  PROVE  m \in Kept'
  BY DEF Kept, Trashed, Prior

LEMMA EditNoteLosesNothing ==
  ASSUME Types, NothingLost, NEW s \in Slugs, NEW n \in Names, EditNote(s, n), UNCHANGED <<snaps, aside>>
  PROVE  NothingLost'
<1> USE DEF EditNote
<1>1. \A t \in Slugs \ {s} : vault'[t] = vault[t]  BY DEF Types, FilesTyped, Vaults
<1>2. /\ vault'[s] = {IF m.name = n THEN [m EXCEPT !.text = edits + 1] ELSE m : m \in vault[s]}
      /\ vault[s] \subseteq Note /\ vault[s] # None
  BY DEF Types, FilesTyped, Vaults, Folder, In
<1>3. vault'[s] # None  BY EditNoteTypes
<1>4. PICK k \in vault[s] : k.name = n  BY DEF In
<1> DEFINE new == [k EXCEPT !.text = edits + 1]
<1>5. new \in vault'[s] /\ new.name = n /\ new.text = edits + 1  BY <1>2, <1>4 DEF Note
<1>6. new \in Kept'  BY <1>3, <1>5, NoteOf DEF Kept
<1>7. ASSUME NEW m \in Kept, m.name # n  PROVE m \in Kept'
  <2>1. ASSUME NEW t \in Slugs, vault[t] # None, m \in vault[t]  PROVE m \in NotesOf(vault)'
    <3>1. CASE t = s  BY <1>2, <1>3, <1>7, <2>1, <3>1, NoteOf
    <3>2. CASE t # s  BY <1>1, <2>1, <3>2, NoteOf
    <3> QED  BY <3>1, <3>2
  <2> QED  BY <2>1, NoteOf, VaultKept
<1>8. ASSUME NEW k2 \in Names \ forfeit', latest'[k2] > 0 \/ k2 \in NamesIn(NotesOf(FirstVault))
      PROVE  \E m \in Kept' : m.name = k2 /\ m.text = latest'[k2]
  <2>1. latest'[k2] = IF k2 = n THEN edits + 1 ELSE latest[k2]  BY DEF Types, GhostsTyped
  <2>2. CASE k2 = n  BY <1>5, <1>6, <2>1, <2>2
  <2>3. CASE k2 # n
    <3>1. k2 \notin forfeit  BY <1>8, <2>3
    <3>2. PICK m \in Kept : m.name = k2 /\ m.text = latest[k2]
      BY <1>8, <2>1, <2>3, <3>1 DEF NothingLost
    <3> QED  BY <1>7, <2>1, <2>3, <3>2
  <2> QED  BY <2>2, <2>3
<1> QED  BY <1>8 DEF NothingLost

LEMMA AddNoteLosesNothing ==
  ASSUME Types, NothingLost, NEW s \in Slugs, NEW n \in Names, AddNote(s, n), UNCHANGED <<snaps, aside>>
  PROVE  NothingLost'
<1> USE DEF AddNote
<1> DEFINE new == [name |-> n, dom |-> s, link |-> None, text |-> edits + 1]
<1>1. \A t \in Slugs \ {s} : vault'[t] = vault[t]  BY DEF Types, FilesTyped, Vaults
<1>2. new \in vault'[s] /\ (vault[s] # None => vault[s] \subseteq vault'[s])
  BY DEF Types, FilesTyped, Vaults
<1>3. vault'[s] # None  BY AddNoteTypes
<1>4. new \in Kept'  BY <1>2, <1>3, NoteOf DEF Kept
<1>5. ASSUME NEW m \in Kept  PROVE m \in Kept'
  <2>1. ASSUME NEW t \in Slugs, vault[t] # None, m \in vault[t]  PROVE m \in NotesOf(vault)'
    BY <1>1, <1>2, <1>3, <2>1, NoteOf
  <2> QED  BY <2>1, NoteOf, VaultKept
<1>6. ASSUME NEW k \in Names \ forfeit', latest'[k] > 0 \/ k \in NamesIn(NotesOf(FirstVault))
      PROVE  \E m \in Kept' : m.name = k /\ m.text = latest'[k]
  <2>1. latest'[k] = IF k = n THEN edits + 1 ELSE latest[k]  BY DEF Types, GhostsTyped
  <2>2. CASE k = n  BY <1>4, <2>1, <2>2
  <2>3. CASE k # n
    <3>2. PICK m \in Kept : m.name = k /\ m.text = latest[k]
      BY <1>6, <2>1, <2>3 DEF NothingLost
    <3> QED  BY <1>5, <2>1, <2>3, <3>2
  <2> QED  BY <2>2, <2>3
<1> QED  BY <1>6 DEF NothingLost

LEMMA CreateLosesNothing ==
  ASSUME Types, NothingLost, NEW p \in Procs, UNCHANGED aside,
         CreateFails(p) \/ \E s \in Slugs : Create(p, s)
  PROVE  NothingLost'
<1> USE DEF Types, FilesTyped, Vaults
<1>1. ASSUME NEW s \in Slugs, Create(p, s)  PROVE NothingLost'
  <2>1. /\ vault[s] = None /\ \A t \in Slugs \ {s} : vault'[t] = vault[t]
        /\ UNCHANGED <<trash, records, latest, forfeit>>
    BY <1>1 DEF Create
  <2>2. NotesOf(vault) \subseteq NotesOf(vault)'  BY <2>1, NoteOf
  <2>3. Kept \subseteq Kept'  BY <2>1, <2>2, VaultKept
  <2> QED  BY <2>1, <2>3, MoreKept
<1>2. CASE CreateFails(p)
  <2>1. UNCHANGED <<trash, records, latest>> /\ call[p].from \in Slugs
    BY <1>2, RunningIs DEF CreateFails, Creating, CreateCall
  <2>2. CASE UNCHANGED <<vault, forfeit>>  BY <2>1, <2>2, SameKept
  <2>3. CASE /\ vault' = [vault EXCEPT ![call[p].from] = None]
             /\ forfeit' = forfeit \cup
                  IF vault[call[p].from] # None THEN NamesIn(vault[call[p].from]) ELSE {}
    <3>1. ASSUME NEW m \in Kept, m.name \notin forfeit'  PROVE m \in Kept'
      <4>1. ASSUME NEW t \in Slugs, vault[t] # None, m \in vault[t]  PROVE m \in NotesOf(vault)'
        <5>1. t # call[p].from  BY <2>3, <3>1, <4>1 DEF NamesIn
        <5> QED  BY <2>1, <2>3, <4>1, <5>1, NoteOf
      <4> QED  BY <2>1, <4>1, NoteOf, VaultKept
    <3> QED  BY <2>1, <2>3, <3>1, StillKept
  <2> QED  BY <1>2, <2>2, <2>3 DEF CreateFails
<1> QED  BY <1>1, <1>2

(* A note is replaced: another text of that name is forfeited.             *)
LEMMA PutLosesNothing ==
  ASSUME Types, NothingLost, NEW s \in Slugs, NEW m \in Note, NEW old \in SUBSET Note,
         vault[s] = None \/ old = vault[s], UNCHANGED <<trash, records, aside, latest>>,
         vault' = [vault EXCEPT ![s] = Put(old, m)],
         forfeit' = forfeit \cup (IF latest[m.name] = m.text THEN {} ELSE {m.name})
  PROVE  NothingLost'
<1> USE DEF Types, FilesTyped, Vaults
<1>1. /\ \A t \in Slugs \ {s} : vault'[t] = vault[t]
      /\ vault'[s] = {k \in old : k.name # m.name} \cup {m}
  BY DEF Put
<1>2. Put(old, m) \in Folder  BY PutIs
<1>3. vault'[s] # None  BY <1>2
<1>4. m \in NotesOf(vault)'  BY <1>1, <1>3, NoteOf
<1>5. ASSUME NEW k \in Kept, k.name \notin forfeit', k.text = latest[k.name]
      PROVE  \E r \in Kept' : r.name = k.name /\ r.text = k.text
  <2>1. CASE k.name = m.name
    <3>1. m.text = k.text  BY <1>5, <2>1
    <3> QED  BY <1>4, <2>1, <3>1 DEF Kept
  <2>2. CASE k.name # m.name
    <3>1. ASSUME NEW t \in Slugs, vault[t] # None, k \in vault[t]  PROVE k \in NotesOf(vault)'
      BY <1>1, <1>3, <2>2, <3>1, NoteOf
    <3>2. k \in Kept'  BY <3>1, NoteOf, VaultKept
    <3> QED  BY <3>2
  <2> QED  BY <2>1, <2>2
<1> QED  BY <1>5, StillKept

LEMMA NotesReplacedLoseNothing ==
  ASSUME Types, NothingLost, NEW p \in Procs, UNCHANGED aside, ReplaceNote(p) \/ UndoNote(p)
  PROVE  NothingLost'
<1> USE DEF Types
<1>1. CASE ReplaceNote(p)
  <2> DEFINE c == call[p]  x == c.read  m == Rewritten(c, x.note)
             old == IF vault[x.slug] = None THEN {} ELSE vault[x.slug]
  <2>1. /\ x \in Path /\ m \in Note /\ m.name = x.note.name /\ m.text = x.note.text /\ old \subseteq Note
        /\ vault' = [vault EXCEPT ![x.slug] = Put(old, m)]
    BY <1>1, ReplaceNoteIs
  <2>2. /\ forfeit' = forfeit \cup (IF latest[x.note.name] = x.note.text THEN {} ELSE {x.note.name})
        /\ UNCHANGED <<trash, records, latest>>
    BY <1>1 DEF ReplaceNote
  <2>3. vault[x.slug] = None \/ old = vault[x.slug]  OBVIOUS
  <2>4. x.slug \in Slugs  BY <2>1 DEF Path
  <2> HIDE DEF m, old, x
  <2>5. forfeit' = forfeit \cup (IF latest[m.name] = m.text THEN {} ELSE {m.name})  BY <2>1, <2>2
  <2> QED  BY <2>1, <2>2, <2>3, <2>4, <2>5, PutLosesNothing
<1>2. CASE UndoNote(p)
  <2> DEFINE x == NextEdit(p)
  <2>1. /\ x \in Path /\ vault[x.slug] \in Folder
        /\ vault' = [vault EXCEPT ![x.slug] = Put(vault[x.slug], x.note)]
        /\ forfeit' = forfeit \cup (IF latest[x.note.name] = x.note.text THEN {} ELSE {x.note.name})
    BY <1>2, UndoNoteIs
  <2>2. UNCHANGED <<trash, records, latest>>  BY <1>2 DEF UndoNote
  <2>3. x.slug \in Slugs /\ x.note \in Note /\ vault[x.slug] \subseteq Note  BY <2>1 DEF Path, Folder
  <2> HIDE DEF x
  <2> QED  BY <2>1, <2>2, <2>3, PutLosesNothing
<1> QED  BY <1>1, <1>2

(* A folder goes from one slug to another.                                 *)
LEMMA FolderMovesLosesNothing ==
  ASSUME Types, NothingLost, NEW a \in Slugs, NEW b \in Slugs, vault[a] = None, vault[b] # None,
         vault' = [vault EXCEPT ![a] = vault[b], ![b] = None] \/ vault' = [vault EXCEPT ![b] = None, ![a] = vault[b]],
         UNCHANGED <<trash, records, aside, latest, forfeit>>
  PROVE  NothingLost'
<1> USE DEF Types, FilesTyped, Vaults
<1>1. vault'[a] = vault[b] /\ \A t \in Slugs \ {a, b} : vault'[t] = vault[t]  OBVIOUS
<1>2. NotesOf(vault) \subseteq NotesOf(vault)'
  <2> SUFFICES ASSUME NEW s \in Slugs, vault[s] # None, NEW m \in vault[s]
               PROVE  \E t \in Slugs : vault'[t] # None /\ m \in vault'[t]
    BY NoteOf
  <2>1. CASE s = b  BY <1>1, <2>1
  <2>2. CASE s # b  BY <1>1, <2>2
  <2> QED  BY <2>1, <2>2
<1>3. Kept \subseteq Kept'  BY <1>2, VaultKept
<1> QED  BY <1>3, MoreKept

LEMMA RenamesLoseNothing ==
  ASSUME Types, NothingLost, NEW p \in Procs, UNCHANGED aside,
         MoveFolder(p) \/ \E id \in Ids : UndoRename(p, id)
  PROVE  NothingLost'
<1> USE DEF Types
<1>1. CASE MoveFolder(p)
  <2>1. call[p].from \in Slugs /\ call[p].to \in Slugs
    BY <1>1, RunningIs DEF MoveFolder, Walking, RenameCall
  <2>2. /\ vault[call[p].to] = None /\ vault[call[p].from] # None
        /\ vault' = [vault EXCEPT ![call[p].from] = None, ![call[p].to] = vault[call[p].from]]
        /\ UNCHANGED <<trash, records, latest, forfeit>>
    BY <1>1 DEF MoveFolder
  <2> QED  BY <2>1, <2>2, FolderMovesLosesNothing
<1>2. ASSUME NEW id \in Ids, UndoRename(p, id)  PROVE NothingLost'
  <2> DEFINE a == records[id].from  b == records[id].to
  <2>1. a \in Slugs /\ b \in Slugs /\ UNCHANGED <<trash, records, latest, forfeit>>
    BY <1>2, RecordIs DEF UndoRename, Undoes
  <2>2. \/ vault' = vault
        \/ vault[b] # None /\ vault[a] = None /\ vault' = [vault EXCEPT ![a] = vault[b], ![b] = None]
    BY <1>2 DEF UndoRename
  <2> HIDE DEF a, b
  <2> QED  BY <2>1, <2>2, FolderMovesLosesNothing, SameKept
<1> QED  BY <1>1, <1>2

(* A folder goes into the trash, under an id nothing bears, and back.      *)
LEMMA DeletesLoseNothing ==
  ASSUME Types, Fresh, NothingLost, NEW p \in Procs, UNCHANGED aside,
         (\E s \in Slugs : Delete(p, s)) \/ \E id \in Ids : UndoDelete(p, id)
  PROVE  NothingLost'
<1> USE DEF Types, FilesTyped, Vaults
<1>1. ASSUME NEW s \in Slugs, Delete(p, s)  PROVE NothingLost'
  <2>1. /\ trash' = [trash EXCEPT ![calls + 1] = vault[s]] /\ calls + 1 \in Ids /\ vault[s] # None
        /\ \A t \in Slugs \ {s} : vault'[t] = vault[t]
        /\ UNCHANGED <<records, latest, forfeit>>
    BY <1>1, NextId DEF Delete
  <2>2. trash[calls + 1] = None
    <3>1. calls + 1 > calls  BY DomainAssumption DEF CallsTyped
    <3>2. TrashOf(calls + 1) = {}  BY <2>1, <3>1 DEF Fresh
    <3> QED  BY <3>2 DEF TrashOf
  <2>3. ASSUME NEW m \in Kept  PROVE m \in Kept'
    <3>1. ASSUME NEW t \in Slugs, vault[t] # None, m \in vault[t]  PROVE m \in Kept'
      <4>1. CASE t = s  BY <2>1, <3>1, <4>1, TrashedIs DEF Kept
      <4>2. CASE t # s  BY <2>1, <3>1, <4>2, NoteOf DEF Kept
      <4> QED  BY <4>1, <4>2
    <3>2. ASSUME NEW i \in Ids, trash[i] # None, m \in trash[i]  PROVE m \in Kept'
      <4>1. trash'[i] = trash[i]  BY <2>1, <2>2, <3>2
      <4> QED  BY <3>2, <4>1, TrashedIs DEF Kept
    <3>3. m \in aside \cup Prior(records) => m \in Kept'  BY <2>1 DEF Kept, Prior
    <3> QED  BY <3>1, <3>2, <3>3, NoteOf, TrashedIs DEF Kept
  <2> QED  BY <2>1, <2>3, MoreKept
<1>2. ASSUME NEW id \in Ids, UndoDelete(p, id)  PROVE NothingLost'
  <2> DEFINE s == records[id].from
  <2>1. s \in Slugs  BY <1>2, RecordIs DEF UndoDelete
  <2>2. /\ vault[s] = None /\ vault' = [vault EXCEPT ![s] = trash[id]] /\ trash[id] # None
        /\ trash' = [trash EXCEPT ![id] = None] /\ UNCHANGED <<records, latest, forfeit>>
    BY <1>2 DEF UndoDelete
  <2> HIDE DEF s
  <2>3. ASSUME NEW m \in Kept  PROVE m \in Kept'
    <3>1. ASSUME NEW t \in Slugs, vault[t] # None, m \in vault[t]  PROVE m \in Kept'
      BY <2>1, <2>2, <3>1, NoteOf DEF Kept
    <3>2. ASSUME NEW i \in Ids, trash[i] # None, m \in trash[i]  PROVE m \in Kept'
      <4>1. CASE i = id  BY <2>1, <2>2, <3>2, <4>1, NoteOf DEF Kept
      <4>2. CASE i # id  BY <2>2, <3>2, <4>2, TrashedIs DEF Kept
      <4> QED  BY <4>1, <4>2
    <3>3. m \in aside \cup Prior(records) => m \in Kept'  BY <2>2 DEF Kept, Prior
    <3> QED  BY <3>1, <3>2, <3>3, NoteOf, TrashedIs DEF Kept
  <2> QED  BY <2>2, <2>3, MoreKept
<1> QED  BY <1>1, <1>2

(* A record is put where there was none.                                   *)
LEMMA RecordsLoseNothing ==
  ASSUME Types, Unrecorded, NothingLost, NEW p \in Procs, PutsRecord(p)
  PROVE  NothingLost'
<1>0. call[p].id \in Ids
  BY RunningIs DEF Types, PutsRecord, RenameRecords, DeleteRecords, RenameCall, DeleteCall
<1>1. OwnId(p) /\ call[p].id \in Ids /\ \A j \in Ids \ {call[p].id} : records'[j] = records[j]
  BY <1>0, RecordCopies
<1>2. records[call[p].id] = None
  <2>1. RecordsOf(call[p].id) = {}
    BY <1>1 DEF Unrecorded, PutsRecord, RenameRecords, DeleteRecords
  <2> QED  BY <1>1, <2>1 DEF RecordsOf
<1>3. UNCHANGED <<vault, trash, aside, latest, forfeit>>
  BY DEF PutsRecord, RenameRecords, DeleteRecords
<1>4. \A j \in Ids : records[j] # None => records'[j] = records[j]  BY <1>1, <1>2
<1>5. Prior(records) \subseteq Prior(records)'
  <2> SUFFICES ASSUME NEW m, m \in Prior(records)  PROVE m \in Prior(records)'
    OBVIOUS
  <2>1. PICK i \in Ids : records[i] # None /\ records[i].kind = "rename" /\ \E x \in records[i].edits : m = x.note
    BY PriorIs
  <2>2. records'[i] = records[i]  BY <1>4, <2>1
  <2> QED  BY <2>1, <2>2, PriorIs
<1>6. Kept \subseteq Kept'  BY <1>3, <1>5 DEF Kept, NotesOf, Trashed
<1> QED  BY <1>3, <1>6, MoreKept

LEMMA MoveAsideLosesNothing ==
  ASSUME Types, NothingLost, NEW p \in Procs, MoveAside(p)
  PROVE  NothingLost'
<1> USE DEF Types, FilesTyped, Vaults
<1>1. UNCHANGED <<latest, forfeit>>  BY DEF MoveAside, MovesAside
<1>2. PICK i \in call[p].todo :
         IF i = InBrain
         THEN aside' = aside \cup (Trashed(trash) \cup Prior(records)) /\ UNCHANGED vault
         ELSE /\ vault[i] # None /\ vault' = [vault EXCEPT ![i] = None]
              /\ aside' = aside \cup vault[i] /\ UNCHANGED <<trash, records>>
  BY DEF MoveAside, MovesAside
<1>3. CASE i = InBrain
  <2>1. Kept \subseteq Kept'  BY <1>2, <1>3 DEF Kept, NotesOf
  <2> QED  BY <1>1, <2>1, MoreKept
<1>4. CASE i # InBrain
  <2>0. i \in Slugs  BY <1>4, RunningIs DEF MoveAside, MovesAside, RestoreCall
  <2>1. ASSUME NEW m \in Kept  PROVE m \in Kept'
    <3>1. ASSUME NEW t \in Slugs, vault[t] # None, m \in vault[t]  PROVE m \in Kept'
      <4>1. CASE t = i  BY <1>2, <1>4, <3>1, <4>1 DEF Kept
      <4>2. CASE t # i  BY <1>2, <1>4, <2>0, <3>1, <4>2, NoteOf DEF Kept
      <4> QED  BY <4>1, <4>2
    <3>2. m \in aside \cup Prior(records) \cup Trashed(trash) => m \in Kept'
      BY <1>2, <1>4 DEF Kept, Prior, Trashed
    <3> QED  BY <3>1, <3>2, NoteOf DEF Kept
  <2> QED  BY <1>1, <2>1, MoreKept
<1> QED  BY <1>3, <1>4

(* An archive holds the trash and the records that are still there, or     *)
(* none: putting them back takes nothing away.                             *)
LEMMA ExtractLosesNothing ==
  ASSUME Types, OneCopy, NothingLost, NEW p \in Procs, RestoreWork(p), Extract(p)
  PROVE  NothingLost'
<1> USE DEF Types
<1>1. UNCHANGED <<latest, aside>>  BY DEF Extract
<1>2. CASE ItemOf(p) = InBrain
  <2> DEFINE k == call[p].read  b == snaps[k].brain
  <2>1. /\ k \in Archives
        /\ trash' = Over(trash, b.trash) /\ records' = Over(records, b.records)
        /\ UNCHANGED <<vault, forfeit>>
    BY <1>2, ExtractIs DEF ImageOf, Archives, FilesTyped
  <2>2. ASSUME NEW i \in Ids, trash[i] # None  PROVE trash'[i] = trash[i]
    <3>1. trash'[i] \in {trash[i], b.trash[i]} /\ trash'[i] # None
      BY <2>1, <2>2 DEF Over, FilesTyped
    <3>2. trash[i] \in TrashOf(i) /\ (b.trash[i] # None => b.trash[i] \in TrashOf(i))
      BY <2>1, <2>2 DEF TrashOf
    <3> QED  BY <3>1, <3>2 DEF OneCopy
  <2>3. ASSUME NEW i \in Ids, records[i] # None  PROVE records'[i] = records[i]
    <3>1. records'[i] \in {records[i], b.records[i]} /\ records'[i] # None
      BY <2>1, <2>3 DEF Over, FilesTyped
    <3>2. records[i] \in RecordsOf(i) /\ (b.records[i] # None => b.records[i] \in RecordsOf(i))
      BY <2>1, <2>3 DEF RecordsOf
    <3> QED  BY <3>1, <3>2 DEF OneCopy
  <2>4. Trashed(trash) \subseteq Trashed(trash)'  BY <2>2, TrashedIs
  <2>5. Prior(records) \subseteq Prior(records)'
    <3> SUFFICES ASSUME NEW m, m \in Prior(records)  PROVE m \in Prior(records)'
      OBVIOUS
    <3>1. PICK i \in Ids : records[i] # None /\ records[i].kind = "rename" /\ \E x \in records[i].edits : m = x.note
      BY PriorIs
    <3> QED  BY <2>3, <3>1, PriorIs
  <2>6. Kept \subseteq Kept'  BY <1>1, <2>1, <2>4, <2>5 DEF Kept, NotesOf
  <2> QED  BY <1>1, <2>1, <2>6, MoreKept
<1>3. CASE ItemOf(p) # InBrain
  <2> DEFINE s == ItemOf(p)  g == ImageOf(p).vault[s]
  <2>1. /\ s \in Slugs /\ g \in Folder /\ UNCHANGED <<trash, records>>
        /\ vault' = [vault EXCEPT ![s] = IF vault[s] = None THEN g ELSE Merge(vault[s], g)]
        /\ forfeit' = forfeit \cup IF vault[s] # None THEN NamesIn(vault[s]) \cap NamesIn(g) ELSE {}
    BY <1>3, ExtractIs
  <2> HIDE DEF s, g
  <2>2. \A t \in Slugs \ {s} : vault'[t] = vault[t]  BY <2>1 DEF FilesTyped, Vaults
  <2>3. ASSUME NEW m \in Kept, m.name \notin forfeit'  PROVE m \in Kept'
    <3>1. ASSUME NEW t \in Slugs, vault[t] # None, m \in vault[t]  PROVE m \in NotesOf(vault)'
      <4>1. CASE t = s
        <5>1. vault'[s] = Merge(vault[s], g) /\ vault[s] \in Folder
          BY <2>1, <3>1, <4>1 DEF FilesTyped, Vaults
        <5>2. vault'[s] # None  BY <2>1, <5>1, MergeTyped DEF FilesTyped
        <5>3. m.name \in NamesIn(vault[s])  BY <3>1, <4>1 DEF NamesIn
        <5>4. m.name \notin NamesIn(g)  BY <2>1, <2>3, <3>1, <4>1, <5>3
        <5>5. m \in vault'[s]  BY <3>1, <4>1, <5>1, <5>4 DEF Merge
        <5> QED  BY <2>1, <5>2, <5>5, NoteOf
      <4>2. CASE t # s  BY <2>2, <3>1, <4>2, NoteOf
      <4> QED  BY <4>1, <4>2
    <3> QED  BY <1>1, <2>1, <3>1, NoteOf, VaultKept
  <2> QED  BY <1>1, <2>1, <2>3, StillKept
<1> QED  BY <1>2, <1>3

LEMMA NothingLostKept ==
  ASSUME Sound, NothingLost, [Next]_vars
  PROVE  NothingLost'
<1> USE DEF Sound, IdsOK
<1>1. CASE ByNobody  BY <1>1, EditNoteLosesNothing, AddNoteLosesNothing DEF ByNobody
<1>2. CASE UNCHANGED vars  BY <1>2, SameKept DEF vars, domainVars
<1>3. ASSUME NEW p \in Procs, ByOne(p)  PROVE NothingLost'
  <2>0. RestoreWork(p)  BY DEF WorkOK
  <2>1. CASE Reload(p) /\ UNCHANGED <<snaps, aside>>  BY <2>1, SameKept DEF Reload
  <2>2. CASE DomainStep(p) /\ UNCHANGED <<snaps, aside>>
    <3>1. CASE CreateSaves(p) \/ ReadNote(p) \/ LinksStart(p) \/ RenameSaves(p) \/ RenameFails(p)
      BY <2>2, <3>1, SameKept DEF CreateSaves, ReadNote, LinksStart, RenameSaves, RenameFails
    <3>2. CASE DeleteSaves(p) \/ DeleteFails(p) \/ UndoEnds(p) \/ UndoFails(p)
      BY <2>2, <3>2, SameKept DEF DeleteSaves, DeleteFails, UndoEnds, UndoFails
    <3>3. CASE CreateFails(p)  BY <2>2, <3>3, CreateLosesNothing
    <3>4. CASE ReplaceNote(p) \/ UndoNote(p)  BY <2>2, <3>4, NotesReplacedLoseNothing
    <3>5. CASE MoveFolder(p)  BY <2>2, <3>5, RenamesLoseNothing
    <3>6. CASE RenameRecords(p) \/ DeleteRecords(p)  BY <2>2, <3>6, RecordsLoseNothing DEF PutsRecord
    <3> QED  BY <2>2, <3>1, <3>2, <3>3, <3>4, <3>5, <3>6 DEF DomainStep
  <2>3. CASE (\E id \in Ids : UndoDelete(p, id)) /\ UNCHANGED <<snaps, aside>>
    BY <2>3, DeletesLoseNothing
  <2>4. CASE (\E s \in Slugs : Create(p, s) \/ Delete(p, s)) /\ UNCHANGED <<snaps, aside>>
    BY <2>4, CreateLosesNothing, DeletesLoseNothing
  <2>5. CASE (\E a, b \in Slugs : RenameStarts(p, a, b)) /\ UNCHANGED <<snaps, aside>>
    BY <2>5, SameKept DEF RenameStarts
  <2>6. CASE (\E id \in Ids : UndoRename(p, id)) /\ UNCHANGED <<snaps, aside>>
    BY <2>6, RenamesLoseNothing
  <2>7. CASE SnapshotStarts(p) \/ Die(p) \/ \E id \in Ids : RestoreStarts(p, id)
    BY <2>7, SameKept DEF SnapshotStarts, Die, RestoreStarts
  <2>8. CASE BackupStep(p)
    <3>1. CASE Pack(p) \/ PackEnds(p) \/ PackFails(p)  BY <3>1, SameKept DEF Pack, PackEnds, PackFails
    <3>2. CASE ExtractStarts(p) \/ RestoreEnds(p) \/ RestoreFails(p)
      BY <3>2, SameKept DEF ExtractStarts, RestoreEnds, RestoreFails
    <3>3. CASE MoveAside(p)  BY <3>3, MoveAsideLosesNothing
    <3>4. CASE Extract(p)  BY <2>0, <3>4, ExtractLosesNothing
    <3> QED  BY <2>8, <3>1, <3>2, <3>3, <3>4 DEF BackupStep
  <2> QED  BY <1>3, <2>1, <2>2, <2>3, <2>4, <2>5, <2>6, <2>7, <2>8 DEF ByOne
<1> QED  BY <1>1, <1>2, <1>3, NextIs

(* The latest text of every note is still somewhere, whatever fails, dies, *)
(* or is undone, for every number of processes, slugs and notes.           *)
THEOREM NothingLostCorrect ==
  ASSUME None \notin Folder \cup Image \cup Calls
  PROVE  Spec => []NothingLost
<1>1. InitBackup => Sound /\ NothingLost
  <2> SUFFICES ASSUME InitBackup  PROVE NothingLost
    BY SoundAtFirst
  <2>1. vault = FirstVault /\ latest = [n \in Names |-> 0]  BY DEF InitBackup, Init
  <2>2. ASSUME NEW n \in Names, n \in NamesIn(NotesOf(FirstVault))
        PROVE  \E m \in Kept : m.name = n /\ m.text = latest[n]
    <3>1. PICK m \in NotesOf(vault) : m.name = n  BY <2>1, <2>2 DEF NamesIn
    <3>2. m.text = 0  BY <2>1, NoteOf, DomainAssumption
    <3> QED  BY <2>1, <3>1, <3>2 DEF Kept
  <2>3. \A n \in Names : ~(latest[n] > 0)  BY <2>1
  <2> QED  BY <2>2, <2>3 DEF NothingLost
<1>2. Sound /\ NothingLost /\ [Next]_vars => (Sound /\ NothingLost)'
  BY SoundKept, NothingLostKept
<1> QED  BY <1>1, <1>2, PTL DEF Spec
-----------------------------------------------------------------------------
(* ConfigFollows.                                                          *)

(* While calls run one at a time, the call that runs knows how far the     *)
(* folders are ahead of the Config.                                        *)
Alone(p) == \A q \in Procs \ {p} : Idle(q)
Open == {s \in Slugs : Exists(s)}
Following(p) ==
  LET c == call[p]  ds == config.domains IN
  /\ live[p] = config
  /\ c.op = "create" => Open = ds \cup {c.from}
  /\ c.op = "rename" =>
       /\ c.from # c.to
       /\ c.pc # "save" => Open = ds
       /\ c.pc = "save" => Open = (ds \ {c.from}) \cup {c.to}
       /\ c.pc \in {"own", "links"} => c.to \notin Open /\ (c.read = None \/ c.read.slug \in Open)
  /\ c.op = "delete" => Open = ds \ {c.from}
  /\ c.op = "snapshot" => Open = ds
  /\ c.op \notin {"undo", "restore"}
ConfigInv ==
  apart => /\ (\A p \in Procs : Idle(p)) => config.domains = Open
           /\ \A p \in Procs : ~Idle(p) => Alone(p) /\ Following(p)

LEMMA OpenSame ==
  ASSUME Types, NEW s \in Slugs, NEW f, vault[s] # None, f # None, vault' = [vault EXCEPT ![s] = f]
  PROVE  Open' = Open
  BY DEF Types, FilesTyped, Vaults, Open

LEMMA NobodyFollows ==
  ASSUME Types, ConfigInv, ByNobody
  PROVE  ConfigInv'
<1> USE DEF Types
<1>1. ASSUME NEW s \in Slugs, NEW n \in Names, EditNote(s, n) \/ AddNote(s, n), UNCHANGED <<snaps, aside>>, apart'
      PROVE  apart /\ Open' = Open /\ UNCHANGED <<call, live, config>>
  <2>1. apart /\ UNCHANGED <<call, live, config>> /\ vault[s] # None
    BY <1>1 DEF EditNote, AddNote, In
  <2>2. vault'[s] # None  BY <1>1, EditNoteTypes, AddNoteTypes
  <2>3. \A t \in Slugs \ {s} : vault'[t] = vault[t]  BY <1>1 DEF EditNote, AddNote, FilesTyped, Vaults
  <2>4. Open' = Open  BY <2>1, <2>2, <2>3 DEF Open
  <2> QED  BY <2>1, <2>4
<1>2. SUFFICES ASSUME apart'  PROVE ConfigInv'
  BY DEF ConfigInv
<1>3. apart /\ Open' = Open /\ UNCHANGED <<call, live, config>>  BY <1>1, <1>2 DEF ByNobody
<1> QED  BY <1>3 DEF ConfigInv, Alone, Following

LEMMA ReloadFollows ==
  ASSUME Types, ConfigInv, NEW p \in Procs, Reload(p)
  PROVE  ConfigInv'
<1>1. /\ UNCHANGED <<call, config, apart, vault>> /\ call[p] = None
      /\ \A q \in Procs \ {p} : live'[q] = live[q]
  BY DEF Reload, Types, ConfigTyped
<1>2. Open' = Open  BY <1>1 DEF Open
<1> QED  BY <1>1, <1>2 DEF ConfigInv, Alone, Following

(* A call begins when none runs.                                           *)
LEMMA BeginningFollows ==
  ASSUME Types, ConfigInv, NEW p \in Procs,
         (\E s \in Slugs : Create(p, s) \/ Delete(p, s)) \/ (\E a, b \in Slugs : RenameStarts(p, a, b))
         \/ SnapshotStarts(p) \/ \E id \in Ids : UndoRename(p, id) \/ RestoreStarts(p, id)
  PROVE  ConfigInv'
<1> USE DEF Types
<1>1. SUFFICES ASSUME apart'  PROVE ConfigInv'
  BY DEF ConfigInv
<1>2. ~\E id \in Ids : UndoRename(p, id) \/ RestoreStarts(p, id)
  BY <1>1 DEF UndoRename, Undoes, RestoreStarts
<1>3. apart /\ live[p] = config /\ (\A q \in Procs : Idle(q)) /\ UNCHANGED <<live, config>>
  <2>1. CASE \E s \in Slugs : Create(p, s) \/ Delete(p, s)  BY <1>1, <2>1 DEF Create, Delete
  <2>2. CASE \E a, b \in Slugs : RenameStarts(p, a, b)  BY <1>1, <2>2 DEF RenameStarts
  <2>3. CASE SnapshotStarts(p)  BY <1>1, <2>3 DEF SnapshotStarts
  <2> QED  BY <1>2, <2>1, <2>2, <2>3
<1>4. Open = config.domains  BY <1>3 DEF ConfigInv
<1>5. call'[p] # None /\ Following(p)' /\ \A q \in Procs \ {p} : call'[q] = None
  <2>1. ASSUME NEW s \in Slugs, Create(p, s)  PROVE call'[p] # None /\ Following(p)' /\ \A q \in Procs \ {p} : call'[q] = None
    <3>1. /\ call'[p] = NewCall("create", "seed", calls + 1, s, s, {})
          /\ \A q \in Procs \ {p} : call'[q] = None
      BY <1>3, <2>1 DEF Create, CallsTyped
    <3>2. call'[p] \in Calls  BY <3>1, NextId, <2>1 DEF Create, Calls, CreateCall
    <3>3. Open' = Open \cup {s}
      <4>1. {} # None  BY DEF FilesTyped, Folder
      <4>2. vault' = [vault EXCEPT ![s] = {}]  BY <2>1 DEF Create
      <4> QED  BY <4>1, <4>2 DEF Open, FilesTyped, Vaults
    <3>4. call'[p].op = "create" /\ call'[p].from = s /\ live'[p] = config' /\ Open' = config'.domains \cup {s}
      BY <1>3, <1>4, <3>1, <3>3
    <3> QED  BY <3>1, <3>2, <3>4 DEF Following, CallsTyped
  <2>2. ASSUME NEW s \in Slugs, Delete(p, s)  PROVE call'[p] # None /\ Following(p)' /\ \A q \in Procs \ {p} : call'[q] = None
    <3>1. /\ call'[p] = NewCall("delete", "record", calls + 1, s, s, {})
          /\ \A q \in Procs \ {p} : call'[q] = None
      BY <1>3, <2>2 DEF Delete, CallsTyped
    <3>2. call'[p] \in Calls  BY <3>1, NextId, <2>2 DEF Delete, Calls, DeleteCall
    <3>3. Open' = Open \ {s}  BY <2>2 DEF Delete, Open, FilesTyped, Vaults
    <3> QED  BY <1>3, <1>4, <3>1, <3>2, <3>3 DEF Following, CallsTyped
  <2>3. ASSUME NEW a \in Slugs, NEW b \in Slugs, RenameStarts(p, a, b)
        PROVE  call'[p] # None /\ Following(p)' /\ \A q \in Procs \ {p} : call'[q] = None
    <3>1. /\ call'[p] = NewCall("rename", "own", calls + 1, a, b, Walk({a}))
          /\ \A q \in Procs \ {p} : call'[q] = None
      BY <1>3, <2>3 DEF RenameStarts, CallsTyped
    <3>2. call'[p] \in Calls
      <4>1. Walk({a}) \in SUBSET Path /\ calls + 1 \in Ids /\ a # personal /\ b # personal
        BY WalkIs, NextId, <2>3 DEF RenameStarts
      <4>2. call'[p] \in RenameCall  BY <3>1, <4>1 DEF RenameCall
      <4> QED  BY <4>2 DEF Calls
    <3>3. Open' = Open /\ b \notin Open' /\ a # b  BY <2>3 DEF RenameStarts, Open
    <3>4. /\ call'[p].op = "rename" /\ call'[p].from = a /\ call'[p].to = b /\ call'[p].pc = "own"
          /\ call'[p].read = None /\ live'[p] = config' /\ Open' = config'.domains
      BY <1>3, <1>4, <3>1, <3>3
    <3> QED  BY <3>1, <3>2, <3>3, <3>4 DEF Following, CallsTyped
  <2>4. CASE SnapshotStarts(p)
    <3>1. /\ call'[p] = NewCall("snapshot", "pack", calls + 1, None, None, Items)
          /\ \A q \in Procs \ {p} : call'[q] = None
      BY <1>3, <2>4 DEF SnapshotStarts, CallsTyped
    <3>2. call'[p] \in Calls  BY <3>1, NextId, ItemsIs, <2>4 DEF SnapshotStarts, Calls, SnapshotCall
    <3>3. Open' = Open  BY <2>4 DEF SnapshotStarts, Open
    <3>4. call'[p].op = "snapshot" /\ live'[p] = config' /\ Open' = config'.domains
      BY <1>3, <1>4, <3>1, <3>3
    <3> QED  BY <3>1, <3>2, <3>4 DEF Following, CallsTyped
  <2> QED  BY <1>2, <2>1, <2>2, <2>3, <2>4
<1> QED  BY <1>3, <1>5 DEF ConfigInv, Alone

(* The call that runs goes on.                                             *)
Ended(p) == call'[p] = None /\ config'.domains = Open'

LEMMA CreateFollows ==
  ASSUME Types, NEW p \in Procs, Following(p), CreateSaves(p)
  PROVE  Ended(p)
<1>1. call[p].op = "create" /\ call'[p] = None /\ vault' = vault
  BY DEF CreateSaves, Creating, Types, CallsTyped
<1>2. live[p] = config /\ Open = config.domains \cup {call[p].from}  BY <1>1 DEF Following
<1>3. config' = [live[p] EXCEPT !.domains = live[p].domains \cup {call[p].from}] /\ live[p] \in Config
  BY DEF CreateSaves, Types, ConfigTyped
<1>4. config'.domains = live[p].domains \cup {call[p].from}  BY <1>3 DEF Config
<1> QED  BY <1>1, <1>2, <1>4 DEF Ended, Open

LEMMA DeleteFollows ==
  ASSUME Types, NEW p \in Procs, Following(p), DeleteRecords(p) \/ DeleteSaves(p)
  PROVE  Ended(p) \/ (call'[p] \in Calls /\ Following(p)')
<1> USE DEF Types
<1>1. /\ call[p] \in DeleteCall /\ call[p].op = "delete" /\ Open' = Open /\ live[p] = config
      /\ Open = config.domains \ {call[p].from} /\ live[p] \in Config
  BY RunningIs DEF DeleteRecords, DeleteSaves, Following, Open, ConfigTyped
<1>2. CASE DeleteRecords(p)
  <2>1. call'[p] = [call[p] EXCEPT !.pc = "save"] /\ UNCHANGED <<live, config>>
    BY <1>2 DEF DeleteRecords, CallsTyped
  <2>2. call'[p].op = "delete" /\ call'[p].from = call[p].from  BY <1>1, <2>1 DEF DeleteCall
  <2>3. call'[p] \in Calls  BY <1>1, <2>1, TodoMoves DEF Calls
  <2> QED  BY <1>1, <2>1, <2>2, <2>3 DEF Following
<1>3. CASE DeleteSaves(p)
  <2>1. call'[p] = None  BY <1>3 DEF DeleteSaves, CallsTyped
  <2>2. CASE call[p].from \in live[p].domains
    <3>1. config' = [live[p] EXCEPT !.domains = live[p].domains \ {call[p].from}]
      BY <1>3, <2>2 DEF DeleteSaves
    <3>2. config'.domains = live[p].domains \ {call[p].from}  BY <1>1, <3>1 DEF Config
    <3> QED  BY <1>1, <2>1, <3>2 DEF Ended
  <2>3. CASE call[p].from \notin live[p].domains
    BY <1>1, <1>3, <2>1, <2>3 DEF DeleteSaves, Ended
  <2> QED  BY <2>2, <2>3
<1> QED  BY <1>2, <1>3

LEMMA SnapshotFollows ==
  ASSUME Types, NEW p \in Procs, SnapshotWork(p), Following(p), Pack(p) \/ PackEnds(p)
  PROVE  Ended(p) \/ (call'[p] \in Calls /\ Following(p)')
<1> USE DEF Types
<1>1. /\ call[p] \in SnapshotCall /\ call[p].op = "snapshot" /\ Open' = Open /\ live[p] = config
      /\ Open = config.domains /\ UNCHANGED <<live, config>>
  BY RunningIs DEF Pack, PackEnds, Following, Open
<1>2. CASE Pack(p)
  <2>1. call'[p].op = "snapshot" /\ call'[p] \in Calls  BY <1>2, PackIs DEF SnapshotCall, Calls
  <2> QED  BY <1>1, <2>1 DEF Following
<1>3. CASE PackEnds(p)  BY <1>1, <1>3 DEF PackEnds, CallsTyped, Ended
<1> QED  BY <1>2, <1>3

(* The last steps of a rename, from the move of the folder to the record.  *)
LEMMA CommitFollows ==
  ASSUME Types, NEW p \in Procs, Following(p), MoveFolder(p) \/ RenameSaves(p) \/ RenameRecords(p)
  PROVE  Ended(p) \/ (call'[p] \in Calls /\ Following(p)')
<1> USE DEF Types
<1>1. call[p] \in RenameCall /\ call[p].op = "rename"
  BY RunningIs DEF MoveFolder, RenameSaves, RenameRecords, Walking
<1>2. /\ live[p] = config /\ live[p] \in Config /\ call[p].from # call[p].to
      /\ call[p].from \in Slugs /\ call[p].to \in Slugs
  BY <1>1 DEF Following, ConfigTyped, RenameCall
<1>3. CASE MoveFolder(p)
  <2>1. call'[p] = [call[p] EXCEPT !.pc = "save", !.todo = {}] /\ UNCHANGED <<live, config>>
    BY <1>3 DEF MoveFolder, CallsTyped
  <2>2. /\ call'[p].op = "rename" /\ call'[p].from = call[p].from /\ call'[p].to = call[p].to
        /\ call'[p].pc = "save"
    BY <1>1, <2>1 DEF RenameCall
  <2>3. Open = config.domains  BY <1>1, <1>3 DEF Following, MoveFolder
  <2>4. vault' = [vault EXCEPT ![call[p].from] = None, ![call[p].to] = vault[call[p].from]] /\ vault[call[p].from] # None
    BY <1>3 DEF MoveFolder
  <2>5. Open' = (Open \ {call[p].from}) \cup {call[p].to}
    BY <1>2, <2>4 DEF Open, FilesTyped, Vaults
  <2>6. call'[p] \in Calls
    <3>1. {} \in SUBSET Path  OBVIOUS
    <3>2. [call[p] EXCEPT !.pc = "save", !.todo = {}] \in RenameCall  BY <1>1, <3>1, RenameMoves
    <3> QED  BY <2>1, <3>2 DEF Calls
  <2> QED  BY <1>2, <2>1, <2>2, <2>3, <2>5, <2>6 DEF Following
<1>4. CASE RenameSaves(p)
  <2>1. call'[p] = [call[p] EXCEPT !.pc = "record"] /\ call[p].pc = "save" /\ vault' = vault
    BY <1>4 DEF RenameSaves, CallsTyped
  <2>2. /\ call'[p].op = "rename" /\ call'[p].from = call[p].from /\ call'[p].to = call[p].to
        /\ call'[p].pc = "record"
    BY <1>1, <2>1 DEF RenameCall
  <2>3. config' = Renamed(live[p], call[p].from, call[p].to) /\ live'[p] = config'
    BY <1>4 DEF RenameSaves, ConfigTyped
  <2>4. config'.domains = (config.domains \ {call[p].from}) \cup {call[p].to}
    BY <1>2, <2>3 DEF Renamed
  <2>5. Open = (config.domains \ {call[p].from}) \cup {call[p].to}  BY <1>1, <2>1 DEF Following
  <2>6. Open' = Open  BY <2>1 DEF Open
  <2>7. call'[p] \in Calls  BY <1>1, <2>1, RenameMoves DEF Calls
  <2> QED  BY <1>2, <2>2, <2>3, <2>4, <2>5, <2>6, <2>7 DEF Following
<1>5. CASE RenameRecords(p)
  <2>1. call'[p] = None /\ call[p].pc = "record" /\ UNCHANGED <<vault, config>>
    BY <1>5 DEF RenameRecords, CallsTyped
  <2>2. Open = config.domains  BY <1>1, <2>1 DEF Following
  <2> QED  BY <2>1, <2>2 DEF Ended, Open
<1> QED  BY <1>3, <1>4, <1>5

(* Its walks.                                                              *)
LEMMA WalkFollows ==
  ASSUME Types, NEW p \in Procs, Following(p), ReadNote(p) \/ ReplaceNote(p) \/ LinksStart(p)
  PROVE  call'[p] \in Calls /\ Following(p)'
<1> USE DEF Types
<1>1. /\ call[p] \in RenameCall /\ call[p].op = "rename" /\ call[p].pc \in {"own", "links"}
      /\ UNCHANGED <<live, config>>
  BY RunningIs DEF ReadNote, ReplaceNote, LinksStart, Walking
<1>2. /\ live[p] = config /\ call[p].from # call[p].to /\ Open = config.domains
      /\ call[p].to \notin Open /\ (call[p].read = None \/ call[p].read.slug \in Open)
  BY <1>1 DEF Following
<1>3. CASE ReadNote(p)
  <2>1. /\ call'[p] = [call[p] EXCEPT !.todo = @ \ {NextHit(p)}, !.read = NextPath(p),
                                      !.edits = @ \cup {NextPath(p)}]
        /\ NextPath(p) \in Path /\ vault[NextPath(p).slug] # None /\ UNCHANGED vault
    BY <1>3, ReadNoteIs DEF CallsTyped, ReadNote
  <2>2. NextPath(p).slug \in Open  BY <2>1 DEF Open, Path
  <2>3. /\ call'[p].op = "rename" /\ call'[p].from = call[p].from /\ call'[p].to = call[p].to
        /\ call'[p].pc = call[p].pc /\ call'[p].read = NextPath(p)
    BY <1>1, <2>1 DEF RenameCall
  <2>4. Open' = Open  BY <2>1 DEF Open
  <2>5. call'[p] \in Calls  BY <1>3, ReadNoteIs DEF Calls
  <2> QED  BY <1>1, <1>2, <2>2, <2>3, <2>4, <2>5 DEF Following
<1>4. CASE ReplaceNote(p)
  <2> DEFINE c == call[p]  x == c.read  old == IF vault[x.slug] = None THEN {} ELSE vault[x.slug]
             f == Put(old, Rewritten(c, x.note))
  <2>1. f \in Folder /\ vault' = [vault EXCEPT ![x.slug] = f] /\ c' = [c EXCEPT !.read = None] /\ x \in Path
    BY <1>4, ReplaceNoteIs DEF CallsTyped
  <2>2. vault[x.slug] # None /\ x.slug \in Slugs
    <3>1. x # None  BY <1>4 DEF ReplaceNote
    <3> QED  BY <1>2, <3>1 DEF Open
  <2>3. f # None  BY <2>1 DEF FilesTyped
  <2> HIDE DEF f
  <2>4. Open' = Open  BY <2>1, <2>2, <2>3, OpenSame
  <2>5. /\ call'[p].op = "rename" /\ call'[p].from = call[p].from /\ call'[p].to = call[p].to
        /\ call'[p].pc = call[p].pc /\ call'[p].read = None
    BY <1>1, <2>1 DEF RenameCall
  <2>6. call'[p] \in Calls  BY <1>4, ReplaceNoteIs DEF Calls
  <2> QED  BY <1>1, <1>2, <2>4, <2>5, <2>6 DEF Following
<1>5. CASE LinksStart(p)
  <2>1. /\ call'[p] = [call[p] EXCEPT !.pc = "links", !.todo = Walk(Slugs \ {call[p].from})]
        /\ UNCHANGED vault
    BY <1>5 DEF CallsTyped, LinksStart
  <2>2. /\ call'[p].op = "rename" /\ call'[p].from = call[p].from /\ call'[p].to = call[p].to
        /\ call'[p].pc = "links" /\ call'[p].read = call[p].read
    BY <1>1, <2>1 DEF RenameCall
  <2>3. Open' = Open  BY <2>1 DEF Open
  <2>4. call'[p] \in Calls
    <3>1. Walk(Slugs \ {call[p].from}) \in SUBSET Path  BY WalkIs
    <3>2. \A t \in SUBSET Path : [call[p] EXCEPT !.pc = "links", !.todo = t] \in RenameCall
      BY <1>1, RenameMoves
    <3> QED  BY <2>1, <3>1, <3>2 DEF Calls
  <2> QED  BY <1>1, <1>2, <2>2, <2>3, <2>4 DEF Following
<1> QED  BY <1>3, <1>4, <1>5

LEMMA GoingOnFollows ==
  ASSUME Types, ConfigInv, NEW p \in Procs, SnapshotWork(p), ByOne(p), DomainStep(p) \/ BackupStep(p)
  PROVE  ConfigInv'
<1> USE DEF Types
<1>1. SUFFICES ASSUME apart'  PROVE ConfigInv'
  BY DEF ConfigInv
<1>2. CASE \/ CreateFails(p) \/ RenameFails(p) \/ DeleteFails(p) \/ UndoFails(p)
           \/ PackFails(p) \/ RestoreFails(p)
  BY <1>1, <1>2 DEF CreateFails, RenameFails, DeleteFails, UndoFails, PackFails, RestoreFails
<1> DEFINE Goes == \/ CreateSaves(p) \/ DeleteRecords(p) \/ DeleteSaves(p) \/ Pack(p) \/ PackEnds(p)
                   \/ MoveFolder(p) \/ RenameSaves(p) \/ RenameRecords(p)
                   \/ ReadNote(p) \/ ReplaceNote(p) \/ LinksStart(p)
           Else == \/ UndoNote(p) \/ UndoEnds(p)
                   \/ MoveAside(p) \/ ExtractStarts(p) \/ Extract(p) \/ RestoreEnds(p)
<1>3. CASE Goes
  <2>1. apart /\ call[p] # None
    <3>1. CASE CreateSaves(p) \/ DeleteRecords(p) \/ DeleteSaves(p)
      BY <1>1, <3>1 DEF CreateSaves, Creating, DeleteRecords, DeleteSaves
    <3>2. CASE Pack(p) \/ PackEnds(p)  BY <1>1, <3>2 DEF Pack, PackEnds
    <3>3. CASE MoveFolder(p) \/ RenameSaves(p) \/ RenameRecords(p)
      BY <1>1, <3>3 DEF MoveFolder, RenameSaves, RenameRecords, Walking
    <3>4. CASE ReadNote(p) \/ ReplaceNote(p) \/ LinksStart(p)
      BY <1>1, <3>4 DEF ReadNote, ReplaceNote, LinksStart, Walking
    <3> QED  BY <1>3, <3>1, <3>2, <3>3, <3>4
  <2>2. Alone(p) /\ Following(p)  BY <2>1 DEF ConfigInv
  <2>3. Ended(p) \/ (call'[p] \in Calls /\ Following(p)')
    BY <1>3, <2>2, CreateFollows, DeleteFollows, SnapshotFollows, CommitFollows, WalkFollows
  <2>4. \A q \in Procs \ {p} : call'[q] = None  BY <2>2, OthersStay DEF Alone
  <2>5. CASE call'[p] \in Calls /\ Following(p)'
    <3>1. call'[p] # None  BY <2>5 DEF CallsTyped
    <3> QED  BY <2>4, <2>5, <3>1 DEF ConfigInv, Alone
  <2>6. CASE Ended(p)  BY <2>4, <2>6 DEF ConfigInv, Ended
  <2> QED  BY <2>3, <2>5, <2>6
<1>4. CASE Else
  <2>1. apart /\ call[p] # None /\ call[p].op \in {"undo", "restore"}
    <3>1. CASE UndoNote(p) \/ UndoEnds(p)  BY <1>1, <3>1 DEF UndoNote, UndoEnds
    <3>2. CASE MoveAside(p) \/ ExtractStarts(p)  BY <1>1, <3>2 DEF MoveAside, MovesAside, ExtractStarts
    <3>3. CASE Extract(p) \/ RestoreEnds(p)  BY <1>1, <3>3 DEF Extract, RestoreEnds
    <3> QED  BY <1>4, <3>1, <3>2, <3>3
  <2> QED  BY <2>1 DEF ConfigInv, Following
<1> QED  BY <1>2, <1>3, <1>4 DEF DomainStep, BackupStep

LEMMA ConfigKept ==
  ASSUME Sound, ConfigInv, [Next]_vars
  PROVE  ConfigInv'
<1> USE DEF Sound
<1>1. CASE ByNobody  BY <1>1, NobodyFollows
<1>2. CASE UNCHANGED vars  BY <1>2 DEF vars, domainVars, ConfigInv, Alone, Following, Open
<1>3. ASSUME NEW p \in Procs, ByOne(p)  PROVE ConfigInv'
  <2>0. SnapshotWork(p)  BY DEF WorkOK
  <2>1. CASE Reload(p)  BY <2>1, ReloadFollows
  <2>2. CASE Starts(p)  BY <2>2, BeginningFollows DEF Starts
  <2>3. CASE DomainStep(p) \/ BackupStep(p)  BY <1>3, <2>0, <2>3, GoingOnFollows
  <2>4. CASE Die(p) \/ \E id \in Ids : UndoDelete(p, id)
    BY <2>4 DEF Die, UndoDelete, ConfigInv
  <2> QED  BY <1>3, <2>1, <2>2, <2>3, <2>4 DEF ByOne, Starts
<1> QED  BY <1>1, <1>2, <1>3, NextIs

(* Calls that ran one after the other to their end leave the Config with   *)
(* the folders there are, if it had them at first.                         *)
THEOREM ConfigFollowsCorrect ==
  ASSUME None \notin Folder \cup Image \cup Calls,
         FirstConfig.domains = {s \in Slugs : FirstVault[s] # None}
  PROVE  Spec => []ConfigFollows
<1>1. InitBackup => Sound /\ ConfigInv
  <2> SUFFICES ASSUME InitBackup  PROVE ConfigInv
    BY SoundAtFirst
  <2>1. vault = FirstVault /\ config = FirstConfig /\ call = [p \in Procs |-> None]
    BY DEF InitBackup, Init
  <2> QED  BY <2>1 DEF ConfigInv, Open
<1>2. Sound /\ ConfigInv /\ [Next]_vars => (Sound /\ ConfigInv)'
  BY SoundKept, ConfigKept
<1>3. ConfigInv => ConfigFollows  BY DEF ConfigInv, ConfigFollows, Open
<1> QED  BY <1>1, <1>2, <1>3, PTL DEF Spec
-----------------------------------------------------------------------------
(* OpsReturn.                                                              *)

(* No folder has two notes of a name.                                      *)
DistinctFolders(v) == \A s \in Slugs : v[s] # None => OneOfAName(v[s])
Distinct ==
  /\ DistinctFolders(vault)
  /\ \A i \in Ids : \A f \in TrashOf(i) : OneOfAName(f)
  /\ \A i \in Ids : snaps[i] # None => DistinctFolders(snaps[i].vault)
  /\ \A i \in Ids : origin[i] # None => DistinctFolders(origin[i])

LEMMA PutDistinct ==
  ASSUME NEW f, OneOfAName(f), NEW m
  PROVE  OneOfAName(Put(f, m))
  BY DEF OneOfAName, Put

LEMMA EmptyDistinct == OneOfAName({})
  BY DEF OneOfAName

LEMMA MergeDistinct ==
  ASSUME NEW f, OneOfAName(f), NEW g, OneOfAName(g)
  PROVE  OneOfAName(Merge(f, g))
  BY DEF OneOfAName, Merge, NamesIn

LEMMA VaultDistinct ==
  ASSUME Types, DistinctFolders(vault), NEW s \in Slugs, NEW f, f = None \/ OneOfAName(f),
         vault' = [vault EXCEPT ![s] = f]
  PROVE  DistinctFolders(vault')
  BY DEF Types, FilesTyped, Vaults, DistinctFolders

LEMMA VaultStaysDistinct ==
  ASSUME Types, WorkOK, Distinct, [Next]_vars
  PROVE  DistinctFolders(vault')
<1> USE DEF Types
<1>0. DistinctFolders(vault)  BY DEF Distinct
<1>1. CASE UNCHANGED vault  BY <1>0, <1>1
<1>2. ASSUME NEW s \in Slugs, NEW n \in Names, EditNote(s, n)  PROVE DistinctFolders(vault')
  <2> DEFINE New(m) == IF m.name = n THEN [m EXCEPT !.text = edits'] ELSE m
             f == {New(m) : m \in vault[s]}
  <2>1. vault[s] \subseteq Note /\ vault[s] # None /\ vault' = [vault EXCEPT ![s] = f]
    BY <1>2 DEF EditNote, In, FilesTyped, Vaults, Folder
  <2>2. OneOfAName(vault[s])  BY <1>0, <2>1 DEF DistinctFolders
  <2>3. OneOfAName(f)
    <3>1. \A m \in vault[s] : New(m).name = m.name  BY <2>1 DEF Note
    <3> HIDE DEF New
    <3>2. ASSUME NEW a \in f, NEW b \in f, a.name = b.name  PROVE a = b
      <4>1. PICK m \in vault[s] : a = New(m)  OBVIOUS
      <4>2. PICK k \in vault[s] : b = New(k)  OBVIOUS
      <4>3. m.name = k.name  BY <3>1, <3>2, <4>1, <4>2
      <4> QED  BY <2>2, <4>1, <4>2, <4>3 DEF OneOfAName
    <3> QED  BY <3>2 DEF OneOfAName
  <2> HIDE DEF f
  <2> QED  BY <1>0, <2>1, <2>3, VaultDistinct
<1>3. ASSUME NEW s \in Slugs, NEW n \in Names, AddNote(s, n)  PROVE DistinctFolders(vault')
  <2> DEFINE f == (IF vault[s] = None THEN {} ELSE vault[s])
                  \cup {[name |-> n, dom |-> s, link |-> None, text |-> edits']}
  <2>1. vault' = [vault EXCEPT ![s] = f] /\ n \notin NamesIn(NotesOf(vault))
    BY <1>3 DEF AddNote
  <2>2. vault[s] # None => OneOfAName(vault[s]) /\ \A m \in vault[s] : m.name # n
    BY <1>0, <2>1, NoteOf DEF DistinctFolders, NamesIn
  <2>3. OneOfAName(f)  BY <2>2 DEF OneOfAName
  <2> HIDE DEF f
  <2> QED  BY <1>0, <2>1, <2>3, VaultDistinct
<1>4. ASSUME NEW p \in Procs, NEW s \in Slugs, Create(p, s) \/ Delete(p, s)  PROVE DistinctFolders(vault')
  BY <1>0, <1>4, EmptyDistinct, VaultDistinct DEF Create, Delete
<1>5. ASSUME NEW p \in Procs, CreateFails(p)  PROVE DistinctFolders(vault')
  <2>1. call[p].from \in Slugs  BY <1>5, RunningIs DEF CreateFails, Creating, CreateCall
  <2> QED  BY <1>0, <1>1, <1>5, <2>1, VaultDistinct DEF CreateFails
<1>6. ASSUME NEW p \in Procs, ReplaceNote(p)  PROVE DistinctFolders(vault')
  <2> DEFINE x == call[p].read  old == IF vault[x.slug] = None THEN {} ELSE vault[x.slug]
             f == Put(old, Rewritten(call[p], x.note))
  <2>1. x.slug \in Slugs /\ vault' = [vault EXCEPT ![x.slug] = f]  BY <1>6, ReplaceNoteIs DEF Path
  <2>2. OneOfAName(old)  BY <1>0, <2>1, EmptyDistinct DEF DistinctFolders
  <2>3. OneOfAName(f)  BY <2>2, PutDistinct
  <2> HIDE DEF f, x
  <2> QED  BY <1>0, <2>1, <2>3, VaultDistinct
<1>7. ASSUME NEW p \in Procs, MoveFolder(p)  PROVE DistinctFolders(vault')
  <2>1. call[p].from \in Slugs /\ call[p].to \in Slugs
    BY <1>7, RunningIs DEF MoveFolder, Walking, RenameCall
  <2> QED  BY <1>0, <1>7, <2>1 DEF MoveFolder, DistinctFolders, FilesTyped, Vaults
<1>8. ASSUME NEW p \in Procs, NEW id \in Ids, UndoRename(p, id)  PROVE DistinctFolders(vault')
  <2>1. records[id].from \in Slugs /\ records[id].to \in Slugs  BY <1>8, RecordIs DEF UndoRename
  <2> QED  BY <1>0, <1>8, <2>1 DEF UndoRename, DistinctFolders, FilesTyped, Vaults
<1>9. ASSUME NEW p \in Procs, NEW id \in Ids, UndoDelete(p, id)  PROVE DistinctFolders(vault')
  <2>1. records[id].from \in Slugs /\ trash[id] \in TrashOf(id)
    BY <1>9, RecordIs DEF UndoDelete, TrashOf
  <2>2. OneOfAName(trash[id])  BY <2>1 DEF Distinct
  <2> QED  BY <1>0, <1>9, <2>1, <2>2, VaultDistinct DEF UndoDelete
<1>10. ASSUME NEW p \in Procs, UndoNote(p)  PROVE DistinctFolders(vault')
  <2> DEFINE x == NextEdit(p)
  <2>1. x.slug \in Slugs /\ vault[x.slug] # None /\ vault' = [vault EXCEPT ![x.slug] = Put(vault[x.slug], x.note)]
    BY <1>10, UndoNoteIs DEF Path
  <2>2. OneOfAName(Put(vault[x.slug], x.note))  BY <1>0, <2>1, PutDistinct DEF DistinctFolders
  <2> HIDE DEF x
  <2> QED  BY <1>0, <2>1, <2>2, VaultDistinct
<1>11. ASSUME NEW p \in Procs, MoveAside(p)  PROVE DistinctFolders(vault')
  <2>1. PICK i \in call[p].todo : vault' = vault \/ (i # InBrain /\ vault' = [vault EXCEPT ![i] = None])
    BY <1>11 DEF MoveAside, MovesAside
  <2>2. i \in Slugs \cup {InBrain}  BY <1>11, RunningIs DEF MoveAside, MovesAside, RestoreCall
  <2> QED  BY <1>0, <2>1, <2>2, VaultDistinct
<1>12. ASSUME NEW p \in Procs, Extract(p)  PROVE DistinctFolders(vault')
  <2> DEFINE i == ItemOf(p)  g == ImageOf(p).vault[i]
  <2>0. RestoreWork(p)  BY DEF WorkOK
  <2>1. CASE i = InBrain  BY <1>0, <1>12, <2>0, <2>1, ExtractIs
  <2>2. CASE i # InBrain
    <3>1. /\ i \in Slugs /\ g # None /\ ImageOf(p) \in Image /\ call[p].read \in Ids
          /\ vault' = [vault EXCEPT ![i] = IF vault[i] = None THEN g ELSE Merge(vault[i], g)]
      BY <1>12, <2>0, <2>2, ExtractIs
    <3>2. snaps[call[p].read] # None  BY <3>1 DEF FilesTyped, ImageOf
    <3>3. OneOfAName(g)  BY <3>1, <3>2 DEF Distinct, DistinctFolders, ImageOf
    <3>4. vault[i] # None => OneOfAName(Merge(vault[i], g))
      BY <1>0, <3>1, <3>3, MergeDistinct DEF DistinctFolders
    <3> HIDE DEF g, i
    <3> QED  BY <1>0, <3>1, <3>3, <3>4, VaultDistinct
  <2> QED  BY <2>1, <2>2
<1> DEFINE InDomain(p) ==
             \/ CreateFails(p) \/ ReplaceNote(p) \/ MoveFolder(p) \/ UndoNote(p)
             \/ (\E s \in Slugs : Create(p, s) \/ Delete(p, s))
             \/ \E id \in Ids : UndoDelete(p, id) \/ UndoRename(p, id)
           InBackup(p) == MoveAside(p) \/ Extract(p)
<1>13. ASSUME NEW p \in Procs, ByOne(p)  PROVE InDomain(p) \/ InBackup(p) \/ UNCHANGED vault
  <2>1. DomainStep(p) => InDomain(p) \/ UNCHANGED vault
    BY DEF DomainStep, CreateSaves, ReadNote, LinksStart, RenameSaves, RenameRecords, RenameFails,
           DeleteRecords, DeleteSaves, DeleteFails, UndoEnds, UndoFails
  <2>2. BackupStep(p) => InBackup(p) \/ UNCHANGED vault
    BY DEF BackupStep, Pack, PackEnds, PackFails, ExtractStarts, RestoreEnds, RestoreFails
  <2>3. (\E a, b \in Slugs : RenameStarts(p, a, b)) \/ SnapshotStarts(p) \/ Die(p) \/ Reload(p)
        \/ (\E id \in Ids : RestoreStarts(p, id)) => UNCHANGED vault
    BY DEF RenameStarts, SnapshotStarts, Die, Reload, RestoreStarts
  <2> QED  BY <1>13, <2>1, <2>2, <2>3 DEF ByOne
<1>14. CASE ByNobody  BY <1>2, <1>3, <1>14 DEF ByNobody
<1>15. CASE UNCHANGED vars  BY <1>1, <1>15 DEF vars, domainVars
<1>16. ASSUME NEW p \in Procs, ByOne(p)  PROVE DistinctFolders(vault')
  BY <1>1, <1>4, <1>5, <1>6, <1>7, <1>8, <1>9, <1>10, <1>11, <1>12, <1>13, <1>16
<1> QED  BY <1>14, <1>15, <1>16, NextIs

LEMMA TrashStaysDistinct ==
  ASSUME Types, WorkOK, Distinct, [Next]_vars
  PROVE  \A i \in Ids : \A f \in TrashOf(i)' : OneOfAName(f)
<1>1. CASE ByNobody \/ UNCHANGED vars
  <2>1. UNCHANGED <<trash, records, snaps>>
    BY <1>1 DEF ByNobody, EditNote, AddNote, vars, domainVars
  <2>2. \A i \in Ids : NoNew(i)  BY <2>1, NoCopies
  <2> QED  BY <2>2 DEF Distinct, NoNew
<1>2. ASSUME NEW p \in Procs, ByOne(p), NEW i \in Ids, NEW f \in TrashOf(i)'  PROVE OneOfAName(f)
  <2>1. CASE Deletes(p)
    <3>1. PICK s \in Slugs : Delete(p, s) /\ UNCHANGED snaps  BY <2>1 DEF Deletes
    <3>2. f \in TrashOf(i) \cup {vault[s]}  BY <1>2, <3>1, DeleteCopies
    <3>3. OneOfAName(vault[s])  BY <3>1 DEF Distinct, DistinctFolders, Delete
    <3> QED  BY <3>2, <3>3 DEF Distinct
  <2>2. CASE PutsRecord(p)
    <3>1. f \in TrashOf(i)  BY <1>2, <2>2, RecordCopies
    <3> QED  BY <3>1 DEF Distinct
  <2>3. CASE ~Deletes(p) /\ ~PutsRecord(p)
    <3>1. f \in TrashOf(i)  BY <1>2, <2>3, CopiesKept DEF NoNew
    <3> QED  BY <3>1 DEF Distinct
  <2> QED  BY <2>1, <2>2, <2>3
<1> QED  BY <1>1, <1>2, NextIs

LEMMA ArchivesStayDistinct ==
  ASSUME Types, WorkOK, Distinct, [Next]_vars
  PROVE  \A i \in Ids : snaps'[i] # None => DistinctFolders(snaps'[i].vault)
<1> USE DEF Types
<1>0. \A i \in Ids : snaps[i] # None => DistinctFolders(snaps[i].vault)  BY DEF Distinct
<1>1. CASE UNCHANGED snaps  BY <1>0, <1>1
<1>2. ASSUME NEW p \in Procs, SnapshotStarts(p), NEW i \in Ids, snaps'[i] # None
      PROVE  DistinctFolders(snaps'[i].vault)
  <2>1. DistinctFolders(Empty.vault)  BY DEF DistinctFolders, Empty
  <2>2. snaps'[i] = snaps[i] \/ snaps'[i] = Empty  BY <1>2 DEF SnapshotStarts, FilesTyped
  <2> QED  BY <1>0, <1>2, <2>1, <2>2
<1>3. ASSUME NEW p \in Procs, Pack(p), NEW i \in Ids, snaps'[i] # None
      PROVE  DistinctFolders(snaps'[i].vault)
  <2> DEFINE k == call[p].id  j == ItemOf(p)
  <2>0. SnapshotWork(p)  BY DEF WorkOK
  <2>1. /\ k \in Ids /\ snaps[k] \in Image /\ snaps' = [snaps EXCEPT ![k] = Packed(snaps[k], j)]
        /\ j \in Slugs \cup {InBrain}
    BY <1>3, <2>0, PackIs
  <2>2. DistinctFolders(snaps[k].vault)  BY <1>0, <2>1 DEF FilesTyped
  <2> HIDE DEF k, j
  <2>3. \A s \in Slugs : Packed(snaps[k], j).vault[s] \in {snaps[k].vault[s], vault[s]}
    BY <2>1 DEF Packed, Image, Vaults
  <2>4. DistinctFolders(Packed(snaps[k], j).vault)  BY <2>2, <2>3 DEF Distinct, DistinctFolders
  <2>5. i # k => snaps'[i] = snaps[i]  BY <2>1
  <2>6. snaps'[k] = Packed(snaps[k], j)  BY <2>1 DEF FilesTyped
  <2> QED  BY <1>0, <1>3, <2>4, <2>5, <2>6
<1>4. ASSUME NEW p \in Procs, PackEnds(p) \/ PackFails(p), NEW i \in Ids, snaps'[i] # None
      PROVE  DistinctFolders(snaps'[i].vault)
  <2> DEFINE k == call[p].id
  <2>1. k \in Ids /\ snaps[k] \in Image
    BY <1>4, RunningIs DEF PackEnds, PackFails, SnapshotCall, WorkOK, SnapshotWork
  <2>2. snaps' = [snaps EXCEPT ![k] = [snaps[k] EXCEPT !.readable = TRUE]]
    BY <1>4, <2>1 DEF PackEnds, PackFails, FilesTyped
  <2>3. [snaps[k] EXCEPT !.readable = TRUE].vault = snaps[k].vault  BY <2>1 DEF Image
  <2>4. DistinctFolders(snaps[k].vault)  BY <1>0, <2>1 DEF FilesTyped
  <2> HIDE DEF k
  <2>5. i # k => snaps'[i] = snaps[i]  BY <2>2
  <2>6. snaps'[k] = [snaps[k] EXCEPT !.readable = TRUE]  BY <2>1, <2>2 DEF FilesTyped
  <2> QED  BY <1>0, <1>4, <2>3, <2>4, <2>5, <2>6
<1>5. CASE ByNobody \/ UNCHANGED vars  BY <1>1, <1>5 DEF ByNobody, vars, domainVars
<1>6. ASSUME NEW p \in Procs, ByOne(p)
      PROVE  UNCHANGED snaps \/ SnapshotStarts(p) \/ Pack(p) \/ PackEnds(p) \/ PackFails(p)
  BY <1>6 DEF ByOne, BackupStep, Die, RestoreStarts, MoveAside, MovesAside, ExtractStarts, Extract,
              RestoreEnds, RestoreFails
<1>7. ASSUME NEW p \in Procs, ByOne(p), NEW i \in Ids, snaps'[i] # None
      PROVE  DistinctFolders(snaps'[i].vault)
  BY <1>1, <1>2, <1>3, <1>4, <1>6, <1>7
<1> QED  BY <1>5, <1>7, NextIs

(* What an operation is to lead to is set when it begins, and forgotten    *)
(* when somebody else writes.                                              *)
OriginKept(i) == origin'[i] = None \/ origin'[i] = origin[i]
LEMMA OriginStep ==
  ASSUME Types, NEW p \in Procs, ByOne(p), NEW i \in Ids
  PROVE  OriginKept(i) \/ origin'[i] = vault \/ \E k \in Archives : origin'[i] = snaps[k].vault
<1> USE DEF Types, GhostsTyped, OriginKept
<1>1. CASE DomainStep(p)
  <2>1. CASE CreateSaves(p) \/ CreateFails(p)  BY <2>1 DEF CreateSaves, CreateFails
  <2>2. CASE ReadNote(p) \/ ReplaceNote(p) \/ LinksStart(p)  BY <2>2 DEF ReadNote, ReplaceNote, LinksStart
  <2>3. CASE MoveFolder(p) \/ RenameSaves(p) \/ RenameRecords(p) \/ RenameFails(p)
    BY <2>3 DEF MoveFolder, RenameSaves, RenameRecords, RenameFails
  <2>4. CASE DeleteRecords(p) \/ DeleteSaves(p) \/ DeleteFails(p)
    BY <2>4 DEF DeleteRecords, DeleteSaves, DeleteFails
  <2>5. CASE UndoNote(p) \/ UndoEnds(p) \/ UndoFails(p)  BY <2>5 DEF UndoNote, UndoEnds, UndoFails
  <2> QED  BY <1>1, <2>1, <2>2, <2>3, <2>4, <2>5 DEF DomainStep
<1>2. CASE BackupStep(p)
  <2>1. CASE Pack(p) \/ PackEnds(p) \/ PackFails(p)  BY <2>1 DEF Pack, PackEnds, PackFails
  <2>2. CASE MoveAside(p)  BY <2>2 DEF MoveAside, MovesAside
  <2>3. CASE ExtractStarts(p) \/ Extract(p) \/ RestoreEnds(p) \/ RestoreFails(p)
    BY <2>3 DEF ExtractStarts, Extract, RestoreEnds, RestoreFails
  <2> QED  BY <1>2, <2>1, <2>2, <2>3 DEF BackupStep
<1>3. CASE Reload(p) \/ Die(p) \/ \E id \in Ids : UndoDelete(p, id) \/ UndoRename(p, id)
  BY <1>3 DEF Reload, Die, UndoDelete, UndoRename
<1>4. CASE \E s \in Slugs : Create(p, s) \/ Delete(p, s)  BY <1>4 DEF Create, Delete
<1>5. CASE \E a, b \in Slugs : RenameStarts(p, a, b)  BY <1>5 DEF RenameStarts
<1>6. CASE SnapshotStarts(p)  BY <1>6 DEF SnapshotStarts
<1>7. CASE \E id \in Ids : RestoreStarts(p, id)  BY <1>7 DEF RestoreStarts, Archives
<1> QED  BY <1>1, <1>2, <1>3, <1>4, <1>5, <1>6, <1>7 DEF ByOne

LEMMA DistinctKept ==
  ASSUME Types, WorkOK, Distinct, [Next]_vars
  PROVE  Distinct'
<1>1. \A i \in Ids : origin'[i] # None => DistinctFolders(origin'[i])
  <2>1. CASE ByNobody  BY <2>1, DomainAssumption DEF ByNobody, EditNote, AddNote, Distinct
  <2>2. CASE UNCHANGED vars  BY <2>2 DEF vars, domainVars, Distinct
  <2>3. ASSUME NEW p \in Procs, ByOne(p), NEW i \in Ids, origin'[i] # None
        PROVE  DistinctFolders(origin'[i])
    BY <2>3, OriginStep DEF Distinct, OriginKept, Archives
  <2> QED  BY <2>1, <2>2, <2>3, NextIs
<1> QED  BY <1>1, VaultStaysDistinct, TrashStaysDistinct, ArchivesStayDistinct DEF Distinct, DistinctFolders

(* The vault with the folder of a rename back under its old name.          *)
Back(v, a, b) == IF v[b] # None /\ v[a] = None THEN [v EXCEPT ![a] = v[b], ![b] = None] ELSE v
(* v differs from o at most in the notes of es, which are notes of o.      *)
SameFolders(o, v) == \A s \in Slugs : v[s] = None <=> o[s] = None
Of(es, o) == \A x \in es : o[x.slug] # None /\ x.note \in o[x.slug]
Differs(o, v, es) ==
  \A s \in Slugs : o[s] # None =>
    /\ \A m \in o[s] : m \in v[s] \/ \E x \in es : x.slug = s /\ x.note = m
    /\ \A m \in v[s] : m \in o[s] \/ \E x \in es : x.slug = s /\ x.note.name = m.name
Rel(o, v, es) == SameFolders(o, v) /\ Of(es, o) /\ Differs(o, v, es)
Renames(o, a, b, es) == a # b /\ o[a] # None /\ o[b] = None /\ Rel(o, Back(vault, a, b), es)
Deleted(o, i, s) ==
  \/ vault = o /\ trash[i] = None
  \/ trash[i] = o[s] /\ trash[i] # None /\ vault = [o EXCEPT ![s] = None]

(* What a call in the middle of its work has left of the vault it found.   *)
RenameWalks(p) ==
  LET c == call[p] IN
  /\ Renames(origin[c.id], c.from, c.to, c.edits)
  /\ c.pc \in {"own", "links"} =>
       /\ Exists(c.from)
       /\ c.read # None => c.read \in c.edits
       /\ \A x, y \in c.todo : SamePlace(x, y) => x = y
       /\ \A x \in c.todo, y \in c.edits : ~SamePlace(x, y)
  /\ c.pc = "own" => \A x \in c.todo \cup c.edits : x.slug = c.from
SnapshotWalks(p) ==
  LET c == call[p]  o == origin[c.id] IN
  /\ vault = o
  /\ \A s \in Slugs : snaps[c.id].vault[s] = IF s \in c.todo THEN None ELSE o[s]
RestoreWalks(p) ==
  LET c == call[p]  o == origin[c.id] IN
  /\ o = snaps[c.read].vault
  /\ c.pc = "aside" => \A s \in Slugs : Exists(s) => s \in c.todo
  /\ c.pc = "extract" => \A s \in Slugs : vault[s] = IF s \in c.todo THEN None ELSE o[s]
CallReturns(p) ==
  ~Idle(p) /\ origin[call[p].id] # None =>
    /\ call[p].op = "rename" => RenameWalks(p)
    /\ call[p].op = "delete" /\ call[p].pc = "record" =>
         Deleted(origin[call[p].id], call[p].id, call[p].from)
    /\ call[p].op = "undo" => Rel(origin[call[p].id], vault, call[p].todo)
    /\ call[p].op = "snapshot" => SnapshotWalks(p)
    /\ call[p].op = "restore" => RestoreWalks(p)
(* What its record, or its archive, can still bring back.                  *)
RecordReturns(i) ==
  origin[i] # None /\ records[i] # None =>
    /\ records[i].kind = "rename" =>
         Renames(origin[i], records[i].from, records[i].to, records[i].edits)
    /\ records[i].kind = "delete" => Deleted(origin[i], i, records[i].from)
ArchiveReturns(i) ==
  origin[i] # None /\ snaps[i] # None /\ snaps[i].readable => snaps[i].vault = origin[i]
ReachedReturns ==
  reached # None => reached <= calls /\ (origin[reached] # None => vault = origin[reached])
(* Nobody undoes a call before it has its record.                          *)
Unreached ==
  \A p \in Procs : OwnId(p) /\ Early(call[p]) =>
    call[p].id # reached /\ \A q \in Procs : Running(q, "undo") => call[q].id # call[p].id

ReturnInv ==
  /\ \A p \in Procs : CallReturns(p)
  /\ \A i \in Ids : RecordReturns(i) /\ ArchiveReturns(i)
  /\ ReachedReturns /\ Unreached

(* Two vaults that differ in nothing are one.                              *)
LEMMA RelNothing ==
  ASSUME NEW o \in Vaults, NEW v \in Vaults, None \notin Folder, Rel(o, v, {})
  PROVE  v = o
<1>1. ASSUME NEW s \in Slugs  PROVE v[s] = o[s]
  <2>1. CASE o[s] = None  BY <2>1 DEF Rel, SameFolders
  <2>2. CASE o[s] # None
    <3>1. v[s] # None  BY <2>2 DEF Rel, SameFolders
    <3>2. v[s] \in Folder /\ o[s] \in Folder  BY <2>2, <3>1 DEF Vaults
    <3>3. \A m : m \in v[s] <=> m \in o[s]  BY <2>2 DEF Rel, Differs
    <3> QED  BY <3>2, <3>3 DEF Folder
  <2> QED  BY <2>1, <2>2
<1> QED  BY <1>1 DEF Vaults

LEMMA RelSame ==
  ASSUME NEW o, NEW es, Of(es, o)
  PROVE  Rel(o, o, es)
  BY DEF Rel, SameFolders, Differs

(* Putting a note of o back keeps what v has of o.                         *)
LEMMA RelPutBack ==
  ASSUME NEW o \in Vaults, NEW v \in Vaults, None \notin Folder, DistinctFolders(o),
         NEW es, Rel(o, v, es),
         NEW s \in Slugs, NEW m, v[s] # None, m \in o[s], Put(v[s], m) \in Folder
  PROVE  Rel(o, [v EXCEPT ![s] = Put(v[s], m)], es)
<1> DEFINE w == [v EXCEPT ![s] = Put(v[s], m)]
<1>1. w[s] = {k \in v[s] : k.name # m.name} \cup {m} /\ w[s] # None /\ o[s] # None
      /\ \A t \in Slugs \ {s} : w[t] = v[t]
  BY DEF Vaults, Put, Rel, SameFolders
<1> HIDE DEF w
<1>2. SameFolders(o, w)  BY <1>1 DEF Rel, SameFolders
<1>3. ASSUME NEW t \in Slugs, o[t] # None, NEW k \in o[t]
      PROVE  k \in w[t] \/ \E x \in es : x.slug = t /\ x.note = k
  <2>1. k \in v[t] \/ \E x \in es : x.slug = t /\ x.note = k  BY <1>3 DEF Rel, Differs
  <2>2. CASE t = s
    <3>1. k.name = m.name => k = m  BY <1>3, <2>2 DEF DistinctFolders, OneOfAName
    <3> QED  BY <1>1, <2>1, <2>2, <3>1
  <2>3. CASE t # s  BY <1>1, <2>1, <2>3
  <2> QED  BY <2>2, <2>3
<1>4. ASSUME NEW t \in Slugs, o[t] # None, NEW k \in w[t]
      PROVE  k \in o[t] \/ \E x \in es : x.slug = t /\ x.note.name = k.name
  <2>1. k \in v[t] \/ (t = s /\ k = m)  BY <1>1
  <2> QED  BY <1>4, <2>1 DEF Rel, Differs
<1>5. Differs(o, w, es)  BY <1>3, <1>4 DEF Differs
<1> QED  BY <1>2, <1>5 DEF Rel, w

(* Once it is back, it need not be put back any more.                      *)
LEMMA RelPutBackDone ==
  ASSUME NEW o \in Vaults, NEW v \in Vaults, None \notin Folder, DistinctFolders(o),
         NEW es, Rel(o, v, es), NEW x \in es, x.slug \in Slugs, v[x.slug] # None,
         Put(v[x.slug], x.note) \in Folder
  PROVE  Rel(o, [v EXCEPT ![x.slug] = Put(v[x.slug], x.note)], es \ {x})
<1> DEFINE w == [v EXCEPT ![x.slug] = Put(v[x.slug], x.note)]  s == x.slug  m == x.note
<1>0. o[s] # None /\ m \in o[s]  BY DEF Rel, Of
<1>1. Rel(o, w, es)  BY <1>0, RelPutBack
<1>2. w[s] = {k \in v[s] : k.name # m.name} \cup {m}  BY DEF Vaults, Put
<1> HIDE DEF w
<1>3. ASSUME NEW t \in Slugs, o[t] # None, NEW k \in o[t]
      PROVE  k \in w[t] \/ \E y \in es \ {x} : y.slug = t /\ y.note = k
  <2>1. k \in w[t] \/ \E y \in es : y.slug = t /\ y.note = k  BY <1>1, <1>3 DEF Rel, Differs
  <2>2. (s = t /\ m = k) => k \in w[t]  BY <1>2
  <2> QED  BY <2>1, <2>2
<1>4. ASSUME NEW t \in Slugs, o[t] # None, NEW k \in w[t]
      PROVE  k \in o[t] \/ \E y \in es \ {x} : y.slug = t /\ y.note.name = k.name
  <2>1. k \in o[t] \/ \E y \in es : y.slug = t /\ y.note.name = k.name  BY <1>1, <1>4 DEF Rel, Differs
  <2>2. (t = s /\ k.name = m.name) => k = m  BY <1>2, <1>4
  <2>3. (t = s /\ k.name = m.name) => k \in o[t]  BY <1>0, <2>2
  <2> QED  BY <2>1, <2>3
<1>5. Differs(o, w, es \ {x})  BY <1>3, <1>4 DEF Differs
<1> QED  BY <1>1, <1>5 DEF Rel, Of, w

(* A note whose place is known to differ may be written.                   *)
LEMMA RelPut ==
  ASSUME NEW o \in Vaults, NEW v \in Vaults, None \notin Folder, DistinctFolders(o),
         NEW es, Rel(o, v, es), NEW x \in es, x.slug \in Slugs, v[x.slug] # None,
         NEW m, m.name = x.note.name, Put(v[x.slug], m) \in Folder
  PROVE  Rel(o, [v EXCEPT ![x.slug] = Put(v[x.slug], m)], es)
<1> DEFINE w == [v EXCEPT ![x.slug] = Put(v[x.slug], m)]  s == x.slug
<1>0. o[s] # None /\ x.note \in o[s]  BY DEF Rel, Of
<1>1. w[s] = {k \in v[s] : k.name # m.name} \cup {m} /\ w[s] # None
      /\ \A t \in Slugs \ {s} : w[t] = v[t]
  BY DEF Vaults, Put
<1> HIDE DEF w
<1>2. SameFolders(o, w)  BY <1>0, <1>1 DEF Rel, SameFolders
<1>3. ASSUME NEW t \in Slugs, o[t] # None, NEW k \in o[t]
      PROVE  k \in w[t] \/ \E y \in es : y.slug = t /\ y.note = k
  <2>1. k \in v[t] \/ \E y \in es : y.slug = t /\ y.note = k  BY <1>3 DEF Rel, Differs
  <2>2. CASE t = s
    <3>1. k.name = x.note.name => k = x.note  BY <1>0, <1>3, <2>2 DEF DistinctFolders, OneOfAName
    <3> QED  BY <1>1, <2>1, <2>2, <3>1
  <2>3. CASE t # s  BY <1>1, <2>1, <2>3
  <2> QED  BY <2>2, <2>3
<1>4. ASSUME NEW t \in Slugs, o[t] # None, NEW k \in w[t]
      PROVE  k \in o[t] \/ \E y \in es : y.slug = t /\ y.note.name = k.name
  <2>1. k \in v[t] \/ (t = s /\ k = m)  BY <1>1
  <2> QED  BY <1>4, <2>1 DEF Rel, Differs
<1>5. Differs(o, w, es)  BY <1>3, <1>4 DEF Differs
<1> QED  BY <1>2, <1>5 DEF Rel, w

LEMMA BackIs ==
  /\ \A v, a, b : v[a] # None => Back(v, a, b) = v
  /\ \A v \in Vaults, a, b \in Slugs : Back(v, a, b) \in Vaults
  BY DEF Back, Vaults

LEMMA PutTheSame ==
  ASSUME NEW f \in Folder, OneOfAName(f), NEW m \in f
  PROVE  Put(f, m) = f
  BY DEF Put, OneOfAName

(* Where reached comes from.                                               *)
ReachedOld == reached # None => reached <= calls
ReachedIs == reached # None /\ origin[reached] # None => vault = origin[reached]
ReachesOwn(p) ==
  /\ call[p] # None /\ call[p].op \in {"undo", "restore"} /\ reached' = call[p].id /\ call'[p] = None
ReachesRecord == reached' \in Ids /\ records[reached'] # None

LEMMA ReachedStep ==
  ASSUME Types, NEW p \in Procs, ByOne(p)
  PROVE  reached' = reached \/ ReachesOwn(p) \/ ReachesRecord
<1> USE DEF Types, CallsTyped
<1>1. CASE DomainStep(p)
  <2>1. CASE CreateSaves(p) \/ CreateFails(p)  BY <2>1 DEF CreateSaves, CreateFails
  <2>2. CASE ReadNote(p) \/ ReplaceNote(p) \/ LinksStart(p)  BY <2>2 DEF ReadNote, ReplaceNote, LinksStart
  <2>3. CASE MoveFolder(p) \/ RenameSaves(p) \/ RenameRecords(p) \/ RenameFails(p)
    BY <2>3 DEF MoveFolder, RenameSaves, RenameRecords, RenameFails
  <2>4. CASE DeleteRecords(p) \/ DeleteSaves(p) \/ DeleteFails(p)
    BY <2>4 DEF DeleteRecords, DeleteSaves, DeleteFails
  <2>5. CASE UndoNote(p) \/ UndoEnds(p) \/ UndoFails(p)
    BY <2>5 DEF UndoNote, UndoEnds, UndoFails, ReachesOwn
  <2> QED  BY <1>1, <2>1, <2>2, <2>3, <2>4, <2>5 DEF DomainStep
<1>2. CASE BackupStep(p)
  <2>1. CASE Pack(p) \/ PackEnds(p) \/ PackFails(p)  BY <2>1 DEF Pack, PackEnds, PackFails
  <2>2. CASE MoveAside(p)  BY <2>2 DEF MoveAside, MovesAside
  <2>3. CASE ExtractStarts(p) \/ Extract(p) \/ RestoreEnds(p) \/ RestoreFails(p)
    BY <2>3 DEF ExtractStarts, Extract, RestoreEnds, RestoreFails, ReachesOwn
  <2> QED  BY <1>2, <2>1, <2>2, <2>3 DEF BackupStep
<1>3. CASE Reload(p) \/ Die(p) \/ SnapshotStarts(p) \/ \E id \in Ids : RestoreStarts(p, id)
  BY <1>3 DEF Reload, Die, SnapshotStarts, RestoreStarts
<1>4. CASE \E s \in Slugs : Create(p, s) \/ Delete(p, s)  BY <1>4 DEF Create, Delete
<1>5. CASE \E a, b \in Slugs : RenameStarts(p, a, b)  BY <1>5 DEF RenameStarts
<1>6. CASE \E id \in Ids : UndoDelete(p, id) \/ UndoRename(p, id)
  BY <1>6 DEF UndoDelete, UndoRename, ReachesRecord
<1> QED  BY <1>1, <1>2, <1>3, <1>4, <1>5, <1>6 DEF ByOne

LEMMA RecordIsOld ==
  ASSUME Types, Fresh, NEW i \in Ids, records[i] # None
  PROVE  i <= calls
<1>1. RecordsOf(i) # {}  BY DEF RecordsOf
<1>2. ~(i > calls)  BY <1>1 DEF Fresh
<1>3. i \in Nat /\ calls \in Nat  BY DomainAssumption DEF Ids, Types, CallsTyped
<1> QED  BY <1>2, <1>3

LEMMA ReachedOldKept ==
  ASSUME Sound, Sound', ReachedOld, NEW p \in Procs, ByOne(p)
  PROVE  ReachedOld'
<1> USE DEF Sound, IdsOK
<1>0. calls \in Nat /\ calls' \in Nat /\ calls <= calls'  BY CallsGrow
<1>1. \A x \in Ids : x <= calls => x <= calls'  BY <1>0 DEF Ids
<1>2. reached \in Ids \cup {None}  BY DEF Types, GhostsTyped
<1>3. CASE reached' = reached  BY <1>1, <1>2, <1>3 DEF ReachedOld
<1>4. CASE ReachesOwn(p)  BY <1>1, <1>4, IdIsOld DEF ReachedOld, ReachesOwn
<1>5. CASE ReachesRecord  BY <1>1, <1>5, RecordIsOld DEF ReachedOld, ReachesRecord
<1> QED  BY <1>3, <1>4, <1>5, ReachedStep

LEMMA UnreachedKept ==
  ASSUME Sound, Sound', ReachedOld, Unreached, NEW p \in Procs, ByOne(p)
  PROVE  Unreached'
<1> USE DEF Sound, IdsOK
<1>0. calls \in Nat  BY DomainAssumption DEF Types, CallsTyped
<1> SUFFICES ASSUME NEW r \in Procs, OwnId(r)', Early(call'[r]), NEW i \in Ids, i = call'[r].id
             PROVE  i # reached' /\ \A q \in Procs : Running(q, "undo")' => call'[q].id # i
  <2>1. \A c \in Calls : c.id \in Ids
    BY DEF Calls, CreateCall, RenameCall, DeleteCall, UndoCall, SnapshotCall, RestoreCall
  <2>2. \A q \in Procs : OwnId(q)' => call'[q].id \in Ids  BY <2>1 DEF Types, CallsTyped, OwnId
  <2> QED  BY <2>2 DEF Unreached
<1>1. CASE r # p \/ GoesOn(p)
  <2>0. OwnId(r) /\ Early(call[r]) /\ i = call[r].id
    <3>1. CASE r # p
      <4>1. call'[r] = call[r]  BY <3>1, OthersStay
      <4> QED  BY <4>1 DEF OwnId
    <3>2. CASE r = p /\ GoesOn(p)
      <4>1. call'[p] # None /\ call'[p].op # "undo"  BY <3>2 DEF OwnId
      <4> QED  BY <3>2, <4>1 DEF GoesOn, OwnId, Early
    <3> QED  BY <1>1, <3>1, <3>2
  <2>1. records[i] = None
    <3>1. RecordsOf(i) = {}  BY <2>0 DEF Unrecorded, Early
    <3> QED  BY <3>1 DEF RecordsOf
  <2>2. i # reached /\ \A q \in Procs : Running(q, "undo") => call[q].id # i
    BY <2>0 DEF Unreached
  <2>3. i # reached'
    <3>1. CASE ReachesOwn(p)
      <4>1. r # p  BY <3>1 DEF ReachesOwn, OwnId
      <4>2. CASE call[p].op = "undo"  BY <2>2, <3>1, <4>2 DEF ReachesOwn
      <4>3. CASE call[p].op = "restore"  BY <2>0, <3>1, <4>1, <4>3 DEF ReachesOwn, CallIds, OwnId
      <4> QED  BY <3>1, <4>2, <4>3 DEF ReachesOwn
    <3>2. CASE ReachesRecord  BY <2>1, <3>2 DEF ReachesRecord
    <3> QED  BY <2>2, <3>1, <3>2, ReachedStep
  <2>4. ASSUME NEW q \in Procs, Running(q, "undo")'  PROVE call'[q].id # i
    <3>1. CASE q # p
      <4>1. call'[q] = call[q]  BY <3>1, OthersStay
      <4> QED  BY <2>2, <2>4, <4>1
    <3>2. CASE q = p
      <4>1. call'[p] # None /\ call'[p].op = "undo"  BY <2>4, <3>2
      <4>2. CASE GoesOn(p)  BY <2>2, <3>2, <4>1, <4>2 DEF GoesOn
      <4>3. CASE BeginsUndo(p)  BY <2>1, <3>2, <4>3 DEF BeginsUndo
      <4> QED  BY <4>1, <4>2, <4>3, CallStep DEF BeginsAnew
    <3> QED  BY <3>1, <3>2
  <2> QED  BY <2>3, <2>4
<1>2. CASE r = p /\ BeginsAnew(p)
  <2>0. i = calls + 1  BY <1>2 DEF BeginsAnew
  <2>1. i # reached'
    <3>1. ~ReachesOwn(p)  BY <1>2 DEF BeginsAnew, ReachesOwn
    <3>2. CASE reached' = reached
      <4>1. reached \in Ids \cup {None}  BY DEF Types, GhostsTyped
      <4>2. reached \in Ids => reached # calls + 1
        BY <1>0, DomainAssumption DEF ReachedOld, Ids
      <4> QED  BY <2>0, <3>2, <4>1, <4>2, DomainAssumption
    <3>3. CASE ReachesRecord
      <4>1. reached' \in Ids /\ reached' <= calls  BY <3>3, RecordIsOld DEF ReachesRecord
      <4> QED  BY <1>0, <2>0, <4>1 DEF Ids
    <3> QED  BY <3>1, <3>2, <3>3, ReachedStep
  <2>2. ASSUME NEW q \in Procs, Running(q, "undo")'  PROVE call'[q].id # i
    <3>1. q # p  BY <1>2, <2>2 DEF OwnId
    <3>2. call'[q] = call[q]  BY <3>1, OthersStay
    <3> QED  BY <2>0, <2>2, <3>2, IdIsOld
  <2> QED  BY <2>1, <2>2
<1>3. r # p \/ GoesOn(p) \/ BeginsAnew(p)
  <2>1. r = p => call'[p] # None /\ ~BeginsUndo(p)  BY DEF OwnId, BeginsUndo
  <2> QED  BY <2>1, CallStep
<1> QED  BY <1>1, <1>2, <1>3

(* What a step leaves of an operation alone, and whose vault, record and   *)
(* trash it writes: those of its own call, of a new one, or of the one it  *)
(* undoes.                                                                 *)
Still(i) ==
  \/ origin'[i] = None
  \/ origin'[i] = origin[i] /\ vault' = vault /\ trash'[i] = trash[i] /\ records'[i] = records[i]
OfOwn(p, i) == OwnId(p) /\ Early(call[p]) /\ i = call[p].id
OfNew(p, i) == call[p] = None /\ calls < MaxCalls /\ i = calls + 1
OfUndo(p, i) == (UndoNote(p) /\ i = call[p].id) \/ UndoRename(p, i) \/ UndoDelete(p, i)

LEMMA StillIs ==
  ASSUME Types, NEW i \in Ids
  PROVE  /\ UNCHANGED <<files, origin>> => Still(i)
         /\ \A id : Touch(id) /\ i # id => Still(i)
  BY DEF Types, GhostsTyped, Still

LEMMA Touches ==
  ASSUME Types, NEW p \in Procs, ByOne(p), NEW i \in Ids
  PROVE  Still(i) \/ OfOwn(p, i) \/ OfNew(p, i) \/ OfUndo(p, i)
<1>0. i # None  BY DomainAssumption
<1>1. CASE CreateSaves(p) \/ CreateFails(p) \/ \E s \in Slugs : Create(p, s)
  BY <1>0, <1>1, StillIs DEF CreateSaves, CreateFails, Create
<1>2. CASE ReadNote(p) \/ LinksStart(p) \/ RenameSaves(p) \/ RenameFails(p)
  BY <1>2, StillIs DEF ReadNote, LinksStart, RenameSaves, RenameFails
<1>3. CASE ReplaceNote(p) \/ MoveFolder(p)
  BY <1>3, StillIs DEF ReplaceNote, MoveFolder, Walking, OfOwn, OwnId, Early
<1>4. CASE RenameRecords(p) \/ DeleteRecords(p)
  <2>1. CASE i = call[p].id
    BY <1>4, <2>1 DEF RenameRecords, DeleteRecords, OfOwn, OwnId, Early
  <2>2. CASE i # call[p].id
    <3>1. UNCHANGED <<vault, trash, origin>> /\ records'[i] = records[i]
      BY <1>4, <2>2 DEF RenameRecords, DeleteRecords, Types, FilesTyped
    <3> QED  BY <3>1 DEF Still
  <2> QED  BY <2>1, <2>2
<1>5. CASE DeleteSaves(p) \/ DeleteFails(p) \/ UndoEnds(p) \/ UndoFails(p)
  BY <1>5, StillIs DEF DeleteSaves, DeleteFails, UndoEnds, UndoFails
<1>6. CASE UndoNote(p)
  BY <1>6, StillIs DEF UndoNote, OfUndo
<1>7. CASE \E id \in Ids : UndoRename(p, id) \/ UndoDelete(p, id)
  BY <1>7, StillIs DEF UndoRename, UndoDelete, OfUndo
<1>8. CASE (\E s \in Slugs : Delete(p, s)) \/ (\E a, b \in Slugs : RenameStarts(p, a, b))
           \/ SnapshotStarts(p) \/ \E id \in Ids : RestoreStarts(p, id)
  <2>1. /\ call[p] = None /\ calls < MaxCalls
        /\ i # calls + 1 => Still(i)
    <3>1. CASE \E s \in Slugs : Delete(p, s)  BY <3>1 DEF Delete, Still
    <3>2. CASE \E a, b \in Slugs : RenameStarts(p, a, b)
      BY <3>2 DEF RenameStarts, Still, Types, GhostsTyped
    <3>3. CASE SnapshotStarts(p)
      BY <3>3 DEF SnapshotStarts, Still, Types, GhostsTyped
    <3>4. CASE \E id \in Ids : RestoreStarts(p, id)
      BY <3>4 DEF RestoreStarts, Still, Types, GhostsTyped
    <3> QED  BY <1>8, <3>1, <3>2, <3>3, <3>4
  <2> QED  BY <2>1 DEF OfNew
<1>9. CASE Reload(p) \/ Die(p) \/ ExtractStarts(p) \/ RestoreEnds(p) \/ RestoreFails(p)
  BY <1>9, StillIs DEF Reload, Die, ExtractStarts, RestoreEnds, RestoreFails
<1>10. CASE Pack(p) \/ PackEnds(p) \/ PackFails(p)
  BY <1>10 DEF Pack, PackEnds, PackFails, Still, Types, GhostsTyped
<1>11. CASE MoveAside(p) \/ Extract(p)
  <2>1. Touch(call[p].id) /\ Running(p, "restore")  BY <1>11 DEF MoveAside, MovesAside, Extract
  <2> QED  BY <2>1, StillIs DEF OfOwn, OwnId, Early
<1>12. DomainStep(p) \/ BackupStep(p) \/ Reload(p) \/ Die(p) \/ Starts(p) \/ \E id \in Ids : UndoDelete(p, id)
  BY DEF ByOne, Starts
<1> QED
  BY <1>1, <1>2, <1>3, <1>4, <1>5, <1>6, <1>7, <1>8, <1>9, <1>10, <1>11, <1>12 DEF DomainStep, BackupStep, Starts

(* Nobody else is in the middle of what a step writes, but for two undos   *)
(* of one call.                                                            *)
Undoing(q, i) == Running(q, "undo") /\ call[q].id = i

LEMMA OthersReturn ==
  ASSUME Sound, Unreached, NEW p \in Procs, ByOne(p), NEW q \in Procs \ {p},
         CallReturns(q), NEW i \in Ids, i = call[q].id, ~(OfUndo(p, i) /\ Undoing(q, i))
  PROVE  CallReturns(q)'
<1> USE DEF Sound, IdsOK
<1>1. call'[q] = call[q]  BY OthersStay
<1> SUFFICES ASSUME call[q] # None, origin'[i] # None, Early(call[q])
             PROVE  CallReturns(q)'
  BY <1>1 DEF CallReturns, Early
<1>2. calls \in Nat /\ i <= calls /\ i # calls + 1 /\ call[q] \in Calls  BY IdIsOld, RunningIs DEF Types, CallsTyped
<1>3. ~OfOwn(p, i)
  <2>1. CASE OwnId(q)  BY <2>1 DEF OfOwn, CallIds
  <2>2. CASE call[q].op = "undo"  BY <2>2 DEF OfOwn, Unreached
  <2> QED  BY <2>1, <2>2 DEF OwnId
<1>4. ~OfNew(p, i)  BY <1>2 DEF OfNew
<1>5. ~OfUndo(p, i)
  <2>1. CASE OwnId(q)
    <3>1. RecordsOf(i) = {} /\ \A r \in Procs : Running(r, "undo") => call[r].id # i
      BY <2>1 DEF Unrecorded, Unreached, Early
    <3>2. records[i] = None  BY <3>1 DEF RecordsOf
    <3> QED  BY <3>1, <3>2 DEF OfUndo, UndoNote, UndoRename, UndoDelete
  <2>2. CASE call[q].op = "undo"  BY <2>2 DEF Undoing
  <2> QED  BY <2>1, <2>2 DEF OwnId
<1>6. origin'[i] = origin[i] /\ vault' = vault /\ trash'[i] = trash[i]
  BY <1>3, <1>4, <1>5, Touches DEF Still
<1>7. call[q].op = "snapshot" => snaps'[i] = snaps[i]
  <2>1. call[q].op = "snapshot" => ~(Running(p, "snapshot") /\ call[p].id = i)
    BY <1>2 DEF CallIds, OwnId
  <2> QED  BY <1>2, <2>1, ArchivesStay
<1>8. call[q].op = "restore" => snaps'[call[q].read] = snaps[call[q].read]
  <2> SUFFICES ASSUME call[q].op = "restore"  PROVE snaps'[call[q].read] = snaps[call[q].read]
    OBVIOUS
  <2>1. call[q].read \in Ids /\ call[q].read <= calls
    BY RunningIs DEF Types, RestoreCall, WorkOK, RestoreWork
  <2>2. ~(Running(p, "snapshot") /\ call[p].id = call[q].read)
    BY DEF WorkOK, SnapshotWork, RestoreWork
  <2> QED  BY <2>1, <2>2, ArchivesStay
<1>9. CASE call[q].op = "rename"
  BY <1>1, <1>6, <1>9 DEF CallReturns, RenameWalks, Renames
<1>10. CASE call[q].op = "delete"
  BY <1>1, <1>6, <1>10 DEF CallReturns, Deleted
<1>11. CASE call[q].op = "undo"
  BY <1>1, <1>6, <1>11 DEF CallReturns
<1>12. CASE call[q].op = "snapshot"
  BY <1>1, <1>6, <1>7, <1>12 DEF CallReturns, SnapshotWalks
<1>13. CASE call[q].op = "restore"
  BY <1>1, <1>6, <1>8, <1>13 DEF CallReturns, RestoreWalks
<1>14. CASE call[q].op = "create"
  BY <1>1, <1>14 DEF CallReturns
<1>15. call[q].op \in {"rename", "delete", "undo", "snapshot", "restore", "create"}
  BY <1>2 DEF Calls, CreateCall, RenameCall, DeleteCall, UndoCall, SnapshotCall, RestoreCall
<1> QED  BY <1>9, <1>10, <1>11, <1>12, <1>13, <1>14, <1>15

(* A record stays what it was, and what it can bring back too.             *)
LEMMA RecordsReturn ==
  ASSUME Sound, Sound', NEW p \in Procs, ByOne(p), NEW i \in Ids, RecordReturns(i), ~OfUndo(p, i),
         ~(PutsRecord(p) /\ i = call[p].id)
  PROVE  RecordReturns(i)'
<1> USE DEF Sound, IdsOK
<1>1. CASE Still(i)  BY <1>1 DEF Still, RecordReturns, Renames, Deleted
<1>2. CASE OfOwn(p, i) \/ OfNew(p, i)
  <2>1. RecordsOf(i) = {}
    <3>1. CASE OfOwn(p, i)  BY <3>1 DEF OfOwn, Unrecorded, Early
    <3>2. CASE OfNew(p, i)
      <4>1. i > calls  BY <3>2, DomainAssumption DEF OfNew, Types, CallsTyped
      <4> QED  BY <4>1 DEF Fresh
    <3> QED  BY <1>2, <3>1, <3>2
  <2>2. RecordsOf(i)' = {}  BY <2>1, RecordsGrow
  <2>3. records'[i] = None  BY <2>2 DEF RecordsOf
  <2> QED  BY <2>3 DEF RecordReturns
<1> QED  BY <1>1, <1>2, Touches

(* An archive changes only while it is written.                            *)
LEMMA OriginStays ==
  ASSUME Types, NEW p \in Procs, ByOne(p), NEW i \in Ids
  PROVE  OriginKept(i) \/ OfNew(p, i)
<1> USE DEF Types, GhostsTyped, OriginKept
<1>1. CASE DomainStep(p)
  <2>1. CASE CreateSaves(p) \/ CreateFails(p)  BY <2>1 DEF CreateSaves, CreateFails
  <2>2. CASE ReadNote(p) \/ ReplaceNote(p) \/ LinksStart(p)  BY <2>2 DEF ReadNote, ReplaceNote, LinksStart
  <2>3. CASE MoveFolder(p) \/ RenameSaves(p) \/ RenameRecords(p) \/ RenameFails(p)
    BY <2>3 DEF MoveFolder, RenameSaves, RenameRecords, RenameFails
  <2>4. CASE DeleteRecords(p) \/ DeleteSaves(p) \/ DeleteFails(p)
    BY <2>4 DEF DeleteRecords, DeleteSaves, DeleteFails
  <2>5. CASE UndoNote(p) \/ UndoEnds(p) \/ UndoFails(p)  BY <2>5 DEF UndoNote, UndoEnds, UndoFails
  <2> QED  BY <1>1, <2>1, <2>2, <2>3, <2>4, <2>5 DEF DomainStep
<1>2. CASE BackupStep(p)
  <2>1. CASE Pack(p) \/ PackEnds(p) \/ PackFails(p)  BY <2>1 DEF Pack, PackEnds, PackFails
  <2>2. CASE MoveAside(p)  BY <2>2 DEF MoveAside, MovesAside
  <2>3. CASE ExtractStarts(p) \/ Extract(p) \/ RestoreEnds(p) \/ RestoreFails(p)
    BY <2>3 DEF ExtractStarts, Extract, RestoreEnds, RestoreFails
  <2> QED  BY <1>2, <2>1, <2>2, <2>3 DEF BackupStep
<1>3. CASE Reload(p) \/ Die(p) \/ \E id \in Ids : UndoDelete(p, id) \/ UndoRename(p, id)
  BY <1>3 DEF Reload, Die, UndoDelete, UndoRename
<1>4. CASE \E s \in Slugs : Create(p, s) \/ Delete(p, s)  BY <1>4 DEF Create, Delete, OfNew
<1>5. CASE \E a, b \in Slugs : RenameStarts(p, a, b)  BY <1>5 DEF RenameStarts, OfNew
<1>6. CASE SnapshotStarts(p)  BY <1>6 DEF SnapshotStarts, OfNew
<1>7. CASE \E id \in Ids : RestoreStarts(p, id)  BY <1>7 DEF RestoreStarts, OfNew
<1> QED  BY <1>1, <1>2, <1>3, <1>4, <1>5, <1>6, <1>7 DEF ByOne

LEMMA ArchivesReturn ==
  ASSUME Sound, NEW p \in Procs, ByOne(p), NEW i \in Ids, ArchiveReturns(i),
         Running(p, "snapshot") => CallReturns(p)
  PROVE  ArchiveReturns(i)'
<1> USE DEF Sound, IdsOK
<1>0. calls \in Nat  BY DomainAssumption DEF Types, CallsTyped
<1>1. CASE Running(p, "snapshot") /\ call[p].id = i
  <2>1. SnapshotWork(p) /\ RestoreWork(p) /\ call[p] \in SnapshotCall  BY <1>1, RunningIs DEF WorkOK, Types
  <2>2. snaps[i] \in Image /\ ~snaps[i].readable  BY <1>1, <2>1 DEF SnapshotWork
  <2>3. CASE Pack(p)
    <3> DEFINE j == ItemOf(p)
    <3>1. snaps' = [snaps EXCEPT ![i] = Packed(snaps[i], j)] /\ ~Packed(snaps[i], j).readable
      BY <1>1, <2>1, <2>3, PackIs DEF Types
    <3> HIDE DEF j
    <3>2. snaps'[i] = Packed(snaps[i], j)  BY <3>1 DEF Types, FilesTyped
    <3> QED  BY <3>1, <3>2 DEF ArchiveReturns
  <2>4. CASE PackEnds(p)
    <3>1. call[p].todo = {} /\ origin' = origin /\ snaps'[i] = [snaps[i] EXCEPT !.readable = TRUE]
      BY <1>1, <2>4 DEF PackEnds, Types, FilesTyped
    <3>2. snaps'[i].vault = snaps[i].vault  BY <2>2, <3>1 DEF Image
    <3> SUFFICES ASSUME origin[i] # None  PROVE snaps[i].vault = origin[i]
      BY <3>1, <3>2 DEF ArchiveReturns
    <3>3. \A s \in Slugs : snaps[i].vault[s] = origin[i][s]
      BY <1>1, <3>1 DEF CallReturns, SnapshotWalks
    <3>4. snaps[i].vault \in Vaults /\ origin[i] \in Vaults  BY <2>2 DEF Image, Types, GhostsTyped
    <3> QED  BY <3>3, <3>4 DEF Vaults
  <2>5. CASE PackFails(p)
    <3>1. origin'[i] = None  BY <1>1, <2>5 DEF PackFails, Types, GhostsTyped
    <3> QED  BY <3>1 DEF ArchiveReturns
  <2>6. CASE UNCHANGED snaps
    <3>1. OriginKept(i)
      <4>1. ~OfNew(p, i)  BY <1>1 DEF OfNew
      <4> QED  BY <4>1, OriginStays
    <3> QED  BY <2>6, <3>1 DEF ArchiveReturns, OriginKept
  <2>7. Pack(p) \/ PackEnds(p) \/ PackFails(p) \/ UNCHANGED snaps
    <3>1. ~SnapshotStarts(p)  BY <1>1 DEF SnapshotStarts
    <3> QED
      BY <3>1 DEF ByOne, BackupStep, Die, RestoreStarts, MoveAside, MovesAside, ExtractStarts, Extract,
             RestoreEnds, RestoreFails
  <2> QED  BY <2>3, <2>4, <2>5, <2>6, <2>7
<1>2. CASE ~(Running(p, "snapshot") /\ call[p].id = i) /\ i <= calls
  <2>1. snaps'[i] = snaps[i]  BY <1>2, ArchivesStay
  <2>2. ~OfNew(p, i)  BY <1>0, <1>2 DEF OfNew
  <2>3. OriginKept(i)  BY <2>2, OriginStays
  <2> QED  BY <2>1, <2>3 DEF ArchiveReturns, OriginKept
<1>3. CASE ~(Running(p, "snapshot") /\ call[p].id = i) /\ ~(i <= calls)
  <2>1. snaps[i] = None  BY <1>0, <1>3 DEF Fresh, Ids
  <2>2. snaps'[i] = None \/ ~snaps'[i].readable
    <3>1. CASE UNCHANGED snaps  BY <2>1, <3>1
    <3>2. CASE SnapshotStarts(p)
      <4>1. snaps'[i] = snaps[i] \/ snaps'[i] = Empty  BY <3>2 DEF SnapshotStarts, Types, FilesTyped
      <4> QED  BY <2>1, <4>1 DEF Empty
    <3>3. CASE Pack(p) \/ PackEnds(p) \/ PackFails(p)
      <4>1. call[p].id # i  BY <1>3, <3>3 DEF Pack, PackEnds, PackFails
      <4>2. snaps'[i] = snaps[i]  BY <3>3, <4>1 DEF Pack, PackEnds, PackFails, Types, FilesTyped
      <4> QED  BY <2>1, <4>2
    <3>4. UNCHANGED snaps \/ SnapshotStarts(p) \/ Pack(p) \/ PackEnds(p) \/ PackFails(p)
      BY DEF ByOne, BackupStep, Die, RestoreStarts, MoveAside, MovesAside, ExtractStarts, Extract,
             RestoreEnds, RestoreFails
    <3> QED  BY <3>1, <3>2, <3>3, <3>4
  <2> QED  BY <2>2 DEF ArchiveReturns
<1> QED  BY <1>1, <1>2, <1>3

LEMMA ReachedStays ==
  ASSUME Sound, ReachedOld, Unreached, ReachedIs, NEW p \in Procs, ByOne(p), reached' = reached,
         ~OfUndo(p, reached)
  PROVE  ReachedIs'
<1> USE DEF Sound
<1> SUFFICES ASSUME reached # None, origin'[reached] # None  PROVE vault' = origin'[reached]
  BY DEF ReachedIs
<1>1. reached \in Ids /\ reached <= calls /\ calls \in Nat
  BY DomainAssumption DEF Types, GhostsTyped, CallsTyped, ReachedOld
<1>2. ~OfOwn(p, reached)  BY DEF OfOwn, Unreached
<1>3. ~OfNew(p, reached)  BY <1>1 DEF OfNew, Ids
<1>4. Still(reached)  BY <1>1, <1>2, <1>3, Touches
<1> QED  BY <1>4 DEF Still, ReachedIs

(* A call that begins finds the vault it is to lead back to.               *)
LEMMA RenameBegins ==
  ASSUME Sound, Distinct, NEW p \in Procs, NEW a \in Slugs, NEW b \in Slugs, RenameStarts(p, a, b)
  PROVE  CallReturns(p)'
<1> USE DEF Sound, Types
<1> DEFINE i == calls + 1  t == Walk({a})
<1>1. /\ call'[p] = NewCall("rename", "own", i, a, b, t) /\ vault' = vault
      /\ a # b /\ vault[a] # None /\ vault[b] = None
  BY DEF RenameStarts, CallsTyped
<1>2. i \in Ids  BY NextId DEF RenameStarts, CallsTyped
<1>3. origin'[i] = vault  BY <1>2 DEF RenameStarts, GhostsTyped
<1>4. \A x \in t : x.slug = a /\ x.note \in vault[a]  BY DEF Walk, PathsOf
<1>5. \A x, y \in t : SamePlace(x, y) => x = y
  <2>1. OneOfAName(vault[a])  BY <1>1 DEF Distinct, DistinctFolders
  <2>2. \A x, y \in t : SamePlace(x, y) => x.note = y.note  BY <1>4, <2>1 DEF SamePlace, OneOfAName
  <2>3. \A x, y \in t : x.slug = y.slug /\ x.note = y.note => x = y  BY WalkIs DEF Path
  <2> QED  BY <1>4, <2>2, <2>3
<1>6. Rel(vault, vault, {})  BY RelSame DEF Of
<1>7. Back(vault, a, b) = vault  BY <1>1 DEF Back
<1> HIDE DEF i, t
<1>8. /\ call'[p].op = "rename" /\ call'[p].id = i /\ call'[p].from = a /\ call'[p].to = b
      /\ call'[p].edits = {} /\ call'[p].pc = "own" /\ call'[p].todo = t /\ call'[p].read = None
  BY <1>1
<1>9. Renames(vault, a, b, {})'  BY <1>1, <1>6, <1>7 DEF Renames
<1> QED  BY <1>1, <1>3, <1>4, <1>5, <1>8, <1>9 DEF CallReturns, RenameWalks

LEMMA OthersBegin ==
  ASSUME Sound, NEW p \in Procs,
         \/ \E s \in Slugs : Create(p, s) \/ Delete(p, s)
         \/ SnapshotStarts(p)
         \/ \E id \in Ids : RestoreStarts(p, id)
  PROVE  CallReturns(p)'
<1> USE DEF Sound, Types
<1> DEFINE i == calls + 1
<1>1. ASSUME NEW s \in Slugs, Create(p, s)  PROVE CallReturns(p)'
  <2>1. call'[p] = NewCall("create", "seed", i, s, s, {})  BY <1>1 DEF Create, CallsTyped
  <2> QED  BY <2>1 DEF CallReturns
<1>2. ASSUME NEW s \in Slugs, Delete(p, s)  PROVE CallReturns(p)'
  <2>1. i \in Ids  BY <1>2, NextId DEF Delete, CallsTyped
  <2>2. /\ call'[p] = NewCall("delete", "record", i, s, s, {})
        /\ origin'[i] = vault /\ trash'[i] = vault[s] /\ vault[s] # None
        /\ vault' = [vault EXCEPT ![s] = None]
    BY <1>2, <2>1 DEF Delete, CallsTyped, FilesTyped
  <2> HIDE DEF i
  <2>3. /\ call'[p].op = "delete" /\ call'[p].id = i /\ call'[p].from = s
    BY <2>2
  <2> QED  BY <2>2, <2>3 DEF CallReturns, Deleted
<1>3. CASE SnapshotStarts(p)
  <2>1. i \in Ids  BY <1>3, NextId DEF SnapshotStarts, CallsTyped
  <2>2. /\ call'[p] = NewCall("snapshot", "pack", i, None, None, Items)
        /\ origin'[i] = vault /\ vault' = vault /\ snaps'[i] = Empty
    BY <1>3, <2>1 DEF SnapshotStarts, CallsTyped, FilesTyped, GhostsTyped
  <2>3. \A s \in Slugs : Empty.vault[s] = IF s \in Items THEN None ELSE vault[s]
    BY DEF Items, Empty
  <2> HIDE DEF i
  <2>4. call'[p].op = "snapshot" /\ call'[p].id = i /\ call'[p].todo = Items  BY <2>2
  <2> QED  BY <2>2, <2>3, <2>4 DEF CallReturns, SnapshotWalks
<1>4. ASSUME NEW id \in Ids, RestoreStarts(p, id)  PROVE CallReturns(p)'
  <2>1. i \in Ids  BY <1>4, NextId DEF RestoreStarts, CallsTyped
  <2>2. /\ call'[p] = [NewCall("restore", "aside", i, None, None, Items) EXCEPT !.read = id]
        /\ origin'[i] = snaps[id].vault /\ vault' = vault /\ snaps' = snaps
    BY <1>4, <2>1 DEF RestoreStarts, CallsTyped, GhostsTyped
  <2>3. \A s \in Slugs : vault[s] # None => s \in Items  BY DEF Items
  <2> HIDE DEF i
  <2>4. /\ call'[p].op = "restore" /\ call'[p].id = i /\ call'[p].todo = Items
        /\ call'[p].pc = "aside" /\ call'[p].read = id
    BY <2>2
  <2> QED  BY <2>2, <2>3, <2>4 DEF CallReturns, RestoreWalks
<1> QED  BY <1>1, <1>2, <1>3, <1>4

(* What a rename relies on in the middle of its walk: nothing is moved     *)
(* yet, and what it has rewritten is in its edits.                         *)
LEMMA RenameAt ==
  ASSUME Sound, NEW p \in Procs, call[p] # None, call[p] \in RenameCall, CallReturns(p),
         NEW i, i = call[p].id, origin[i] # None
  PROVE  /\ i \in Ids /\ origin[i] \in Vaults /\ vault \in Vaults /\ RenameWalks(p)
         /\ call[p].from \in Slugs /\ call[p].to \in Slugs /\ call[p].from # call[p].to
         /\ call[p].pc \in {"own", "links"} =>
              /\ vault[call[p].from] # None
              /\ Rel(origin[i], vault, call[p].edits)
<1> USE DEF Sound, Types
<1>1. i \in Ids /\ origin[i] \in Vaults /\ vault \in Vaults
  BY DEF RenameCall, GhostsTyped, FilesTyped
<1>2. RenameWalks(p)  BY DEF RenameCall, CallReturns
<1>3. call[p].from \in Slugs /\ call[p].to \in Slugs  BY DEF RenameCall
<1> QED  BY <1>1, <1>2, <1>3, BackIs DEF RenameWalks, Renames

LEMMA ReadNoteReturns ==
  ASSUME Sound, NEW p \in Procs, CallReturns(p), ReadNote(p)
  PROVE  CallReturns(p)'
<1> USE DEF Sound, Types
<1> DEFINE c == call[p]  i == c.id  o == origin[i]  x == NextHit(p)  r == NextPath(p)
<1>1. /\ c \in RenameCall /\ x \in c.todo /\ r \in Path /\ SamePlace(r, x)
      /\ vault[r.slug] # None /\ r.note \in vault[r.slug]
      /\ call'[p] = [c EXCEPT !.todo = @ \ {x}, !.read = r, !.edits = @ \cup {r}]
  BY ReadNoteIs DEF CallsTyped
<1>2. c # None /\ c.pc \in {"own", "links"} /\ vault' = vault /\ origin' = origin
  BY DEF ReadNote, Walking
<1> HIDE DEF x, r
<1>3. /\ call'[p].op = "rename" /\ call'[p].id = i /\ call'[p].pc = c.pc /\ call'[p].from = c.from
      /\ call'[p].to = c.to /\ call'[p].todo = c.todo \ {x} /\ call'[p].read = r
      /\ call'[p].edits = c.edits \cup {r}
  BY <1>1 DEF RenameCall
<1> SUFFICES ASSUME o # None  PROVE RenameWalks(p)'
  BY <1>2, <1>3 DEF CallReturns
<1>4. /\ o \in Vaults /\ vault \in Vaults /\ RenameWalks(p) /\ c.from \in Slugs /\ c.to \in Slugs
      /\ c.from # c.to /\ vault[c.from] # None /\ Rel(o, vault, c.edits)
  BY <1>1, <1>2, RenameAt
<1>5. \A y \in c.edits : ~SamePlace(r, y)
  <2>1. \A y \in c.edits : ~SamePlace(x, y)  BY <1>1, <1>2, <1>4 DEF RenameWalks
  <2> QED  BY <1>1, <2>1 DEF SamePlace
<1>6. o[r.slug] # None /\ r.note \in o[r.slug]
  <2>1. r.slug \in Slugs  BY <1>1 DEF Path
  <2>2. o[r.slug] # None  BY <1>1, <1>4, <2>1 DEF Rel, SameFolders
  <2>3. r.note \in o[r.slug] \/ \E y \in c.edits : y.slug = r.slug /\ y.note.name = r.note.name
    BY <1>1, <1>4, <2>1, <2>2 DEF Rel, Differs
  <2> QED  BY <1>5, <2>2, <2>3 DEF SamePlace
<1>7. Rel(o, vault, c.edits \cup {r})  BY <1>4, <1>6 DEF Rel, Of, Differs
<1>8. /\ o[c.from] # None /\ o[c.to] = None
      /\ Rel(o, Back(vault, c.from, c.to), c.edits \cup {r})
  BY <1>4, <1>7, BackIs DEF RenameWalks, Renames
<1>9. \A y \in c.todo \ {x} : ~SamePlace(y, r)
  <2>1. \A y \in c.todo : SamePlace(y, x) => y = x  BY <1>1, <1>2, <1>4 DEF RenameWalks
  <2> QED  BY <1>1, <2>1 DEF SamePlace
<1>10. c.pc = "own" => r.slug = c.from
  BY <1>1, <1>4 DEF RenameWalks, SamePlace
<1>11. Renames(origin[i], call'[p].from, call'[p].to, call'[p].edits)
  BY <1>3, <1>4, <1>8 DEF Renames
<1>12. origin'[call'[p].id] = origin[i]  BY <1>2, <1>3
<1> QED  BY <1>2, <1>3, <1>4, <1>9, <1>10, <1>11, <1>12 DEF RenameWalks, Renames

LEMMA ReplaceNoteReturns ==
  ASSUME Sound, Distinct, NEW p \in Procs, CallReturns(p), ReplaceNote(p)
  PROVE  CallReturns(p)'
<1> USE DEF Sound, Types
<1> DEFINE c == call[p]  i == c.id  o == origin[i]  x == c.read  m == Rewritten(c, x.note)
           old == IF vault[x.slug] = None THEN {} ELSE vault[x.slug]
<1>1. /\ c \in RenameCall /\ x \in Path /\ m.name = x.note.name /\ Put(old, m) \in Folder
      /\ vault' = [vault EXCEPT ![x.slug] = Put(old, m)]
      /\ call'[p] = [c EXCEPT !.read = None]
  BY ReplaceNoteIs DEF CallsTyped
<1>2. c # None /\ c.pc \in {"own", "links"} /\ x # None /\ Touch(i)
  BY DEF ReplaceNote, Walking
<1>3. /\ call'[p].op = "rename" /\ call'[p].id = i /\ call'[p].pc = c.pc /\ call'[p].from = c.from
      /\ call'[p].to = c.to /\ call'[p].todo = c.todo /\ call'[p].read = None
      /\ call'[p].edits = c.edits
  BY <1>1 DEF RenameCall
<1>4. i \in Ids /\ origin'[i] = o  BY <1>1, <1>2 DEF RenameCall
<1> SUFFICES ASSUME o # None  PROVE RenameWalks(p)'
  BY <1>3, <1>4 DEF CallReturns
<1>5. /\ o \in Vaults /\ vault \in Vaults /\ RenameWalks(p) /\ c.from \in Slugs /\ c.to \in Slugs
      /\ c.from # c.to /\ vault[c.from] # None /\ Rel(o, vault, c.edits)
  BY <1>1, <1>2, RenameAt
<1>6. x \in c.edits /\ x.slug \in Slugs /\ vault[x.slug] # None /\ old = vault[x.slug]
  <2>1. x \in c.edits  BY <1>2, <1>5 DEF RenameWalks
  <2>2. x.slug \in Slugs  BY <1>1 DEF Path
  <2>3. o[x.slug] # None  BY <1>5, <2>1 DEF Rel, Of
  <2> QED  BY <1>5, <2>1, <2>2, <2>3 DEF Rel, SameFolders
<1>7. DistinctFolders(o)  BY <1>1 DEF Distinct, RenameCall
<1>8. Rel(o, vault', c.edits)
  <2> HIDE DEF c, m, o, x, old
  <2>1. None \notin Folder  BY DEF FilesTyped
  <2> QED  BY <1>1, <1>5, <1>6, <1>7, <2>1, RelPut
<1>9. vault'[c.from] # None
  BY <1>1, <1>5, <1>6 DEF FilesTyped, Vaults
<1>10. Back(vault', c.from, c.to) = vault'  BY <1>9, BackIs
<1>11. Renames(o, c.from, c.to, c.edits)  BY <1>5 DEF RenameWalks
<1> HIDE DEF c, m, x, old
<1>12. call'[p].from = c.from /\ call'[p].to = c.to /\ call'[p].edits = c.edits /\ origin'[call'[p].id] = o
  BY <1>3, <1>4
<1>13. RenameWalks(p)  BY <1>5
<1> HIDE DEF o
<1>14. /\ c.pc \in {"own", "links"} =>
            /\ \A y, z \in c.todo : SamePlace(y, z) => y = z
            /\ \A y \in c.todo, z \in c.edits : ~SamePlace(y, z)
       /\ c.pc = "own" => \A y \in c.todo \cup c.edits : y.slug = c.from
  BY <1>13 DEF RenameWalks, c
<1> QED  BY <1>3, <1>8, <1>9, <1>10, <1>11, <1>12, <1>14 DEF RenameWalks, Renames

LEMMA RenameGoesOnReturns ==
  ASSUME Sound, Distinct, NEW p \in Procs, CallReturns(p), LinksStart(p) \/ MoveFolder(p) \/ RenameSaves(p)
  PROVE  CallReturns(p)'
<1> USE DEF Sound, Types
<1> DEFINE c == call[p]  i == c.id  o == origin[i]
<1>1. c \in RenameCall /\ c # None /\ c.from \in Slugs /\ c.to \in Slugs
  BY RunningIs DEF LinksStart, MoveFolder, RenameSaves, Walking, RenameCall
<1>2. i \in Ids /\ origin'[i] = o
  BY <1>1 DEF RenameCall, LinksStart, MoveFolder, RenameSaves
<1>3. CASE LinksStart(p)
  <2> DEFINE t == Walk(Slugs \ {c.from})
  <2>1. c.pc = "own" /\ call'[p] = [c EXCEPT !.pc = "links", !.todo = t] /\ vault' = vault /\ c.read = None
    BY <1>3 DEF LinksStart, CallsTyped
  <2>2. \A x \in t : x \in Path /\ x.slug \in Slugs \ {c.from} /\ vault[x.slug] # None /\ x.note \in vault[x.slug]
    BY <1>1, WalkIs
  <2> HIDE DEF t
  <2>3. /\ call'[p].op = "rename" /\ call'[p].id = i /\ call'[p].pc = "links" /\ call'[p].from = c.from
        /\ call'[p].to = c.to /\ call'[p].todo = t /\ call'[p].read = None
        /\ call'[p].edits = c.edits
    BY <1>1, <2>1 DEF RenameCall
  <2> SUFFICES ASSUME o # None  PROVE RenameWalks(p)'
    BY <1>2, <2>3 DEF CallReturns
  <2>4. RenameWalks(p) /\ vault[c.from] # None  BY <1>1, <2>1, RenameAt
  <2>5. \A x, y \in t : SamePlace(x, y) => x = y
    <3>1. \A x, y \in t : SamePlace(x, y) => x.note = y.note
      BY <2>2 DEF Distinct, DistinctFolders, OneOfAName, SamePlace
    <3> QED  BY <2>2, <3>1 DEF SamePlace, Path
  <2>6. \A x \in t, y \in c.edits : ~SamePlace(x, y)
    BY <2>1, <2>2, <2>4 DEF RenameWalks, SamePlace
  <2> QED  BY <1>2, <2>1, <2>3, <2>4, <2>5, <2>6 DEF RenameWalks, Renames
<1>4. CASE MoveFolder(p)
  <2>1. /\ c.pc = "links" /\ call'[p] = [c EXCEPT !.pc = "save", !.todo = {}]
        /\ vault[c.from] # None /\ vault[c.to] = None
        /\ vault' = [vault EXCEPT ![c.from] = None, ![c.to] = vault[c.from]]
    BY <1>4 DEF MoveFolder, CallsTyped
  <2>2. /\ call'[p].op = "rename" /\ call'[p].id = i /\ call'[p].pc = "save" /\ call'[p].from = c.from
        /\ call'[p].to = c.to /\ call'[p].edits = c.edits
    BY <1>1, <2>1 DEF RenameCall
  <2> SUFFICES ASSUME o # None  PROVE RenameWalks(p)'
    BY <1>2, <2>2 DEF CallReturns
  <2>3. RenameWalks(p) /\ vault \in Vaults /\ c.from # c.to  BY <1>1, RenameAt
  <2>4. Back(vault', c.from, c.to) = vault
    <3> HIDE DEF c
    <3>1. vault'[c.from] = None /\ vault'[c.to] = vault[c.from] /\ vault' \in [Slugs -> {None} \cup Folder]
      BY <1>1, <2>1, <2>3 DEF Vaults
    <3>2. Back(vault', c.from, c.to) = [vault' EXCEPT ![c.from] = vault'[c.to], ![c.to] = None]
      BY <2>1, <3>1 DEF Back
    <3>3. \A s \in Slugs : [vault' EXCEPT ![c.from] = vault'[c.to], ![c.to] = None][s] = vault[s]
      BY <1>1, <2>1, <2>3, <3>1 DEF Vaults
    <3> QED  BY <2>3, <3>1, <3>2, <3>3 DEF Vaults
  <2>5. Back(vault, c.from, c.to) = vault  BY <2>1, BackIs
  <2> QED  BY <1>2, <2>2, <2>3, <2>4, <2>5 DEF RenameWalks, Renames
<1>5. CASE RenameSaves(p)
  <2>1. call'[p] = [c EXCEPT !.pc = "record"] /\ vault' = vault  BY <1>5 DEF RenameSaves, CallsTyped
  <2>2. /\ call'[p].op = "rename" /\ call'[p].id = i /\ call'[p].pc = "record" /\ call'[p].from = c.from
        /\ call'[p].to = c.to /\ call'[p].edits = c.edits
    BY <1>1, <2>1 DEF RenameCall
  <2> SUFFICES ASSUME o # None  PROVE RenameWalks(p)'
    BY <1>2, <2>2 DEF CallReturns
  <2>3. RenameWalks(p)  BY <1>1, RenameAt
  <2> QED  BY <1>2, <2>1, <2>2, <2>3 DEF RenameWalks, Renames
<1> QED  BY <1>3, <1>4, <1>5

LEMMA PackReturns ==
  ASSUME Sound, NEW p \in Procs, CallReturns(p), Pack(p)
  PROVE  CallReturns(p)'
<1> USE DEF Sound, Types
<1> DEFINE c == call[p]  i == c.id  o == origin[i]  j == ItemOf(p)
<1>0. SnapshotWork(p)  BY DEF WorkOK
<1>1. /\ c \in SnapshotCall /\ i \in Ids /\ snaps[i] \in Image
      /\ j \in c.todo /\ j \in Slugs \cup {InBrain}
      /\ snaps' = [snaps EXCEPT ![i] = Packed(snaps[i], j)]
      /\ call'[p] = [c EXCEPT !.todo = c.todo \ {j}]
  BY <1>0, PackIs DEF CallsTyped
<1>2. vault' = vault /\ origin' = origin /\ c # None  BY DEF Pack
<1> HIDE DEF j
<1>3. call'[p].op = "snapshot" /\ call'[p].id = i /\ call'[p].todo = c.todo \ {j} /\ c.op = "snapshot"
  BY <1>1 DEF SnapshotCall
<1> SUFFICES ASSUME o # None  PROVE SnapshotWalks(p)'
  BY <1>2, <1>3 DEF CallReturns
<1>4. SnapshotWalks(p)  BY <1>2, <1>3 DEF CallReturns
<1>5. snaps'[i] = Packed(snaps[i], j)  BY <1>1 DEF FilesTyped
<1>6. \A s \in Slugs : Packed(snaps[i], j).vault[s] = IF s = j THEN vault[s] ELSE snaps[i].vault[s]
  <2>1. CASE j = InBrain
    <3>1. Packed(snaps[i], j).vault = snaps[i].vault  BY <1>1, <2>1 DEF Packed, Image
    <3> QED  BY <2>1, <3>1, BackupAssumption
  <2>2. CASE j # InBrain
    <3>1. Packed(snaps[i], j).vault = [snaps[i].vault EXCEPT ![j] = vault[j]]
      BY <1>1, <2>2 DEF Packed, Image
    <3> QED  BY <1>1, <2>2, <3>1 DEF Image, Vaults
  <2> QED  BY <2>1, <2>2
<1>7. \A s \in Slugs : snaps'[i].vault[s] = IF s \in c.todo \ {j} THEN None ELSE o[s]
  BY <1>1, <1>4, <1>5, <1>6 DEF SnapshotWalks
<1>8. vault = o  BY <1>4 DEF SnapshotWalks
<1> QED  BY <1>2, <1>3, <1>7, <1>8 DEF SnapshotWalks

LEMMA RestoreReturns ==
  ASSUME Sound, NEW p \in Procs, CallReturns(p), MoveAside(p) \/ ExtractStarts(p) \/ Extract(p)
  PROVE  CallReturns(p)'
<1> USE DEF Sound, Types
<1> DEFINE c == call[p]  i == c.id  o == origin[i]  image == snaps[c.read]
<1>0. c # None /\ c \in RestoreCall /\ RestoreWork(p)
  BY RunningIs DEF MoveAside, MovesAside, ExtractStarts, Extract, WorkOK
<1>1. c.op = "restore" /\ i \in Ids  BY <1>0 DEF RestoreCall
<1>2. snaps' = snaps /\ origin'[i] = o
  BY <1>1 DEF MoveAside, MovesAside, ExtractStarts, Extract
<1>3. CASE MoveAside(p)
  <2>1. PICK j \in c.todo :
           /\ call'[p] = [c EXCEPT !.todo = c.todo \ {j}]
           /\ IF j = InBrain THEN vault' = vault ELSE vault' = [vault EXCEPT ![j] = None]
    BY <1>3 DEF MoveAside, MovesAside, CallsTyped
  <2>2. c.pc = "aside"  BY <1>3 DEF MoveAside, MovesAside
  <2>3. /\ call'[p].op = "restore" /\ call'[p].id = i /\ call'[p].pc = "aside"
        /\ call'[p].read = c.read /\ call'[p].todo = c.todo \ {j}
    BY <1>0, <2>1, <2>2 DEF RestoreCall
  <2> SUFFICES ASSUME o # None  PROVE RestoreWalks(p)'
    BY <1>2, <2>3 DEF CallReturns
  <2>4. RestoreWalks(p)  BY <1>0, <1>1 DEF CallReturns
  <2>5. \A s \in Slugs : vault[s] # None => s \in c.todo  BY <2>2, <2>4 DEF RestoreWalks
  <2>6. j \in Slugs \cup {InBrain}  BY <1>0 DEF RestoreCall
  <2>7. \A s \in Slugs : vault'[s] # None => s \in c.todo \ {j}
    BY <2>1, <2>5, <2>6, BackupAssumption DEF FilesTyped, Vaults
  <2> QED  BY <1>2, <2>3, <2>4, <2>7 DEF RestoreWalks
<1>4. CASE ExtractStarts(p)
  <2> DEFINE t == {InBrain} \cup {s \in Slugs : image.vault[s] # None}
  <2>1. /\ c.pc = "aside" /\ c.todo = {} /\ vault' = vault
        /\ call'[p] = [c EXCEPT !.pc = "extract", !.todo = t]
    BY <1>4 DEF ExtractStarts, CallsTyped
  <2>2. \A s \in Slugs : s \in t <=> image.vault[s] # None  BY BackupAssumption
  <2> HIDE DEF t
  <2>3. /\ call'[p].op = "restore" /\ call'[p].id = i /\ call'[p].pc = "extract"
        /\ call'[p].read = c.read /\ call'[p].todo = t
    BY <1>0, <2>1 DEF RestoreCall
  <2> SUFFICES ASSUME o # None  PROVE RestoreWalks(p)'
    BY <1>2, <2>3 DEF CallReturns
  <2>4. RestoreWalks(p)  BY <1>0, <1>1 DEF CallReturns
  <2>5. o = image.vault /\ \A s \in Slugs : vault[s] = None  BY <2>1, <2>4 DEF RestoreWalks
  <2>6. \A s \in Slugs : vault[s] = IF s \in t THEN None ELSE o[s]  BY <2>2, <2>5
  <2> QED  BY <1>2, <2>1, <2>3, <2>5, <2>6 DEF RestoreWalks
<1>5. CASE Extract(p)
  <2> DEFINE j == ItemOf(p)
  <2>1. /\ j \in c.todo /\ call'[p] = [c EXCEPT !.todo = c.todo \ {j}]
        /\ j = InBrain => vault' = vault
        /\ j # InBrain =>
             /\ j \in Slugs
             /\ vault' = [vault EXCEPT ![j] = IF vault[j] = None THEN image.vault[j]
                                              ELSE Merge(vault[j], image.vault[j])]
    BY <1>0, <1>5, ExtractIs DEF ImageOf, CallsTyped
  <2>2. c.pc = "extract"  BY <1>5 DEF Extract
  <2> HIDE DEF j
  <2>3. /\ call'[p].op = "restore" /\ call'[p].id = i /\ call'[p].pc = "extract"
        /\ call'[p].read = c.read /\ call'[p].todo = c.todo \ {j}
    BY <1>0, <2>1, <2>2 DEF RestoreCall
  <2> SUFFICES ASSUME o # None  PROVE RestoreWalks(p)'
    BY <1>2, <2>3 DEF CallReturns
  <2>4. RestoreWalks(p)  BY <1>0, <1>1 DEF CallReturns
  <2>5. o = image.vault /\ \A s \in Slugs : vault[s] = IF s \in c.todo THEN None ELSE o[s]
    BY <2>2, <2>4 DEF RestoreWalks
  <2>6. \A s \in Slugs : vault'[s] = IF s \in c.todo \ {j} THEN None ELSE o[s]
    <3>1. CASE j = InBrain  BY <2>1, <2>5, <3>1, BackupAssumption
    <3>2. CASE j # InBrain
      <4>1. vault' = [vault EXCEPT ![j] = o[j]] /\ j \in Slugs  BY <2>1, <2>5, <3>2
      <4> QED  BY <2>5, <4>1 DEF FilesTyped, Vaults
    <3> QED  BY <3>1, <3>2
  <2> QED  BY <1>2, <2>3, <2>5, <2>6 DEF RestoreWalks
<1> QED  BY <1>3, <1>4, <1>5

(* The end of an undo and of a restore: everything is back.                *)
LEMMA EndsReached ==
  ASSUME Sound, NEW p \in Procs, CallReturns(p), UndoEnds(p) \/ RestoreEnds(p)
  PROVE  ReachedIs'
<1> USE DEF Sound, Types
<1> DEFINE i == call[p].id  o == origin[i]
<1>1. reached' = i /\ vault' = vault /\ origin' = origin /\ call[p] # None
  BY DEF UndoEnds, RestoreEnds
<1> SUFFICES ASSUME o # None  PROVE vault = o
  BY <1>1 DEF ReachedIs
<1>2. i \in Ids
  BY <1>1, RunningIs DEF UndoEnds, RestoreEnds, UndoCall, RestoreCall
<1>3. o \in Vaults /\ vault \in Vaults /\ None \notin Folder  BY <1>2 DEF FilesTyped, GhostsTyped
<1>4. CASE UndoEnds(p)
  <2>1. Rel(o, vault, {})  BY <1>1, <1>4 DEF UndoEnds, CallReturns
  <2> QED  BY <1>3, <2>1, RelNothing
<1>5. CASE RestoreEnds(p)
  <2>1. \A s \in Slugs : vault[s] = o[s]  BY <1>1, <1>5 DEF RestoreEnds, CallReturns, RestoreWalks
  <2> QED  BY <1>3, <2>1 DEF Vaults
<1> QED  BY <1>4, <1>5

(* The record a call leaves can bring back what it found.                  *)
LEMMA NewRecordReturns ==
  ASSUME Sound, NEW p \in Procs, CallReturns(p), PutsRecord(p), NEW i \in Ids, i = call[p].id
  PROVE  RecordReturns(i)'
<1> USE DEF Sound, Types
<1> SUFFICES ASSUME origin'[i] # None  PROVE RecordReturns(i)'
  BY DEF RecordReturns
<1>1. CASE RenameRecords(p)
  <2> DEFINE r == [kind |-> "rename", from |-> call[p].from, to |-> call[p].to, edits |-> call[p].edits]
  <2>1. records'[i] = r /\ vault' = vault /\ origin' = origin /\ call[p] # None /\ call[p].op = "rename"
    BY <1>1 DEF RenameRecords, FilesTyped
  <2>2. r.kind = "rename" /\ r.from = call[p].from /\ r.to = call[p].to /\ r.edits = call[p].edits
    OBVIOUS
  <2> HIDE DEF r
  <2>3. Renames(origin[i], call[p].from, call[p].to, call[p].edits)  BY <2>1 DEF CallReturns, RenameWalks
  <2> QED  BY <2>1, <2>2, <2>3 DEF RecordReturns, Renames
<1>2. CASE DeleteRecords(p)
  <2> DEFINE r == [kind |-> "delete", from |-> call[p].from]
  <2>1. /\ records'[i] = r /\ vault' = vault /\ trash' = trash /\ origin' = origin /\ call[p] # None
        /\ call[p].op = "delete" /\ call[p].pc = "record"
    BY <1>2 DEF DeleteRecords, FilesTyped
  <2>2. r.kind = "delete" /\ r.from = call[p].from  OBVIOUS
  <2> HIDE DEF r
  <2>3. Deleted(origin[i], i, call[p].from)  BY <2>1 DEF CallReturns
  <2> QED  BY <2>1, <2>2, <2>3 DEF RecordReturns, Deleted
<1> QED  BY <1>1, <1>2 DEF PutsRecord

(* A step of an undo: it leads its own call, every other undo of the same  *)
(* one, and its record, to the same vault.                                 *)
LEMMA UndoRenameReturns ==
  ASSUME Sound, NEW p \in Procs, NEW i \in Ids, RecordReturns(i), ReachedIs, UndoRename(p, i)
  PROVE  /\ CallReturns(p)' /\ RecordReturns(i)' /\ (reached = i => ReachedIs')
         /\ \A q \in Procs \ {p} : CallReturns(q) /\ Undoing(q, i) => CallReturns(q)'
<1> USE DEF Sound, Types
<1> DEFINE o == origin[i]  r == records[i]  a == r.from  b == r.to
<1>1. /\ r # None /\ r.kind = "rename" /\ a \in Slugs /\ b \in Slugs
      /\ vault' = Back(vault, a, b) /\ origin'[i] = o /\ records' = records /\ reached' = reached
      /\ call'[p] = NewCall("undo", "files", i, a, b, r.edits)
      /\ \A q \in Procs \ {p} : call'[q] = call[q]
  BY RecordIs DEF UndoRename, Undoes, Back, CallsTyped
<1>2. call'[p].op = "undo" /\ call'[p].id = i /\ call'[p].todo = r.edits  BY <1>1
<1> HIDE DEF o
<1>3. CASE o = None
  <2>1. CallReturns(p)'  BY <1>1, <1>2, <1>3 DEF CallReturns
  <2>2. RecordReturns(i)'  BY <1>1, <1>3 DEF RecordReturns
  <2>3. reached = i => ReachedIs'  BY <1>1, <1>3 DEF ReachedIs
  <2>4. \A q \in Procs \ {p} : CallReturns(q) /\ Undoing(q, i) => CallReturns(q)'
    BY <1>1, <1>3 DEF CallReturns, Undoing
  <2> QED  BY <2>1, <2>2, <2>3, <2>4
<1>4. CASE o # None
  <2>1. Renames(o, a, b, r.edits)  BY <1>1, <1>4 DEF RecordReturns, o
  <2>2. Rel(o, vault', r.edits) /\ o[a] # None  BY <1>1, <2>1 DEF Renames
  <2>3. vault'[a] # None  BY <1>1, <2>2 DEF Rel, SameFolders
  <2>4. Back(vault', a, b) = vault'  BY <2>3, BackIs
  <2>5. SameFolders(o, vault) => vault' = vault
    <3>1. SameFolders(o, vault) => vault[a] # None  BY <1>1, <2>2 DEF SameFolders
    <3> QED  BY <1>1, <3>1, BackIs
  <2>6. CallReturns(p)'  BY <1>1, <1>2, <2>2 DEF CallReturns
  <2>7. RecordReturns(i)'  BY <1>1, <2>1, <2>2, <2>4 DEF RecordReturns, Renames
  <2>8. reached = i => ReachedIs'
    <3> SUFFICES ASSUME reached = i  PROVE vault' = o
      BY <1>1 DEF ReachedIs
    <3>1. vault = o  BY <1>4, DomainAssumption DEF ReachedIs, o
    <3> QED  BY <2>5, <3>1 DEF SameFolders
  <2>9. ASSUME NEW q \in Procs \ {p}, CallReturns(q), Undoing(q, i)  PROVE CallReturns(q)'
    <3>1. Rel(o, vault, call[q].todo)  BY <1>4, <2>9 DEF CallReturns, Undoing, o
    <3>2. vault' = vault  BY <2>5, <3>1 DEF Rel
    <3> QED  BY <1>1, <2>9, <3>1, <3>2 DEF CallReturns, Undoing
  <2> QED  BY <2>6, <2>7, <2>8, <2>9
<1> QED  BY <1>3, <1>4

LEMMA UndoDeleteReturns ==
  ASSUME Sound, NEW p \in Procs, NEW i \in Ids, RecordReturns(i), CallReturns(p), UndoDelete(p, i)
  PROVE  /\ CallReturns(p)' /\ RecordReturns(i)' /\ ReachedIs'
         /\ \A q \in Procs \ {p} : CallReturns(q) /\ Undoing(q, i) => CallReturns(q)'
<1> USE DEF Sound, Types
<1> DEFINE o == origin[i]  r == records[i]  s == r.from
<1>1. /\ r # None /\ r.kind = "delete" /\ s \in Slugs /\ trash[i] # None
      /\ vault' = [vault EXCEPT ![s] = trash[i]] /\ trash'[i] = None
      /\ origin'[i] = o /\ records' = records /\ reached' = i /\ call' = call /\ call[p] = None
  BY RecordIs DEF UndoDelete, FilesTyped
<1>2. CallReturns(p)'  BY <1>1 DEF CallReturns
<1> HIDE DEF o
<1>3. CASE o = None
  <2>1. RecordReturns(i)'  BY <1>1, <1>3 DEF RecordReturns
  <2>2. ReachedIs'  BY <1>1, <1>3 DEF ReachedIs
  <2>3. \A q \in Procs \ {p} : CallReturns(q) /\ Undoing(q, i) => CallReturns(q)'
    BY <1>1, <1>3 DEF CallReturns, Undoing
  <2> QED  BY <1>2, <2>1, <2>2, <2>3
<1>4. CASE o # None
  <2>1. trash[i] = o[s] /\ vault = [o EXCEPT ![s] = None]
    BY <1>1, <1>4 DEF RecordReturns, Deleted, o
  <2>2. o \in Vaults  BY <1>4 DEF GhostsTyped, o
  <2>3. vault' = o  BY <1>1, <2>1, <2>2 DEF Vaults
  <2>4. RecordReturns(i)'  BY <1>1, <2>3 DEF RecordReturns, Deleted
  <2>5. ReachedIs'  BY <1>1, <2>3 DEF ReachedIs
  <2>6. ASSUME NEW q \in Procs \ {p}, CallReturns(q), Undoing(q, i)  PROVE CallReturns(q)'
    <3>1. Rel(o, vault, call[q].todo)  BY <1>4, <2>6 DEF CallReturns, Undoing, o
    <3>2. vault[s] = None /\ o[s] # None  BY <1>1, <2>1, <2>2 DEF Vaults
    <3> QED  BY <1>1, <3>1, <3>2 DEF Rel, SameFolders
  <2> QED  BY <1>2, <2>4, <2>5, <2>6
<1> QED  BY <1>3, <1>4

LEMMA UndoNoteReturns ==
  ASSUME Sound, Distinct, NEW p \in Procs, CallReturns(p), NEW i, i = call[p].id,
         RecordReturns(i), ReachedIs, UndoNote(p)
  PROVE  /\ CallReturns(p)' /\ RecordReturns(i)' /\ (reached = i => ReachedIs')
         /\ \A q \in Procs \ {p} : CallReturns(q) /\ Undoing(q, i) => CallReturns(q)'
<1> USE DEF Sound, Types
<1> DEFINE o == origin[i]  r == records[i]  c == call[p]  x == NextEdit(p)
<1>1. /\ c \in UndoCall /\ x \in c.todo /\ x.slug \in Slugs
      /\ vault[x.slug] # None /\ Put(vault[x.slug], x.note) \in Folder
      /\ vault' = [vault EXCEPT ![x.slug] = Put(vault[x.slug], x.note)]
      /\ call'[p] = [c EXCEPT !.todo = c.todo \ {x}] /\ i \in Ids
  BY UndoNoteIs DEF CallsTyped, Path, UndoCall
<1>2. /\ c # None /\ c.op = "undo" /\ origin'[i] = o /\ records' = records /\ reached' = reached /\ trash' = trash
      /\ \A q \in Procs \ {p} : call'[q] = call[q]
  BY <1>1 DEF UndoNote, CallsTyped
<1> HIDE DEF x
<1>3. call'[p].op = "undo" /\ call'[p].id = i /\ call'[p].todo = c.todo \ {x}  BY <1>1 DEF UndoCall
<1>4. CASE o = None
  <2> HIDE DEF c
  <2>1. CallReturns(p)'  BY <1>2, <1>3, <1>4 DEF CallReturns
  <2>2. RecordReturns(i)'  BY <1>2, <1>4 DEF RecordReturns
  <2>3. reached = i => ReachedIs'  BY <1>2, <1>4 DEF ReachedIs
  <2>4. \A q \in Procs \ {p} : CallReturns(q) /\ Undoing(q, i) => CallReturns(q)'
    BY <1>2, <1>4 DEF CallReturns, Undoing
  <2> QED  BY <2>1, <2>2, <2>3, <2>4
<1>5. CASE o # None
  <2>1. Rel(o, vault, c.todo)  BY <1>2, <1>5 DEF CallReturns
  <2>2. o \in Vaults /\ vault \in Vaults /\ None \notin Folder /\ DistinctFolders(o)
    BY <1>1, <1>5 DEF FilesTyped, GhostsTyped, Distinct
  <2>3. x.note \in o[x.slug]  BY <1>1, <2>1 DEF Rel, Of
  <2> HIDE DEF o, c, r
  <2>4. Rel(o, vault', c.todo \ {x})  BY <1>1, <2>1, <2>2, RelPutBackDone
  <2>5. \A es : Rel(o, vault, es) => Rel(o, vault', es)  BY <1>1, <2>2, <2>3, RelPutBack
  <2>6. vault = o => vault' = o
    <3>1. SUFFICES ASSUME vault = o  PROVE vault' = o
      OBVIOUS
    <3>2. Put(o[x.slug], x.note) = o[x.slug]
      BY <1>1, <2>2, <2>3, <3>1, PutTheSame DEF Vaults, DistinctFolders
    <3> QED  BY <1>1, <2>2, <3>1, <3>2 DEF Vaults
  <2>7. CallReturns(p)'  BY <1>2, <1>3, <2>4 DEF CallReturns
  <2>8. reached = i => ReachedIs'
    BY <1>1, <1>2, <1>5, <2>6, DomainAssumption DEF ReachedIs, o
  <2>9. ASSUME NEW q \in Procs \ {p}, CallReturns(q), Undoing(q, i)  PROVE CallReturns(q)'
    <3>1. Rel(o, vault', call[q].todo)  BY <1>5, <2>5, <2>9 DEF CallReturns, Undoing, o
    <3> QED  BY <1>2, <2>9, <3>1 DEF CallReturns, Undoing
  <2>10. RecordReturns(i)'
    <3>0. r = records[i] /\ o = origin[i]  BY DEF r, o
    <3>1. CASE r # None /\ r.kind = "rename"
      <4>1. Renames(o, r.from, r.to, r.edits)  BY <1>5, <3>0, <3>1 DEF RecordReturns
      <4>2. r.from \in Slugs  BY <1>1, <3>0, <3>1, RecordIs
      <4>3. vault[r.from] # None  BY <2>1, <4>1, <4>2 DEF Renames, Rel, SameFolders
      <4>4. Rel(o, vault', r.edits)  BY <2>5, <4>1, <4>3, BackIs DEF Renames
      <4>5. vault'[r.from] # None  BY <4>1, <4>2, <4>4 DEF Renames, Rel, SameFolders
      <4>6. Back(vault', r.from, r.to) = vault'  BY <4>5, BackIs
      <4> QED  BY <1>2, <3>0, <3>1, <4>1, <4>4, <4>6 DEF RecordReturns, Renames
    <3>2. CASE r # None /\ r.kind = "delete"
      <4>1. Deleted(o, i, r.from)  BY <1>5, <3>0, <3>2 DEF RecordReturns
      <4>2. r.from \in Slugs  BY <1>1, <3>0, <3>2, RecordIs
      <4>3. ~(trash[i] = o[r.from] /\ trash[i] # None /\ vault = [o EXCEPT ![r.from] = None])
        <5>1. vault = [o EXCEPT ![r.from] = None] => vault[r.from] = None  BY <2>2, <4>2 DEF Vaults
        <5> QED  BY <2>1, <4>2, <5>1 DEF Rel, SameFolders
      <4>4. vault' = o /\ trash'[i] = None  BY <1>2, <2>6, <4>1, <4>3 DEF Deleted
      <4> QED  BY <1>2, <3>0, <3>2, <4>4 DEF RecordReturns, Deleted
    <3>3. r = None \/ r.kind \in {"rename", "delete"}  BY <1>1, <3>0, RecordIs DEF Record
    <3> QED  BY <1>2, <3>0, <3>1, <3>2, <3>3 DEF RecordReturns
  <2> QED  BY <2>7, <2>8, <2>9, <2>10
<1> QED  BY <1>4, <1>5

LEMMA OwnReturns ==
  ASSUME Sound, Distinct, ReturnInv, NEW p \in Procs, ByOne(p)
  PROVE  CallReturns(p)'
<1> USE DEF Sound, Types
<1>0. CallReturns(p) /\ ReachedIs /\ \A i \in Ids : RecordReturns(i)
  BY DEF ReturnInv, ReachedReturns, ReachedIs
<1>1. CASE call'[p] = None  BY <1>1 DEF CallReturns
<1>2. CASE ReadNote(p) \/ ReplaceNote(p) \/ LinksStart(p) \/ MoveFolder(p) \/ RenameSaves(p)
  BY <1>0, <1>2, ReadNoteReturns, ReplaceNoteReturns, RenameGoesOnReturns
<1>3. CASE DeleteRecords(p)
  <2>1. call[p] \in DeleteCall /\ call'[p] = [call[p] EXCEPT !.pc = "save"]
    BY <1>3, RunningIs DEF DeleteRecords, CallsTyped
  <2>2. call'[p].op = "delete" /\ call'[p].pc = "save"  BY <2>1 DEF DeleteCall
  <2> QED  BY <2>2 DEF CallReturns
<1>4. CASE UndoNote(p)
  <2>1. call[p].id \in Ids  BY <1>4, UndoNoteIs DEF UndoCall
  <2> QED  BY <1>0, <1>4, <2>1, UndoNoteReturns
<1>5. CASE \E i \in Ids : UndoRename(p, i) \/ UndoDelete(p, i)
  BY <1>0, <1>5, UndoRenameReturns, UndoDeleteReturns
<1>6. CASE Pack(p) \/ MoveAside(p) \/ ExtractStarts(p) \/ Extract(p)
  BY <1>0, <1>6, PackReturns, RestoreReturns
<1>7. CASE \E a, b \in Slugs : RenameStarts(p, a, b)  BY <1>7, RenameBegins
<1>8. CASE \/ \E s \in Slugs : Create(p, s) \/ Delete(p, s)
           \/ SnapshotStarts(p)
           \/ \E id \in Ids : RestoreStarts(p, id)
  BY <1>8, OthersBegin
<1>9. CASE CreateSaves(p) \/ CreateFails(p) \/ RenameRecords(p) \/ RenameFails(p)
  <2>1. call'[p] = None  BY <1>9 DEF CreateSaves, CreateFails, RenameRecords, RenameFails, CallsTyped
  <2> QED  BY <1>1, <2>1
<1>10. CASE DeleteSaves(p) \/ DeleteFails(p) \/ UndoEnds(p) \/ UndoFails(p)
  <2>1. call'[p] = None  BY <1>10 DEF DeleteSaves, DeleteFails, UndoEnds, UndoFails, CallsTyped
  <2> QED  BY <1>1, <2>1
<1>11. CASE PackEnds(p) \/ PackFails(p) \/ RestoreEnds(p) \/ RestoreFails(p) \/ Die(p) \/ Reload(p)
  <2>1. call'[p] = None
    BY <1>11 DEF PackEnds, PackFails, RestoreEnds, RestoreFails, Die, Reload, CallsTyped
  <2> QED  BY <1>1, <2>1
<1>12. \/ DomainStep(p) \/ BackupStep(p) \/ Reload(p) \/ Die(p) \/ SnapshotStarts(p)
       \/ (\E s \in Slugs : Create(p, s) \/ Delete(p, s)) \/ (\E a, b \in Slugs : RenameStarts(p, a, b))
       \/ \E id \in Ids : UndoDelete(p, id) \/ UndoRename(p, id) \/ RestoreStarts(p, id)
  BY DEF ByOne
<1>13. DomainStep(p) => CallReturns(p)'
  BY <1>2, <1>3, <1>4, <1>9, <1>10 DEF DomainStep
<1>14. BackupStep(p) => CallReturns(p)'
  BY <1>6, <1>11 DEF BackupStep
<1> QED  BY <1>5, <1>7, <1>8, <1>11, <1>12, <1>13, <1>14

(* A step of a process.                                                    *)
LEMMA ReturnKeptByOne ==
  ASSUME Sound, Sound', Distinct, ReturnInv, NEW p \in Procs, ByOne(p)
  PROVE  ReturnInv'
<1> USE DEF Sound, Types
<1>0. /\ \A q \in Procs : CallReturns(q)
      /\ \A i \in Ids : RecordReturns(i) /\ ArchiveReturns(i)
      /\ ReachedOld /\ ReachedIs /\ Unreached
  BY DEF ReturnInv, ReachedReturns, ReachedOld, ReachedIs
<1>1. CallReturns(p)'  BY OwnReturns
<1>2. \A i \in Ids : OfUndo(p, i) =>
        /\ RecordReturns(i)' /\ (reached' = i \/ reached = i => ReachedIs')
        /\ \A q \in Procs \ {p} : Undoing(q, i) => CallReturns(q)'
  <2> SUFFICES ASSUME NEW i \in Ids, OfUndo(p, i)
               PROVE  /\ RecordReturns(i)' /\ (reached' = i \/ reached = i => ReachedIs')
                      /\ \A q \in Procs \ {p} : Undoing(q, i) => CallReturns(q)'
    OBVIOUS
  <2>1. CASE UndoNote(p) /\ i = call[p].id
    <3>1. reached' = reached  BY <2>1 DEF UndoNote
    <3> QED  BY <1>0, <2>1, <3>1, UndoNoteReturns
  <2>2. CASE UndoRename(p, i)
    <3>1. reached' = reached  BY <2>2 DEF UndoRename
    <3> QED  BY <1>0, <2>2, <3>1, UndoRenameReturns
  <2>3. CASE UndoDelete(p, i)  BY <1>0, <2>3, UndoDeleteReturns
  <2> QED  BY <2>1, <2>2, <2>3 DEF OfUndo
<1>3. ASSUME NEW q \in Procs \ {p}  PROVE CallReturns(q)'
  <2>1. CASE call[q] = None
    <3>1. call'[q] = None  BY <2>1, OthersStay
    <3> QED  BY <3>1 DEF CallReturns
  <2>2. CASE call[q] # None
    <3>1. call[q].id \in Ids  BY <2>2, IdIsOld DEF IdsOK
    <3>2. CASE OfUndo(p, call[q].id) /\ Undoing(q, call[q].id)  BY <1>2, <3>1, <3>2
    <3>3. CASE ~(OfUndo(p, call[q].id) /\ Undoing(q, call[q].id))
      BY <1>0, <3>1, <3>3, OthersReturn
    <3> QED  BY <3>2, <3>3
  <2> QED  BY <2>1, <2>2
<1>4. ASSUME NEW i \in Ids  PROVE RecordReturns(i)' /\ ArchiveReturns(i)'
  <2>1. RecordReturns(i)'
    <3>1. CASE OfUndo(p, i)  BY <1>2, <3>1
    <3>2. CASE PutsRecord(p) /\ i = call[p].id  BY <1>0, <3>2, NewRecordReturns
    <3>3. CASE ~OfUndo(p, i) /\ ~(PutsRecord(p) /\ i = call[p].id)
      BY <1>0, <3>3, RecordsReturn
    <3> QED  BY <3>1, <3>2, <3>3
  <2>2. ArchiveReturns(i)'  BY <1>0, ArchivesReturn
  <2> QED  BY <2>1, <2>2
<1>5. ReachedIs'
  <2>0. reached \in Ids \cup {None}  BY DEF GhostsTyped
  <2>1. CASE UndoEnds(p) \/ RestoreEnds(p)  BY <1>0, <2>1, EndsReached
  <2>2. CASE \E i \in Ids : UndoDelete(p, i)
    <3>1. PICK i \in Ids : UndoDelete(p, i)  BY <2>2
    <3>2. OfUndo(p, i) /\ reached' = i  BY <3>1 DEF OfUndo, UndoDelete
    <3> QED  BY <1>2, <3>2
  <2>3. CASE reached' = reached
    <3>1. CASE reached = None  BY <2>3, <3>1 DEF ReachedIs
    <3>2. CASE reached \in Ids /\ OfUndo(p, reached)  BY <1>2, <2>3, <3>2
    <3>3. CASE ~OfUndo(p, reached)  BY <1>0, <2>3, <3>3, ReachedStays
    <3> QED  BY <2>0, <3>1, <3>2, <3>3
  <2>4. reached' = reached \/ UndoEnds(p) \/ RestoreEnds(p) \/ \E i \in Ids : UndoDelete(p, i)
    <3>1. DomainStep(p) => reached' = reached \/ UndoEnds(p)
      BY DEF DomainStep, CreateSaves, CreateFails, ReadNote, ReplaceNote, LinksStart, MoveFolder,
             RenameSaves, RenameRecords, RenameFails, DeleteRecords, DeleteSaves, DeleteFails,
             UndoNote, UndoFails
    <3>2. BackupStep(p) => reached' = reached \/ RestoreEnds(p)
      BY DEF BackupStep, Pack, PackEnds, PackFails, MoveAside, MovesAside, ExtractStarts, Extract,
             RestoreFails
    <3>3. Starts(p) \/ Reload(p) \/ Die(p) => reached' = reached
      BY DEF Starts, Create, Delete, RenameStarts, UndoRename, SnapshotStarts, RestoreStarts, Reload, Die
    <3> QED  BY <3>1, <3>2, <3>3 DEF ByOne, Starts
  <2> QED  BY <2>1, <2>2, <2>3, <2>4
<1>6. ReachedReturns'
  <2>1. ReachedOld'  BY <1>0, ReachedOldKept
  <2> QED  BY <1>5, <2>1 DEF ReachedReturns, ReachedOld, ReachedIs
<1>7. Unreached'  BY <1>0, UnreachedKept
<1> QED  BY <1>1, <1>3, <1>4, <1>6, <1>7 DEF ReturnInv

LEMMA ReturnKept ==
  ASSUME Sound, Distinct, ReturnInv, [Next]_vars
  PROVE  ReturnInv'
<1>0. Sound'  BY SoundKept
<1>1. CASE ByNobody
  <2>1. UNCHANGED <<call, reached, records, snaps, calls>> /\ \A i \in Ids : origin'[i] = None
    BY <1>1, DomainAssumption DEF ByNobody, EditNote, AddNote
  <2>2. \A p \in Procs : call[p] # None => call[p].id \in Ids  BY IdIsOld DEF Sound, IdsOK
  <2>3. reached \in Ids \cup {None}  BY DEF Sound, Types, GhostsTyped
  <2>4. \A p \in Procs : CallReturns(p)'  BY <2>1, <2>2 DEF CallReturns
  <2>5. \A i \in Ids : RecordReturns(i)' /\ ArchiveReturns(i)'  BY <2>1 DEF RecordReturns, ArchiveReturns
  <2>6. ReachedReturns' /\ Unreached'
    BY <2>1, <2>3 DEF ReturnInv, ReachedReturns, Unreached, OwnId
  <2> QED  BY <2>4, <2>5, <2>6 DEF ReturnInv
<1>2. CASE \E p \in Procs : ByOne(p)  BY <1>0, <1>2, ReturnKeptByOne
<1>3. CASE UNCHANGED vars
  BY <1>3 DEF vars, domainVars, ReturnInv, CallReturns, RenameWalks, SnapshotWalks, RestoreWalks, Renames,
      Deleted, RecordReturns, ArchiveReturns, ReachedReturns, Unreached, OwnId
<1> QED  BY <1>1, <1>2, <1>3, NextIs

(* An undo that has ended has brought back the vault the call found, an    *)
(* archive that can be read holds the vault as it was, and a restore that  *)
(* has ended has brought that back, unless somebody else has written in    *)
(* between: whatever the tools are asked for beside it, in every order of  *)
(* steps, and whatever fails.                                              *)
THEOREM OpsReturnCorrect ==
  ASSUME None \notin Folder \cup Image \cup Calls
  PROVE  Spec => []OpsReturn
<1> DEFINE Inv == Sound /\ Distinct /\ ReturnInv
<1>1. InitBackup => Inv
  <2> SUFFICES ASSUME InitBackup  PROVE Inv
    OBVIOUS
  <2>1. Sound  BY SoundAtFirst
  <2>2. /\ vault = FirstVault /\ \A i \in Ids : trash[i] = None /\ records[i] = None /\ snaps[i] = None
        /\ \A i \in Ids : origin[i] = None
        /\ reached = None /\ \A p \in Procs : call[p] = None
    BY DEF InitBackup, Init
  <2>3. Distinct
    <3>1. DistinctFolders(vault)  BY <2>2, DomainAssumption DEF DistinctFolders
    <3>2. \A i \in Ids : TrashOf(i) = {}  BY <2>2 DEF TrashOf, Archives
    <3> QED  BY <2>2, <3>1, <3>2 DEF Distinct
  <2>4. ReturnInv
    BY <2>2 DEF ReturnInv, CallReturns, RecordReturns, ArchiveReturns, ReachedReturns, Unreached, OwnId
  <2> QED  BY <2>1, <2>3, <2>4
<1>2. Inv /\ [Next]_vars => Inv'
  <2> SUFFICES ASSUME Inv, [Next]_vars  PROVE Inv'
    OBVIOUS
  <2>1. Types /\ WorkOK  BY DEF Sound
  <2> QED  BY <2>1, SoundKept, DistinctKept, ReturnKept
<1>3. Inv => OpsReturn  BY DEF ReturnInv, ReachedReturns, ArchiveReturns, OpsReturn
<1> QED  BY <1>1, <1>2, <1>3, PTL DEF Spec
=============================================================================
