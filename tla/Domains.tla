------------------------------ MODULE Domains -------------------------------
(***************************************************************************)
(* The top-level domains of a vault: brain_create_domain,                  *)
(* brain_rename_domain, brain_delete_domain (tools/*_domain.py,            *)
(* vault/domain.py) and the two kinds of undo record they leave            *)
(* (vault/undo.py).                                                        *)
(*                                                                         *)
(* These tools do not go through VaultWriter: they take no vault lock, and *)
(* other processes run beside them.  A rename is a walk over the notes, a  *)
(* rename of the folder, a save of the Config and an undo record, in this  *)
(* order, and may end after any of them.                                   *)
(*                                                                         *)
(* A note is what they tell apart: its name, the `domain' of its           *)
(* frontmatter, the domain a qualified wikilink of it points into, and a   *)
(* number for its text.  index.md and log.md are not notes.  A save of the *)
(* Config is one step (ConfigStore has its parts) and keeps the domains    *)
(* and the active one; rewrite_frontmatter has its default.                *)
(***************************************************************************)
EXTENDS Naturals, FiniteSets

CONSTANTS
  Procs,       \* processes that run tools: brain_api, brain_mcp
  Slugs, Names,
  personal,    \* PRIVACY_RAILED_SLUG
  Deletable,   \* slugs that _SLUG_RE of vault/domain.py takes
  FirstVault,  \* slug -> the notes of its folder, None
  FirstConfig,
  Scopes,      \* slugs in the scope of open chat threads
  Tools,       \* process -> the tools it is asked for
  MaxCalls, MaxEdits, MaxFaults, \* bounds, each on its counter
  None

Text == 0 .. MaxEdits
Note == [name : Names, dom : Slugs, link : Slugs \cup {None}, text : Text]
Folder == SUBSET Note
OneOfAName(folder) == \A m, k \in folder : m.name = k.name => m = k
(* A Config passes its own validators and leaves a domain to work in.      *)
Config == {c \in [domains : SUBSET Slugs, active : Slugs] :
             c.active \in c.domains /\ personal \in c.domains /\ c.domains # {personal}}
Ids == 1 .. MaxCalls
Path == [slug : Slugs, note : Note]
Record == [kind : {"rename"}, from : Slugs, to : Slugs, edits : SUBSET Path]
          \cup [kind : {"delete"}, from : Slugs]
Vaults == [Slugs -> {None} \cup Folder]

ASSUME DomainAssumption ==
  /\ personal \in Slugs /\ Deletable \subseteq Slugs /\ Scopes \subseteq Slugs
  /\ FirstVault \in Vaults /\ FirstConfig \in Config
  /\ \A s \in Slugs : FirstVault[s] # None =>
       OneOfAName(FirstVault[s]) /\ \A m \in FirstVault[s] : m.text = 0
  /\ Tools \in [Procs -> SUBSET {"create", "rename", "delete", "undo", "snapshot", "restore"}]
  /\ MaxCalls \in Nat /\ MaxEdits \in Nat /\ MaxFaults \in Nat
  /\ None \notin Slugs \cup Names \cup Ids

VARIABLES
  vault,    \* slug -> the notes in its folder, None when there is none
  trash,    \* id of a delete -> the folder it put into .brain/trash
  records,  \* id -> its record in .brain/undo
  config,   \* config.json, None while it is not there
  live,     \* process -> its Config
  call,     \* process -> the tool call it runs
  latest,   \* history: note -> the text somebody gave it last
  forfeit,  \* history: notes whose latest text a rename or an undo wrote over
  origin,   \* history: id of a call -> the vault it, or its undo, leads to
  reached,  \* history: id of the undo or restore that ended last
  apart,    \* history: calls ran one at a time, on a fresh Config, to their end
  calls, edits, faults

files == <<vault, trash, records>>
ghosts == <<latest, forfeit, origin, reached>>
counters == <<edits, faults>>
domainVars == <<vault, trash, records, config, live, call, latest, forfeit, origin,
                reached, apart, calls, edits, faults>>

Exists(s) == vault[s] # None
In(s, n) == Exists(s) /\ \E m \in vault[s] : m.name = n
NamesIn(folder) == {m.name : m \in folder}

(* write_text and os.replace: the note of that name is replaced.           *)
Put(folder, m) == {k \in folder : k.name # m.name} \cup {m}
NotesOf(v) == UNION {v[s] : s \in {t \in Slugs : v[t] # None}}

Idle(p) == call[p] = None

(* load_config: without the file, the defaults.                            *)
Loaded == IF config = None THEN FirstConfig ELSE config

Init ==
  /\ vault = FirstVault
  /\ trash = [i \in Ids |-> None]
  /\ records = [i \in Ids |-> None]
  /\ config = FirstConfig
  /\ live = [p \in Procs |-> FirstConfig]
  /\ call = [p \in Procs |-> None]
  /\ latest = [n \in Names |-> 0]
  /\ forfeit = {}
  /\ origin = [i \in Ids |-> None]
  /\ reached = None
  /\ apart = TRUE
  /\ calls = 0 /\ edits = 0 /\ faults = 0
-----------------------------------------------------------------------------
(* Helpers of the actions.                                                 *)

Fault == faults < MaxFaults /\ faults' = faults + 1

NewCall(op, pc, id, from, to, todo) ==
  [op |-> op, pc |-> pc, id |-> id, from |-> from, to |-> to, todo |-> todo,
   read |-> None, edits |-> {}]

(* A call begins.                                                          *)
Begins(p, newCall) ==
  /\ Idle(p) /\ newCall.op \in Tools[p] /\ calls < MaxCalls
  /\ calls' = calls + 1
  /\ call' = [call EXCEPT ![p] = newCall]
  /\ apart' = (apart /\ live[p] = config /\ (\A q \in Procs : Idle(q))
               /\ newCall.op \notin {"undo", "restore"})

Becomes(p, newCall) == call' = [call EXCEPT ![p] = newCall] /\ UNCHANGED <<apart, calls>>
Ends(p) == Becomes(p, None)
EndsBadly(p) == call' = [call EXCEPT ![p] = None] /\ apart' = FALSE /\ UNCHANGED calls

(* The vault is changed by the call that leads to origin[id].              *)
Touch(id) == origin' = [i \in Ids |-> IF i = id THEN origin[i] ELSE None]

(* persist_config_or_revert.                                               *)
Persist(p, c) ==
  /\ live' = [live EXCEPT ![p] = c]
  /\ config' = c

-----------------------------------------------------------------------------
(* Anybody else: a patch of an open chat thread, the user's editor.        *)

EditNote(s, n) ==
  /\ In(s, n) /\ edits < MaxEdits
  /\ edits' = edits + 1
  /\ vault' = [vault EXCEPT ![s] =
       {IF m.name = n THEN [m EXCEPT !.text = edits'] ELSE m : m \in @}]
  /\ latest' = [latest EXCEPT ![n] = edits']
  /\ forfeit' = forfeit \ {n}
  /\ Touch(None)
  /\ UNCHANGED <<trash, records, config, live, call, reached, apart, calls, faults>>

(* VaultWriter makes the folder of a note it creates: a patch for a domain *)
(* that was renamed or deleted brings it back.                             *)
AddNote(s, n) ==
  /\ s \in Scopes /\ edits < MaxEdits
  /\ n \notin NamesIn(NotesOf(vault)) /\ latest[n] = 0 /\ n \notin NamesIn(NotesOf(FirstVault))
  /\ edits' = edits + 1
  /\ vault' = [vault EXCEPT ![s] =
       (IF @ = None THEN {} ELSE @) \cup {[name |-> n, dom |-> s, link |-> None, text |-> edits']}]
  /\ latest' = [latest EXCEPT ![n] = edits']
  /\ Touch(None)
  /\ apart' = (apart /\ Exists(s))
  /\ UNCHANGED <<trash, records, config, live, call, forfeit, reached, calls, faults>>

(* ConfigWatcher.                                                          *)
Reload(p) ==
  /\ Idle(p) /\ live[p] # Loaded
  /\ live' = [live EXCEPT ![p] = Loaded]
  /\ UNCHANGED <<files, config, call, ghosts, apart, calls, counters>>
-----------------------------------------------------------------------------
(* brain_create_domain.                                                    *)

(* mkdir; two calls for one slug cannot both make the folder.              *)
Create(p, s) ==
  /\ s \notin live[p].domains /\ ~Exists(s)
  /\ Begins(p, NewCall("create", "seed", calls + 1, s, s, {}))
  /\ vault' = [vault EXCEPT ![s] = {}]
  /\ Touch(None)
  /\ UNCHANGED <<trash, records, config, live, latest, forfeit, reached, counters>>

Creating(p) == ~Idle(p) /\ call[p].op = "create" /\ call[p].pc = "seed"

(* MUTANT: the slug is not added to the Config. *)
CreateSaves_Not(p) ==
  /\ Creating(p)
  /\ Ends(p)
  /\ UNCHANGED <<files, config, live, ghosts, counters>>

CreateSaves(p) ==
  /\ Creating(p)
  /\ Persist(p, [live[p] EXCEPT !.domains = @ \cup {call[p].from}])
  /\ Ends(p)
  /\ UNCHANGED <<files, latest, forfeit, origin, reached, counters>>

(* An OSError: from a seed file, and rmtree takes the folder away again    *)
(* with whatever it holds; or from save_config, and the folder stays.      *)
CreateFails(p) ==
  LET c == call[p] IN
  /\ Creating(p)
  /\ Fault
  /\ \/ /\ vault' = [vault EXCEPT ![c.from] = None]
        /\ forfeit' = forfeit \cup IF Exists(c.from) THEN NamesIn(vault[c.from]) ELSE {}
        /\ Touch(None)
     \/ UNCHANGED <<vault, forfeit, origin>>
  /\ EndsBadly(p)
  /\ UNCHANGED <<trash, records, config, live, latest, reached, edits>>
-----------------------------------------------------------------------------
(* brain_rename_domain.                                                    *)

PathsOf(slugs) == {[slug |-> s, note |-> m] : s \in {t \in slugs : Exists(t)}, m \in NotesOf(vault)}
Walk(slugs) == {x \in PathsOf(slugs) : x.note \in vault[x.slug]}
Here(x) == CHOOSE m \in vault[x.slug] : m.name = x.note.name

RenameStarts(p, a, b) ==
  /\ a # personal /\ b # personal /\ a # b
  /\ b \notin live[p].domains /\ Exists(a) /\ ~Exists(b)
  /\ Begins(p, NewCall("rename", "own", calls + 1, a, b, Walk({a})))
  /\ origin' = [origin EXCEPT ![calls + 1] = vault]
  /\ UNCHANGED <<files, config, live, latest, forfeit, reached, counters>>

(* What the walk of this phase still rewrites: the domain field of the     *)
(* notes of the folder, then the links of the notes outside.  A note that  *)
(* is gone (OSError from read_text) is passed over.                        *)
Rewritten(c, m) == IF c.pc = "own" THEN [m EXCEPT !.dom = c.to] ELSE [m EXCEPT !.link = c.to]
Concerns(c, m) == IF c.pc = "own" THEN m.dom = c.from ELSE m.link = c.from
Hits(c) == {x \in c.todo : In(x.slug, x.note.name) /\ Concerns(c, Here(x))}

Walking(p) == ~Idle(p) /\ call[p].op = "rename" /\ call[p].pc \in {"own", "links"}

(* MUTANT: the record gets the note as it is after the rewrite. *)
Recorded_Late(c, m) == Rewritten(c, m)
(* What the undo record keeps of a note: all it held before.               *)
Recorded(c, m) == m

(* read_text of the next note.                                             *)
ReadNote(p) ==
  LET c == call[p]  x == CHOOSE y \in Hits(c) : TRUE  m == Here(x) IN
  /\ Walking(p) /\ c.read = None /\ Hits(c) # {}
  /\ Becomes(p, [c EXCEPT !.todo = @ \ {x}, !.read = [slug |-> x.slug, note |-> m],
                          !.edits = @ \cup {[slug |-> x.slug, note |-> Recorded(c, m)]}])
  /\ UNCHANGED <<files, config, live, ghosts, counters>>

(* _atomic_write of what was read: it makes the folder if that is gone.    *)
ReplaceNote(p) ==
  LET c == call[p]  x == c.read IN
  /\ Walking(p) /\ c.read # None
  /\ vault' = [vault EXCEPT ![x.slug] = Put(IF @ = None THEN {} ELSE @, Rewritten(c, x.note))]
  /\ forfeit' = forfeit \cup (IF latest[x.note.name] = x.note.text THEN {} ELSE {x.note.name})
  /\ Becomes(p, [c EXCEPT !.read = None])
  /\ Touch(c.id)
  /\ UNCHANGED <<trash, records, config, live, latest, reached, counters>>

(* The walk over the folder ends, the one over the others begins.          *)
LinksStart(p) ==
  LET c == call[p] IN
  /\ Walking(p) /\ c.pc = "own" /\ c.read = None /\ Hits(c) = {}
  /\ Becomes(p, [c EXCEPT !.pc = "links", !.todo = Walk(Slugs \ {c.from})])
  /\ UNCHANGED <<files, config, live, ghosts, counters>>

(* The commit point: os.rename.                                            *)
MoveFolder(p) ==
  LET c == call[p] IN
  /\ Walking(p) /\ c.pc = "links" /\ c.read = None /\ Hits(c) = {}
  /\ Exists(c.from) /\ ~Exists(c.to)
  /\ vault' = [vault EXCEPT ![c.from] = None, ![c.to] = vault[c.from]]
  /\ Becomes(p, [c EXCEPT !.pc = "save", !.todo = {}])
  /\ Touch(c.id)
  /\ UNCHANGED <<trash, records, config, live, latest, forfeit, reached, counters>>

(* MUTANT: the active domain does not follow. *)
Renamed_KeepsActive(cfg, a, b) == [cfg EXCEPT !.domains = (@ \ {a}) \cup {b}]

Renamed(cfg, a, b) ==
  [domains |-> (cfg.domains \ {a}) \cup {b}, active |-> IF cfg.active = a THEN b ELSE cfg.active]

RenameSaves(p) ==
  LET c == call[p] IN
  /\ ~Idle(p) /\ c.op = "rename" /\ c.pc = "save"
  /\ Persist(p, Renamed(live[p], c.from, c.to))
  /\ Becomes(p, [c EXCEPT !.pc = "record"])
  /\ UNCHANGED <<files, latest, forfeit, origin, reached, counters>>

RenameRecords(p) ==
  LET c == call[p] IN
  /\ ~Idle(p) /\ c.op = "rename" /\ c.pc = "record"
  /\ records' = [records EXCEPT ![c.id] =
       [kind |-> "rename", from |-> c.from, to |-> c.to, edits |-> c.edits]]
  /\ Ends(p)
  /\ UNCHANGED <<vault, trash, config, live, ghosts, counters>>

(* An OSError of a write, of os.rename, of the save: what is done stays    *)
(* done, and there is no record of it.                                     *)
RenameFails(p) ==
  LET c == call[p] IN
  /\ ~Idle(p) /\ c.op = "rename"
  /\ \/ /\ Fault
        /\ c.pc \in {"own", "links"} => c.read # None \/ Hits(c) = {}
     \/ /\ c.pc = "links" /\ c.read = None /\ Hits(c) = {}
        /\ (~Exists(c.from) \/ Exists(c.to)) /\ UNCHANGED faults
  /\ EndsBadly(p)
  /\ UNCHANGED <<files, config, live, ghosts, edits>>
-----------------------------------------------------------------------------
(* brain_delete_domain.                                                    *)

(* Its guards, and shutil.move into a folder of .brain/trash of its own.   *)
Delete(p, s) ==
  /\ s # personal /\ s \in Deletable
  /\ Cardinality(live[p].domains \ {personal}) > 1
  /\ live[p].active # s /\ Exists(s)
  /\ Begins(p, NewCall("delete", "record", calls + 1, s, s, {}))
  /\ trash' = [trash EXCEPT ![calls + 1] = vault[s]]
  /\ vault' = [vault EXCEPT ![s] = None]
  /\ origin' = [i \in Ids |-> IF i = calls + 1 THEN vault ELSE None]
  /\ UNCHANGED <<records, config, live, latest, forfeit, reached, counters>>

DeleteRecords(p) ==
  LET c == call[p] IN
  /\ ~Idle(p) /\ c.op = "delete" /\ c.pc = "record"
  /\ records' = [records EXCEPT ![c.id] = [kind |-> "delete", from |-> c.from]]
  /\ Becomes(p, [c EXCEPT !.pc = "save"])
  /\ UNCHANGED <<vault, trash, config, live, ghosts, counters>>

(* A folder that is not configured: nothing to save.                       *)
DeleteSaves(p) ==
  LET c == call[p] IN
  /\ ~Idle(p) /\ c.op = "delete" /\ c.pc = "save"
  /\ IF c.from \in live[p].domains THEN Persist(p, [live[p] EXCEPT !.domains = @ \ {c.from}])
                                   ELSE UNCHANGED <<live, config>>
  /\ Ends(p)
  /\ UNCHANGED <<files, latest, forfeit, origin, reached, counters>>

DeleteFails(p) ==
  /\ ~Idle(p) /\ call[p].op = "delete"
  /\ Fault
  /\ EndsBadly(p)
  /\ UNCHANGED <<files, config, live, ghosts, edits>>
-----------------------------------------------------------------------------
(* brain_undo_last on one of these records, the last one or one by its id. *)

Undoes(p, id, newCall) ==
  /\ records[id] # None
  /\ Begins(p, newCall)
  /\ UNCHANGED <<records, config, live, latest, forfeit, counters>>

(* _revert_delete_domain; it raises when the trash is gone or the original *)
(* is there.                                                               *)
UndoDelete(p, id) ==
  LET s == records[id].from IN
  /\ Idle(p) /\ "undo" \in Tools[p] /\ records[id] # None /\ records[id].kind = "delete"
  /\ trash[id] # None /\ ~Exists(s) /\ calls < MaxCalls
  /\ vault' = [vault EXCEPT ![s] = trash[id]]
  /\ trash' = [trash EXCEPT ![id] = None]
  /\ calls' = calls + 1 /\ apart' = FALSE
  /\ Touch(id) /\ reached' = id
  /\ UNCHANGED <<records, config, live, call, latest, forfeit, counters>>

(* _revert_rename_domain: the folder goes back, unless the old name is     *)
(* taken again or the new one is gone ...                                  *)
UndoRename(p, id) ==
  LET r == records[id] IN
  /\ records[id] # None /\ r.kind = "rename"
  /\ Undoes(p, id, NewCall("undo", "files", id, r.from, r.to, r.edits))
  /\ vault' = IF Exists(r.to) /\ ~Exists(r.from)
              THEN [vault EXCEPT ![r.from] = vault[r.to], ![r.to] = None] ELSE vault
  /\ Touch(id)
  /\ UNCHANGED <<trash, reached>>

(* ... then every note it rewrote gets its old text, whatever it has now,  *)
(* or is made again.                                                       *)
UndoNote(p) ==
  LET c == call[p]  x == CHOOSE y \in c.todo : TRUE IN
  /\ ~Idle(p) /\ c.op = "undo" /\ c.todo # {} /\ Exists(x.slug)
  /\ vault' = [vault EXCEPT ![x.slug] = Put(@, x.note)]
  /\ forfeit' = forfeit \cup
       (IF latest[x.note.name] = x.note.text THEN {} ELSE {x.note.name})
  /\ Becomes(p, [c EXCEPT !.todo = @ \ {x}])
  /\ Touch(c.id)
  /\ UNCHANGED <<trash, records, config, live, latest, reached, counters>>

UndoEnds(p) ==
  /\ ~Idle(p) /\ call[p].op = "undo" /\ call[p].todo = {}
  /\ reached' = call[p].id
  /\ Ends(p)
  /\ UNCHANGED <<files, config, live, latest, forfeit, origin, counters>>

(* A write fails, or its folder is not there.                              *)
UndoFails(p) ==
  LET c == call[p]  x == CHOOSE y \in c.todo : TRUE IN
  /\ ~Idle(p) /\ c.op = "undo" /\ c.todo # {}
  /\ IF Exists(x.slug) THEN Fault ELSE UNCHANGED faults
  /\ EndsBadly(p)
  /\ UNCHANGED <<files, config, live, ghosts, edits>>
-----------------------------------------------------------------------------
DomainStep(p) ==
  \/ CreateSaves(p) \/ CreateFails(p)
  \/ ReadNote(p) \/ ReplaceNote(p) \/ LinksStart(p) \/ MoveFolder(p)
  \/ RenameSaves(p) \/ RenameRecords(p) \/ RenameFails(p)
  \/ DeleteRecords(p) \/ DeleteSaves(p) \/ DeleteFails(p)
  \/ UndoNote(p) \/ UndoEnds(p) \/ UndoFails(p)

DomainNext ==
  \/ \E s \in Slugs, n \in Names : EditNote(s, n) \/ AddNote(s, n)
  \/ \E p \in Procs :
       \/ Reload(p) \/ DomainStep(p)
       \/ \E s \in Slugs : Create(p, s) \/ Delete(p, s)
       \/ \E a, b \in Slugs : RenameStarts(p, a, b)
       \/ \E id \in Ids : UndoDelete(p, id) \/ UndoRename(p, id)
=============================================================================
