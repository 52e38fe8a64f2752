---------------------------- MODULE VaultBackup -----------------------------
(***************************************************************************)
(* create_snapshot and restore_from_snapshot (backup.py) beside the tools  *)
(* that change the domains, and the process deaths all of them meet.       *)
(*                                                                         *)
(* A snapshot is a walk too, written to the archive's final name: .brain   *)
(* (config.json, the trash, the undo records), then folder after folder.   *)
(* A restore moves everything into a folder beside the vault, item by      *)
(* item, and then extracts item by item.  An item is a domain's folder or  *)
(* what is in .brain.                                                      *)
(***************************************************************************)
EXTENDS Domains

VARIABLES
  snaps,  \* id of a snapshot -> the archive
  aside   \* notes in the <vault>-pre-restore-<ts> folders

vars == <<domainVars, snaps, aside>>

Brain == [config |-> config, trash |-> trash, records |-> records]
Nothing == [config |-> None, trash |-> [i \in Ids |-> None], records |-> [i \in Ids |-> None]]
Empty == [vault |-> [s \in Slugs |-> None], brain |-> Nothing, readable |-> FALSE]

InBrain == "brain"

ASSUME BackupAssumption == InBrain \notin Slugs

Items == {InBrain} \cup {s \in Slugs : Exists(s)}
Trashed(t) == UNION {t[i] : i \in {j \in Ids : t[j] # None}}
Prior(r) == {x.note : x \in UNION {r[i].edits : i \in {j \in Ids : r[j] # None /\ r[j].kind = "rename"}}}

Running(p, op) == ~Idle(p) /\ call[p].op = op
-----------------------------------------------------------------------------
(* create_snapshot.  The names in the vault are listed first.              *)

SnapshotStarts(p) ==
  /\ Begins(p, NewCall("snapshot", "pack", calls + 1, None, None, Items))
  /\ snaps' = [snaps EXCEPT ![calls + 1] = Empty]
  /\ origin' = [origin EXCEPT ![calls + 1] = vault]
  /\ UNCHANGED <<files, config, live, latest, forfeit, reached, counters, aside>>

NextItem(todo) == IF InBrain \in todo THEN InBrain ELSE CHOOSE s \in todo : TRUE

Packed(image, i) ==
  IF i = InBrain THEN [image EXCEPT !.brain = Brain] ELSE [image EXCEPT !.vault[i] = vault[i]]

Pack(p) ==
  LET c == call[p]  i == NextItem(c.todo) IN
  /\ Running(p, "snapshot") /\ c.todo # {}
  /\ i # InBrain => Exists(i)
  /\ snaps' = [snaps EXCEPT ![c.id] = Packed(@, i)]
  /\ Becomes(p, [c EXCEPT !.todo = @ \ {i}])
  /\ UNCHANGED <<files, config, live, ghosts, counters, aside>>

PackEnds(p) ==
  /\ Running(p, "snapshot") /\ call[p].todo = {}
  /\ snaps' = [snaps EXCEPT ![call[p].id].readable = TRUE]
  /\ Ends(p)
  /\ UNCHANGED <<files, config, live, ghosts, counters, aside>>

(* A folder that has gone, or an OSError: the archive is closed as it is   *)
(* and keeps its name, and it can be read.                                 *)
PackFails(p) ==
  LET c == call[p]  i == NextItem(c.todo) IN
  /\ Running(p, "snapshot") /\ c.todo # {}
  /\ IF i = InBrain \/ Exists(i) THEN Fault
                                 ELSE UNCHANGED faults
  /\ snaps' = [snaps EXCEPT ![c.id].readable = TRUE]
  /\ origin' = [origin EXCEPT ![c.id] = None]
  /\ EndsBadly(p)
  /\ UNCHANGED <<files, config, live, latest, forfeit, reached, edits, aside>>
-----------------------------------------------------------------------------
(* restore_from_snapshot.                                                  *)

(* The integrity check: getmembers raises for an archive that was cut      *)
(* short.                                                                  *)
RestoreStarts(p, id) ==
  /\ snaps[id] # None /\ snaps[id].readable
  /\ Begins(p, [NewCall("restore", "aside", calls + 1, None, None, Items) EXCEPT !.read = id])
  /\ origin' = [origin EXCEPT ![calls + 1] = snaps[id].vault]
  /\ UNCHANGED <<files, config, live, latest, forfeit, reached, counters, snaps, aside>>

MovesAside(p, brain) ==
  LET c == call[p] IN
  /\ Running(p, "restore") /\ c.pc = "aside"
  /\ \E i \in c.todo :
       /\ Becomes(p, [c EXCEPT !.todo = @ \ {i}])
       /\ IF i = InBrain
          THEN /\ config' = None /\ trash' = Nothing.trash /\ records' = Nothing.records
               /\ aside' = aside \cup brain
               /\ UNCHANGED vault
          ELSE /\ Exists(i)
               /\ vault' = [vault EXCEPT ![i] = None]
               /\ aside' = aside \cup vault[i]
               /\ UNCHANGED <<trash, records, config>>
  /\ Touch(c.id)
  /\ UNCHANGED <<live, latest, forfeit, reached, counters, snaps>>

(* MUTANT: the trash is emptied. *)
MoveAside_EmptiesTrash(p) == MovesAside(p, Prior(records))

MoveAside(p) == MovesAside(p, Trashed(trash) \cup Prior(records))

ExtractStarts(p) ==
  LET c == call[p] IN
  /\ Running(p, "restore") /\ c.pc = "aside" /\ c.todo = {}
  /\ Becomes(p, [c EXCEPT !.pc = "extract",
       !.todo = {InBrain} \cup {s \in Slugs : snaps[c.read].vault[s] # None}])
  /\ UNCHANGED <<files, config, live, ghosts, counters, snaps, aside>>

(* Files that are in the way are overwritten, others stay.                 *)
Over(f, g) == [i \in DOMAIN f |-> IF g[i] = None THEN f[i] ELSE g[i]]
Merge(folder, image) == {m \in folder : m.name \notin NamesIn(image)} \cup image

Extract(p) ==
  LET c == call[p]  i == NextItem(c.todo)  image == snaps[c.read] IN
  /\ Running(p, "restore") /\ c.pc = "extract" /\ c.todo # {}
  /\ IF i = InBrain
     THEN /\ config' = IF image.brain.config = None THEN config ELSE image.brain.config
          /\ trash' = Over(trash, image.brain.trash)
          /\ records' = Over(records, image.brain.records)
          /\ UNCHANGED <<vault, forfeit>>
     ELSE /\ vault' = [vault EXCEPT ![i] =
               IF @ = None THEN image.vault[i] ELSE Merge(@, image.vault[i])]
          /\ forfeit' = forfeit \cup
               IF Exists(i) THEN NamesIn(vault[i]) \cap NamesIn(image.vault[i]) ELSE {}
          /\ UNCHANGED <<trash, records, config>>
  /\ Becomes(p, [c EXCEPT !.todo = @ \ {i}])
  /\ Touch(c.id)
  /\ UNCHANGED <<live, latest, reached, counters, snaps, aside>>

RestoreEnds(p) ==
  /\ Running(p, "restore") /\ call[p].pc = "extract" /\ call[p].todo = {}
  /\ reached' = call[p].id
  /\ Ends(p)
  /\ UNCHANGED <<files, config, live, latest, forfeit, origin, counters, snaps, aside>>

(* shutil.move or extract raises: nothing is put back.                     *)
RestoreFails(p) ==
  LET c == call[p] IN
  /\ Running(p, "restore") /\ c.todo # {}
  /\ \/ /\ Fault
     \/ /\ c.pc = "aside" /\ \E i \in c.todo \ {InBrain} : ~Exists(i)
        /\ UNCHANGED faults
  /\ EndsBadly(p)
  /\ UNCHANGED <<files, config, live, ghosts, edits, snaps, aside>>
-----------------------------------------------------------------------------
(* A process dies in a call and starts again.  A snapshot it was writing   *)
(* is cut short.                                                           *)
Die(p) ==
  /\ ~Idle(p) /\ Fault
  /\ EndsBadly(p)
  /\ live' = [live EXCEPT ![p] = Loaded]
  /\ UNCHANGED <<files, config, ghosts, edits, snaps, aside>>

InitBackup == Init /\ snaps = [i \in Ids |-> None] /\ aside = {}

BackupStep(p) ==
  \/ Pack(p) \/ PackEnds(p) \/ PackFails(p)
  \/ MoveAside(p) \/ ExtractStarts(p) \/ Extract(p) \/ RestoreEnds(p) \/ RestoreFails(p)

Exhausted == calls = MaxCalls /\ (\A p \in Procs : Idle(p)) /\ UNCHANGED vars

Next ==
  \/ DomainNext /\ UNCHANGED <<snaps, aside>>
  \/ \E p \in Procs :
       \/ SnapshotStarts(p) \/ BackupStep(p) \/ Die(p)
       \/ \E id \in Ids : RestoreStarts(p, id)
  \/ Exhausted

Spec == InitBackup /\ [][Next]_vars
-----------------------------------------------------------------------------
(* Properties.                                                             *)

Call == {c \in {call[p] : p \in Procs} : c # None}

(* The type invariant, and where a call in the middle of its walk is.      *)
TypeOK ==
  /\ vault \in Vaults
  /\ trash \in [Ids -> {None} \cup Folder]
  /\ records \in [Ids -> {None} \cup Record]
  /\ config \in {None} \cup Config
  /\ live \in [Procs -> Config]
  /\ \A c \in Call :
       /\ c.op \in {"create", "rename", "delete", "undo", "snapshot", "restore"}
       /\ c.edits \subseteq Path
       /\ c.op \in {"rename", "undo"} => c.todo \subseteq Path /\ c.read \in {None} \cup Path
       /\ c.op \in {"snapshot", "restore"} => c.todo \subseteq Slugs \cup {InBrain}
  /\ latest \in [Names -> Text] /\ forfeit \subseteq Names
  /\ origin \in [Ids -> {None} \cup Vaults]
  /\ reached \in Ids \cup {None} /\ apart \in BOOLEAN
  /\ aside \subseteq Note

(* Nothing is ever removed for good: the latest text of every note is in   *)
(* the vault, the trash, the record of a rename, or beside the vault, in   *)
(* every state, whatever fails or dies.  Apart from the texts a rename or  *)
(* an undo wrote over, and the folder of a create that failed.             *)
Kept == NotesOf(vault) \cup Trashed(trash) \cup aside \cup Prior(records)
NothingLost ==
  \A n \in Names \ forfeit :
    latest[n] > 0 \/ n \in NamesIn(NotesOf(FirstVault)) =>
      \E m \in Kept : m.name = n /\ m.text = latest[n]

(* An undo that has ended has brought back the vault the call found, an    *)
(* archive that is readable holds the vault as it was, and a restore that  *)
(* has ended has brought back the vault of its archive, unless somebody    *)
(* else has written in between.                                            *)
OpsReturn ==
  /\ reached # None /\ origin[reached] # None => vault = origin[reached]
  /\ \A i \in Ids :
       snaps[i] # None /\ snaps[i].readable /\ origin[i] # None => snaps[i].vault = origin[i]

(* Calls that ran one after the other to their end leave the Config with   *)
(* the folders there are.                                                  *)
ConfigFollows ==
  apart /\ (\A p \in Procs : Idle(p)) => config.domains = {s \in Slugs : Exists(s)}

=============================================================================
