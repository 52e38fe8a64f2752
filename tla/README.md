# A verification model of brain

brain keeps a Markdown vault, fills it through LLM-driven ingest and chat, and
serves it from several processes at once: `brain_api` (HTTP and WebSocket, for
the web UI), `brain_mcp` (the Claude Desktop server) and `brain` (the command
line). They share one directory and no server: notes, catalogue, undo records,
approval queue, configuration and chat threads are files, written by whoever
holds a path to them. What can go wrong is therefore mostly what happens
*between* two file-system effects: another process, an exception, the death of
the process, a debounce timer, an answer of the LLM that comes late.

This directory holds TLA+ models of those parts, TLC runs of them on small
instances, and TLAPS proofs for every value of the constants. All paths below
are relative to the repository; `core/` stands for
`src/packages/brain_core/src/brain_core/`, `api/`, `cli/` and `mcp/` for the
packages `brain_api`, `brain_cli` and `brain_mcp`.

1. [Inventory](#1-inventory)
2. [Modules and how they correspond to the code](#2-modules-and-how-they-correspond-to-the-code)
3. [Runs](#3-runs)
4. [Bounds](#4-bounds)
5. [Fairness](#5-fairness)
6. [Proofs](#6-proofs)
7. [Where the code and its own words part](#7-where-the-code-and-its-own-words-part)
8. [What is not modelled](#8-what-is-not-modelled)
9. [Plan](#9-plan)

To repeat a run: `tlc -workers 2 -config VaultWriter_core.cfg MCVaultWriter.tla`;
to repeat a proof: `tlapm FolderSyncProofs.tla`.

## 1. Inventory

For each component: what it keeps, what it does, whom it meets, what is hard,
and what it has to get right. The names are those of `PROJECT.json`.

### Modelled

**VaultWriter** (`core/vault/writer.py`, `paths.py`, `types.py`, `index.py`,
`log.py`). State: the notes, each domain's `index.md` and `log.md`,
`.brain/undo/<id>.txt`, a file lock. Operations: `apply(PatchSet)` and
`rename_file`. Everything that writes a note in bulk goes through it: approved
patches, ingest, orphan marks. Hard: apply is some ten file-system effects
under one lock and promises atomicity without a journal; a rollback can raise;
`UndoLog.revert` takes no lock. Correct when a call that raises leaves the
notes as they were, the undo record at every moment covers what has been
changed, no entry of a catalogue is lost, and every call ends.

**UndoLog and `brain_undo_last`** (`core/vault/undo.py`, `tools/undo_last.py`).
State: the undo files. Operations: `revert(id)`, and revert of the last id.
Hard: it runs beside writers. Correct when reverting an id gives back the notes
from before its call. The two record kinds of the domain tools are modelled with
the domains.

**PendingPatchStore** (`core/chat/pending.py`, `tools/propose_note.py`,
`apply_patch.py`, `reject_patch.py`, ...; `cli/commands/patches.py`). State:
one JSON envelope per patch in `.brain/pending/`, `applied/` or `rejected/`.
Operations: put, apply (through VaultWriter, then `mark_applied`), reject,
list, get. Hard: no lock at all; a move is read, write a temporary file, replace,
rename; processes and deaths fall between. Correct when no staged patch is lost,
what lies in `applied/` is in the vault, and a patch that has left the queue
stays out.

**Config store** (`core/config/writer.py`, `loader.py`, `hot_reload.py`;
`tools/config_set.py`; `api/app.py`; `mcp/__main__.py`, `server.py`). State:
`config.json`, its backup, its lock; in every process a live `Config`, a cache of
it, a watcher with a debounce timer and reload threads. Operations: save (or
revert memory), load with fallbacks, reload. Hard: a setting is assigned to the
*live* object first and saved second, while a reload may replace that object;
two processes save from two memories. Correct when memory never keeps what the
file never had, a save changes only its own setting, and every process comes to
see the file.

**Watched folders** (`core/watch/folder_watcher.py`, `core/ingest/pipeline.py`,
`tools/resync_folder.py`, `restore_orphan.py`, `delete_orphan.py`). State: the
user's files, the source notes, per process the debounce timers, the
source-to-note cache and the running jobs; `ingest_history`. Operations: event
handlers for create, modify, delete, move; ingest, update_source, mark_orphaned;
resync; restart of a watcher. Hard: everything is concurrent with everything
(debounce threads, coroutines, two processes, the user's editor and the user's
notes), a job waits for the LLM between its read and its write. Correct when
the last change of a file shows in its note or in the history, no edit of a
note that nobody read is overwritten, and everything ends.

**Chat** (`api/routes/chat.py`, `api/chat/session_runner.py`,
`core/chat/session.py`, `persistence.py`). State: per WebSocket a receive loop, a
turn task, a session with the turns in memory; per thread one Markdown file.
Operations: connect, turn start, mode switch, cancel, disconnect. Hard: the
turn is an async generator cancelled at any `await`; what it appends in a
`finally` is saved by somebody else later; every save rewrites the whole file
from one socket's memory. Correct when an answered turn is in the file, a closed
socket has left all its turns there, a turn is asked with the ones before it,
and a socket whose client has gone is cleaned up.

**Domains** (`core/vault/domain.py`, `tools/create_domain.py`,
`rename_domain.py`, `delete_domain.py`, the domain records of `vault/undo.py`).
State: the folder of each domain, `Config`, `.brain/trash`, the undo record.
Each tool changes them in turn, without the vault lock, and each step can fail;
a rename also rewrites the notes one by one before the folder moves. Correct
when no text is lost for good, calls that end leave the configuration with the
folders there are, and an undo gives back the vault its call found.

**Backup and restore** (`core/backup.py`). State: the vault, the archives, the
folder a restore moves the vault into. Operations: `create_snapshot`,
`restore_from_snapshot`. Hard: both walk a vault that others write, item by
item. Correct when a restore that fails leaves every note somewhere, a finished
archive holds the vault, and a finished restore gives it back.

**Daemon lifecycle** (`cli/commands/start.py`, `stop.py`,
`cli/runtime/supervisor.py`, `pidfile.py`, `portprobe.py`). State: pid file,
port file, the processes and ports of the machine. Hard: each command is check
then act, with no lock, over a pid that may have been given away. Correct when
at most one daemon runs and the files lead to it.

**Upgrade, install swap, migrations, uninstall** (`cli/commands/upgrade.py`,
`uninstall.py`, `cli/runtime/swap.py`, `migrator.py`). State: install, staging
and previous directories, the schema of the database. Hard: two renames with a
gap, a migration of the live database before them, clean-up on every error path.
Correct when the installed version is never lost and code and schema fit.

**Web UI: the chat screens** (`src/apps/brain_web/src/lib/state/chat-store.ts`,
`lib/ws/client.ts`, `lib/ws/hooks.ts`, `components/chat/`). State: one transcript
with its streaming text and flag, a reconnecting socket per screen. Operations:
open a thread, send, stop, the frames of a turn, loss and retry of the
connection. Hard: timers and close events of a socket outlive its screen, and a
cancel crosses the end of its turn on the wire. Correct when one socket feeds
the transcript, every message holds its own turn's text, and neither the
composer nor the connection is stuck.

### Not modelled (section 8 says why, section 9 what comes next)

**Rate limiter, cost ledger, budgets, autonomy** (`core/rate_limit.py`,
`cost/`, `budget/`, `autonomy.py`). State: two token buckets, the ledger.

**Bulk import, dispatcher, handlers, classifier, OCR** (`core/ingest/`). A
sequential walk over files; each goes through the ingest job.

**LLM providers** (`core/llm/`). An external service behind an interface.

**Search, indexing, note parsing, lint** (`core/chat/retrieval.py`,
`core/vault/frontmatter.py`, `wikilinks.py`, ...). Reads and pure text functions.

**Paths and the scope guard**, **state database** (`core/state/db.py`), **HTTP
API**, **MCP server**, **Claude Desktop integration**, **diagnosis and repair of
config.json**, the other stores of the **web UI**. Transport, single-actor file
edits, or clients of the tools above; the part of them that starts watchers and
reloads configuration is in `ConfigStore` and `FolderSync`.

### How they meet

A chat turn, `brain_propose_note` or ingest stages a patch in the *pending
queue* (or, when the autonomy gate lets it, goes on at once); approving it calls
the *VaultWriter*, which leaves an *undo record*. A *watched folder* turns a
file-system event into a job that ends in the VaultWriter too. `brain_config_set`
and the folder and domain tools save through the *config store*, whose watcher
in every other process swaps the live configuration and may restart the *folder
watcher*. The *domain tools*, a *snapshot* and a *restore* go past VaultWriter to
the same folders, and a restore also takes away `.brain/run`, by which `brain
start` and an *upgrade* know the daemon. The *chat screens* are the other end of a
chat socket. Among the writers of notes, VaultWriter is the bottom of the stack; the modules above it use its
contract (a patch lands whole or raises, one at a time), which is the abstract
specification `AtomicVault`.

## 2. Modules and how they correspond to the code

`PROJECT.json` maps every definition that models code to its lines. In all modules a process's
place in a call is its `pc`; an action is what the code does between two
points where another process, an error or a death can come in.

| module | what it is |
|---|---|
| `VaultWriter` | apply, rename_file, revert, undo_last, step by step |
| `AtomicVault` | what VaultWriter promises: the vault changes by whole patches and whole renames |
| `VaultWriterAtomic` | what disturbs the promise, and the refinement mapping |
| `PendingPatches` | the approval queue |
| `ConfigStore` | config.json, its copies in memory, the reload |
| `FolderSync` | a watched folder, its events and the jobs on its notes |
| `ChatSocket` | a chat thread, its sockets and their turns |
| `Domains` | the domain tools, their undo, and whoever else writes notes |
| `VaultBackup` | extends `Domains` with snapshot, restore and the death of a process |
| `Lifecycle` | start and stop of the daemon, its two files, the processes of the machine |
| `Upgrade` | extends `Lifecycle` with upgrade, the swap of the install, uninstall |
| `WebChat` | a browser tab on the chat screens against the server's receive loop |
| `MC...` | the instances for TLC |
| `...Proofs` | the theorems |

**VaultWriter.** `notes`, `index`, `log`, `undo` are the files. A call of apply
runs `Apply` (argument checks, undo id), `Acquire` or `AcquireTimeout`, then for
each file of the patch `PlanNewFile`/`PlanEdit`, `WriteRecord` (the undo file,
rewritten whole), `Mutate` (the temporary file and `os.replace`); then
`LoadIndex`/`SaveIndex` per entry, `AppendLog`, `BeginSeal` and `Seal`. `EditFails`
and `IOError` leave for `Rollback`, one note a step, and `Reraise`. Renaming is `RenameFile`, `RenameAcquire`, `Move`,
`WriteRenameRecord`. `Revert` walks the records in the order of the file (`RevertNew` unlinks,
`RevertPrev` and `Rewrite` truncate and write), with no lock. `Die` ends a call anywhere;
the operating system drops the lock. Text is a set of fragments, so that
`old in prev` and `replace` keep their meaning. History variables: `before` (the
notes when the lock was taken), `tainted` (what has happened to a call that
excuses it from a promise: a new file over an existing note, a rollback step
that raised, a revert beside it, a torn undo file, a path named twice) and
`last`.

**PendingPatches.** An envelope is its status. `Put`/`Stage` is propose;
`Apply` reads it, `Land` is VaultWriter's commit (a patch lands or raises),
`MarkApplied` and `Reject` enter the mover `Rewrite` (temporary file) →
`Replace` (`os.replace` onto the source) → `Rename` (into the folder). The
temporary file is shared: its name depends on the id alone. `shared` and `cut`
record the ids two calls worked on at once, and those whose apply died.

**ConfigStore.** `Set` assigns the field in the live object and takes the
snapshot, `Acquire`/`LockTimeout`, `Backup`, `Replace`, `Saved`; `SaveFails` and
`Revert` put memory back. `Replace` arms every running watcher; `Fire` is the
timer (a reload thread reads the file), `Install` the callback that swaps the
live object, at once in `brain_api`, by dropping the tool context in `brain_mcp`
(`Lazy`), which `BuildContext` makes again. `held` keeps the object a call still
has a reference to after a reload has replaced it: that reference is what makes
the interleaving interesting.

**FolderSync.** `Save`, `Remove`, `Rename`, `EditNote` are the user. `Observe`
delivers an event to every running watcher; one timer per path holds the last
event. `Dispatch` fires a timer and runs the handler (`HandleCreate`,
`HandleModify`, `HandleGone`, `HandleUnmapped`), which begins a job in a slot.
A job goes through `read`, `llm`, `apply`: `IngestRead` (extraction and duplicate
check), `IngestCheck` (the title chosen by the LLM gives the slug),
`IngestLand`, or `IngestUnanswered`/`Fail`/`IngestRollsBack`; `EditRead` and
`EditLand`/`EditRefused` for update, mark and restore, `DeleteMove` for delete.
`StartResync`/`ContinueResync` are `brain_resync_folder`. `Restart` is the reload's
stop-and-start of the watcher, on a thread without an event loop, `Die` and
`Boot` the process. A write is one step because VaultWriter's lock
makes it one (that is what `VaultWriter` is about). `lost` and `displaced` are
history: files whose timer was cancelled by a stop, and files whose note another
file's ingest took over.

**ChatSocket.** All sockets share one event loop, so a step is what runs between
two awaits, and a save, which is synchronous, is one step. `route` is where
`chat_ws` is (in its loop, awaiting a cancelled turn, in its `finally`, done),
`turn` the task of `run_turn` (sending turn_start, streaming, sending turn_end or
an error). `Connect` loads the file; `StartTurn`, `BeginTurn`, `NextRound`,
`Finish` or `OutOfRounds` or `Raise`, `SendEnd` are a turn, with `CompileFails`
where the context cannot be compiled, so that nothing is appended. `BeginTurn`
picks the context out of `Trims`: the session without its oldest turns, as many
as `context_cap_tokens` drops (`context.py:70`); `CancelTurn`,
`Unwind`, `Cancelled` its cancellation; `Disconnect` or `BadFrame`, `Unwind`,
`Close` the end of a socket. A session and the file are sets of turns; which text
a turn has is left out. Sockets are numbered in the order they are accepted.
`shared`, `unread`, `cut` and `capped` record what excuses a turn from a
promise: two sockets live at once, a file that could not be parsed at connect, a
last save that failed, no tool round left.

**Domains, VaultBackup.** `vault` maps a slug to the notes of its folder; a note
is its name, the `domain` of its frontmatter, the target of a qualified link and
a number for its text. A call is a record in `call[p]` with what it has still to
walk over (`todo`). `Create` and `CreateSaves` or `CreateFails`; `RenameStarts`,
then `ReadNote` and `ReplaceNote` for each note of the folder, `LinksStart` and
the same for the notes that link into it, `MoveFolder`, `RenameSaves`,
`RenameRecords`, with `RenameFails` anywhere; `Delete`, `DeleteRecords`,
`DeleteSaves`; `UndoDelete` in one step, `UndoRename` with `UndoNote` for each
recorded note. `EditNote` and `AddNote` are everybody else: the user's editor and
the patch of an open chat thread, which makes a folder again that has been
renamed away. `SnapshotStarts`, `Pack`, `PackEnds`/`PackFails` and `RestoreStarts`,
`MoveAside`, `ExtractStarts`, `Extract`, `RestoreEnds`/`RestoreFails` walk over
*items*: a domain's folder or all of `.brain`. History: `latest` (the text each
note was given last), `forfeit` (texts a rename, an undo or an extraction wrote
over), `origin` (the vault an undo or a restore of this id leads back to, until
somebody else writes), `apart` (calls ran one after the other, to their end).

**Lifecycle, Upgrade.** A process is what the commands can see of it. `Start` is
`ReadPid`, `CleanStale`, `Probe`, `Spawn`, `WritePid`, `Healthy` or
`HealthTimeout`; `Stop` is `ReadToStop`, `Kill`, `Cleaned`, and upgrade and
uninstall begin with the same steps. `Boot` is what `brain_api` does on its own:
it migrates the database, binds the port, or exits. `Crash`, `Reuse` (the pid
goes to another process), `Restore` (the files go with `.brain`) and `Interrupt`
happen at any time. An upgrade goes on with `Stage`, `Build`, `Migrate`,
`SwapOut`, `SwapIn` or `SwapInFails`, `Rotate`; `UpgradeFails` is the clean-up of
every other failure. Three variables
are history. `orderly`: commands and restores have run one at a time, each to its
end or its failure. `astray`: the daemons whose files a restore has moved away,
or that were spawned by a start which was interrupted before it wrote their pid;
`Known` are the others. `left`: the schema that a failed upgrade left ahead of
the install.

**WebChat.** Every visit of a thread makes a `BrainWebSocket`, whose record holds
the native socket's state, the backoff timer and the `manualClose` flag.
`Visit`, `SendTurnStart`, `CancelTurn` are the user; `Opened`, `Deliver` (with one
reducer of the store per frame), `CloseEvent`, `Reconnect` the browser's
callbacks; `TakeTurnStart`, `TakeCancel`, `BeginTurn`, `StreamPiece`, `EndTurn`,
`TaskDone` the server, and `Drop` the network or a refused token. `up` and `down`
are the frames under way. It is the counterpart of `ChatSocket`: that one has
the session and the file behind a socket, this one the screen in front of it.

## 3. Runs

Each run is `tlc -config <run>.cfg MC<module>.tla`. The first group passes.

**VaultWriter_core.** Two processes, two notes, one domain; a patch with a new
note, an edit, a catalogue entry and a log line, and a patch that edits one note
twice; reverts of any id at any time; one death and one OSError at any step.
`TypeOK`; `LockedAlone`: the holder of the lock is exactly the process inside,
on every exception path; `RollbackRestores`: a rollback nobody disturbed ends
with every note as the call found it; `UndoRestores`: the undo file on disk
covers, at every moment, what its call has changed, so that reverting it gives
back the notes even after a death half way; `CatalogKept`: no catalogue entry
is lost to another call, a rollback or a revert.

**VaultWriter_live.** With renames, a patch over the byte limit, failing edits
and an OSError. `CallsEnd`: under fair scheduling each call ends.
`ImplementsAtomicVault`: seen by whoever takes the lock next, the vault changes by
whole patches and whole renames. The mapping is `Committed`: while a call of
apply holds the lock, the vault is the one it found. What disturbs the promise (a
revert beside it, a new file over an existing note, a rollback step that raised,
a death) is spelled out in `Disturbed`, and each is needed; when it is over the
promise holds again.

**PendingPatches_core.** Three processes put, apply and reject one patch that
may land twice, with two deaths. `NothingLost`, `AppliedLanded`, `NeverRequeued`
and, for a patch no two calls met on and whose apply did not die, `Settled`:
it lands at most once, lies in one place, and the status in its file and the
folder agree. `LandedLeavesQueue` (liveness): a patch that landed leaves the
queue unless the process that landed it dies.

**ConfigStore_core.** `brain_api` and the lazy `brain_mcp`, two settings of two
values, two saves, two deaths, an OSError. `NoPhantom`: neither memory nor the
backup keeps what the file never had; `SaveIsOneSetting`: a save changes one
setting of the file its caller knew; `Converges` (liveness): every process that
watched comes to see the file.

**FolderSync_core.** Two processes, `brain_api` with an LLM and `brain_mcp`
without, two files, three texts, two slugs, two changes, an edit of a note, an
error, and a death or restart. `CacheNamesOwnNote`; `QuietIsCanonical`: when
nothing is pending, a file's note shows its text or the history says why not;
`NothingUnreadIsLost`: no job overwrites a change it did not read.

**FolderSync_live.** One process with one tool call (resync, restore or delete
of an orphan): `Settles`, once the user is done everything comes to an end, and
with the notes that `QuietIsCanonical` asks for.

**ChatSocket_core.** Two sockets, after each other or together, two turns on
each, two rounds, a file with room for three turns, an error, a death, an edit
that garbles the file. `TurnsAreSaved`: a turn whose turn_end the client got is in
the file, whatever happens to that socket and the next, and after a close whose
save succeeded so is every turn that was asked, cancelled and failed ones too:
this is what the shielded `aclose` and the order in the route's `finally` are
for. `ContextIsComplete`: the context a turn is asked
with holds every earlier turn of its socket, cancelled and failed ones too, and
every one answered on earlier connections; where one is missing the cap has
dropped it from the session, and everything older with it. `RoutesClose` (liveness): the
route of a client that has gone ends, even if the LLM never answers.

**VaultBackup_core.** One process creates, deletes, undoes, snapshots and
restores, another renames, three calls in all; one edit or new note by somebody
else, one OSError or death at any step. `NothingLost`: the latest text of every
note is in the vault, the trash, the record of a rename or beside the vault, in
every state. `OpsReturn`: an undo that ended has brought back the vault its call
found, a readable archive holds the vault as it was, and a restore that ended
has brought back the archive's, unless somebody else has written since.
`ConfigFollows`: calls that ran one after the other to their end leave
`Config.domains` equal to the folders there are. `TypeOK` contains the validators
of Config: the active domain is one of the domains, the private one stays.

**Upgrade_core.** Two terminals run four commands over two ports and three
versions, with two faults. `Tracked`: commands and restores that ran one after
the other leave at most one daemon that is not astray, and both files lead to
it, whatever crashed, failed or was interrupted and whoever got its pid. Two
exceptions are the code's: after `Start`, `Boot`, `Restore` the next `Start` finds
no pid file and spawns a second daemon beside the first, and so it does after a
start that was interrupted before `start.py:158`. `InstallAtHand`: the version installed last is in its place or in a
backup, through every failure and death and whatever another terminal does.
`DaemonCurrent`: in such runs a daemon that is not astray runs the installed
version, there is none while an upgrade works on the install, and its code is
not older than the schema, but where a failed upgrade left the schema at that. `TypeOK` says that an install is never half built.

**WebChat_core.** A tab opens two screens and asks two questions over
connections that drop twice, with two presses of stop. `OneSocket`: only the
screen on show has a socket that is open, opening or to be retried.
`TranscriptTrue`: each message holds its own turn's text and patches, and all of
it once the turn has ended. `StreamingIsReal`: the flag that locks the composer
is set only while the server works or its last frame is under way.
`CancelStops` (liveness): a cancel the server has ends the streaming even if the
LLM is silent for ever. `Reconnects` (liveness): a screen gets its socket back.

Two runs end in a counterexample and check one sentence of the repository each
(section 7): `FolderSync_revert`, `ChatSocket_mode`.

Every property has a mutant in `PROJECT.json`: a definition of the model changed the way a
plausible bug would change the code (an undo record kept in memory until the
end, a lock leaked on an error path, an old-text check dropped, a burst's first
event kept in place of its last, ...), with which the property fails under the
same configuration. The mutated forms are next to the definitions they change.

## 4. Bounds

Every bound is a constant in a guard and is named `Max...` or says "bound" where
it is declared.

- `MaxIds`, `MaxSaves`, `MaxLandings`, `MaxChanges`, `MaxEdits`, `MaxTools`
  limit how many calls, saves or changes a run may contain. Two suffice for
  every race above: one actor between another one's steps, and the second call
  of the same actor on what the first left behind. `VaultBackup_core` has three
  calls, for an undo of what came between, or a restore after a change;
  `Upgrade_core` four commands, so that an upgrade follows another, with a start
  on either side.
- `MaxDeaths`, `MaxErrors`, `MaxIOErrors`, `MaxStops`: one fault per run, two
  where a second fault meets the leftovers of the first (the queue, the
  configuration). The proofs do not use these bounds.
- Two processes where the code has two long-lived ones; three in the queue,
  where the command line is the third.
- Two notes, so that a patch can be half done; two files and two slugs, so that
  an ingest can take over another file's note; three texts, so that an update
  can be overtaken twice.
- Two sockets of two turns, and room for three: the second socket can meet the
  first, follow it, or fill the file. Three sockets of one turn each also pass;
  only the proofs cover more. `MaxRounds = 1` stands for `MAX_TOOL_ROUNDS = 10`.
- One pending id: patches share no files, so ids are independent of each other.
- Job slots in `FolderSync`: two jobs at a time. `Reloaders = {r1}`: a reload is
  shorter than the debounce window of the next, so that two reload threads of
  one process do not overlap (they would install in either order; section 7).
- In `VaultBackup_core` one process renames and the other does all the rest, so
  that a rename meets each of them (two renames at once are left out); three
  folders, one of them empty, and a free slug; one note in each folder, one with
  a link across.
- In `Upgrade_core` four pids (a daemon, its stray rival, a stranger and a free
  one) and `Keep = 1`, where the default is 3.
- `WebChat_core`: an answer is at most one delta and one patch.
- Symmetry is used in `FolderSync_core` and `Upgrade_core`, which check no
  liveness: over files, texts, slugs and slots there, terminals and pids here,
  none of which the models tell apart.

Assumptions that are part of the models: undo ids and patch ids are unique (they
carry a timestamp and a counter or random suffix); `write_text` of a temporary
file is one step that a death can tear; a process makes one call of the config
store at a time; no environment variable overrides a setting; the rival
`brain_mcp` runs with `FakeLLMProvider`, whose queue is empty, so that its LLM
calls raise (`mcp/__main__.py`).

## 5. Fairness

`FairSpec` is weak fairness of each process's own steps, and nothing else. It
says that a process that is inside a call and can go on does: the operating
system schedules it, `filelock` polls and times out, a debounce
`threading.Timer` fires, an event loop runs ready coroutines, an LLM call
returns or raises at its time limit. In `FolderSync` it is one condition per job
slot, since coroutines and timer threads are scheduled one by one. In
`ChatSocket` only the route's own steps are fair, in `WebChat` the browser's
callbacks and the server's receive loop: the LLM may be silent or stream for
ever. No fairness
is assumed of users, of calls, of errors or of deaths, nor of who gets the lock:
a waiter may lose it every time and then times out, which `CallsEnd` allows.

## 6. Proofs

The theorems hold for any set of processes, notes, patches, files and texts and
any value of the bounds; what they assume is the `ASSUME` of each module (markers
such as `NoNote` are not data; the patches handed to apply are well formed).

**VaultWriterProofs.** `IInv` = types, `JobOK` (what a program counter says of
the local variables: the position is inside the patch, the newest undo record is
of the path being written, a record about to be written back has a text) and
mutual exclusion. `JobOK` is what makes `TypeOK` inductive: without it nothing
says that `Mutate` finds a record. `TypeCorrect` and `Exclusion` follow;
`CatalogCorrect` adds `SaveOK` (the process that has truncated an index is the
only one between its load and its save, so its buffer holds all that the file
held).

`RollbackCorrect`, in the same module. The argument: at every moment of an
undisturbed call the undo records taken so far determine the vault the call
found. A note with no record is as it was; of the records of one note, the
*oldest* holds what it was. Rolling back the newest record keeps that, and with
none left the vault is the one the call found. It therefore holds for patches
that name a note twice, which the run checks for one such patch.

`AtomicCorrect`, the refinement, adds `CommitOK`: the paths a call has written so
far show the patch's text, an edit made in the text the call *found* under the
lock, and every other note is as it was. `Seal` then maps to the atomic `Commit`,
`Move` to `Rename`, `Reraise` to a stutter by `RollbackCorrect`'s invariant, and
every other step leaves what the next caller would find. It holds of the safety
part; what disturbs the promise is in `VaultWriterAtomic`.

`UndoCorrect` is the same question about the file on the disk. `CoverOK`: every
record taken holds what the call found, every note without a record is as it
was, and between two records the file holds what the memory holds (not while it
is truncated, which `torn` excuses). `IdsOK` keeps two calls from sharing an undo
id, so that nobody overwrites the file of the call that ended; `LastOK` keeps
what `CoverOK` said when it ended, and a revert of an unchanged vault starts from
there.

**PendingPatchesProofs.** `IInv` adds to the properties what a call knows: it
works on a staged patch, a fresh envelope is in a temporary file only while its
`put` runs, and a call that moves to `applied/` has landed the patch.
`NeverRequeued` needs the second: the only thing a second mover can put back
into `pending/` is an envelope that is already decided. `SettledCorrect` adds
`FreshOK` and `TidyOK`, what the one call that has a patch knows of it: an
envelope in a temporary file has landed nowhere, and a landed patch that is still
in `pending/` has the call that will move it.

**ConfigStoreProofs.** `IInv` says that config.json and every copy outside a
call has been in the file, that a running call's snapshot has been in it, and
that the Config it changes differs from the snapshot in the one field it sets.
The object a call holds may have been replaced by a reload: `held` keeps the two
apart, and `SaveCorrect` needs it.

**FolderSyncProofs.** `Inv` (a job has read what its step needs; a cached slug
is the file's own note or the file is `displaced`) gives `TypeCorrect`, `CacheCorrect` and
`NothingUnreadCorrect`. `CanonicalCorrect` is proved under `~Reverts` (no text of
a file comes back) from `CInv`, which adds two parts. `History`: the texts jobs
and notes hold are ones the file has had, and an update that carries an older
text has found a note that does not show the present one. `Answered`: every file
that is present and neither lost nor displaced is shown, reported, waited for by
a timer, or being brought by a job that carries its present text. When nothing
is pending the last two are impossible. Without `~Reverts` the theorem is false:
`FolderSync_revert` is the counterexample.

**ChatSocketProofs.** `IInv` adds five parts to the types. `RoutesOK`: a connection
is new until its route runs. `OverlapOK`: two live
sockets are both `shared`. `SessionOK`: a turn that has begun is in the session
of its live socket unless it still streams. `KeptOK`: a turn that is due (its
turn_end is sent or about to be, or its socket has closed cleanly) is in the file
*and in every live session*; the second half is what makes it inductive, since
the next save replaces the file by a session. `ContextOK`: the context of a
turn is one of the `Trims` of its session, which does not change while it
streams; with `OldestGo` (what is missing from a trim is older than all of it)
and with `SessionOK` and `KeptOK` this is `ContextIsComplete`. `TurnsSaved` and `ContextsAreComplete`
follow.

**VaultBackupProofs.** `Sound` is what every tool relies on between two of its
steps: a delete, a snapshot, a restore in the middle of its walk has what the
rest of the walk needs; an undo id is used by one call and fresh until then; and
all copies of a trash folder or a record, in `.brain` and in the archives, are
equal (`OneCopy`: without it an undo after a restore need not bring back what
was deleted). `TypeCorrect` follows. `NothingLostCorrect`: a step keeps every
note, or moves it to where another tool finds it, except those it adds to
`forfeit` (the folder of a `create` that failed, a text that a rename or an undo
has written over).
`ConfigFollowsCorrect` has the hypothesis that the Config and the folders agree at the
start. `OpsReturnCorrect` needs most: the vault differs from the one to be
brought back at most in the notes still to be put back (`Rel`); no folder has
two notes of one name (`Distinct`), so that putting a note back replaces the one
that was changed; the folder of a rename is back under its old name before its
notes are; and nobody undoes a call before its record is written (`Unreached`).
All four theorems take `None` to be no folder, archive or call.

**UpgradeProofs.** `InstallNeverLost` assumes `Keep > 0` (the code keeps 3). The
staging folder is the lock of upgrades: an upgrade that has not yet swapped owns
it, so at most one of them moves the install away; that is `StagingOK`.
`BackupOK` bounds the stamps of the backups by the clock, so that a new backup is
the newest, and says that what a failed swap puts back is the version installed
last. `InPlaceOrNewest`: the install is in its place,
or it is the newest backup, which no rotation removes. The invariant itself does
not need `Keep > 0` (`NoClaim`: an uninstall or a `Keep` of 0 excuses a missing
install), so the other three theorems hold for every `Keep`.
`TypeCorrect`, `TrackedCorrect` and `DaemonCurrentCorrect` follow from
`DaemonInv`, which adds to the types: `OrderInv` (while the run is orderly at most one
command is under way, the files lead to every daemon that is not astray, and
each command knows it at its step: after it has stopped the daemon or found none
there is none) and `CodeInv`. Its parts: outside a swap the install fits the
schema, that is, it is not older or a failed upgrade left the schema at that
(`Sound`, `Fits`); between the migrations and the second rename the installed
code may be behind, no daemon that is not astray runs to see it, and what the
swap puts in its place fits (`Ahead`); and no code at hand is newer than the
schema, so that no daemon that boots has anything to migrate (`Covers`), not
even an astray one.
That the lowest free port and the newest stamp exist is
the well-foundedness of the naturals.

**WebChatProofs.** `IInv` adds two parts to the types and to the two properties.
`ClosedByHand`: a socket whose screen is gone has been closed by hand, so its
close event starts no timer, which makes `OneSocket` inductive. `EndIsComing`:
every turn_start on the wire has a last frame behind it in the queue or a stream
that will put one there; a delivered turn_start hands this to `StreamingIsReal`.

`TranscriptCorrect` needs what is between the tab and the server. `Tags`: frames,
requests and the turn task of a question belong to the visit the question was
asked in, no other visit has any left, requests come in the order of their questions, and
nothing is counted for a question nobody has asked. `TrueInv`: the frames on
their way lead from the position of the tab (`AtStart`: the turn it shows
streaming, the last one it saw begin, the deltas it holds) to the position of
the server (`AtEnd`). That they lead there is a `Path`, a function that gives the
position before each frame; a send extends it at one end and a delivery shortens
it at the other, so no induction over the queue is needed. It explains every
case at once: a turn_end empties the buffer of its own turn because no frame of
another turn can be between, and after a connection is lost in mid-answer (`Cut`)
nothing is on its way any more, so what was shown stays true. TLC checked both
on the instance of `WebChat_core` before they were proved. The theorem has no
hypotheses beyond the constants' assumption.

Every safety invariant and action property that a passing run checks is stated
by a theorem. Only model-checked: the liveness properties (`CallsEnd`, `LandedLeavesQueue`, `Converges`, `Settles`,
`RoutesClose`, `CancelStops`, `Reconnects`) and everything under fairness, which
the prover does not reach. What a revert makes of the whole undo file is stated
by an invariant over its steps, so no recursive operator is needed anywhere.

## 7. Where the code and its own words part

With a run each:

- *A restored text.* A file that is saved and then restored while the first
  update waits for the LLM keeps, in the note, the text in between: the second update
  compares with a note that is still the old one and answers `no_change`
  (`FolderSync_revert`, `core/ingest/pipeline.py:619`). We take it to be a bug.
- *The mode of a turn.* `api/chat/events.py:204` says a turn's mode "overrides
  for this turn AND becomes the thread's new mode"; the session is built with
  `ask` when the socket connects and never told (`ChatSocket_mode`,
  `session_runner.py:210`). A bug too: brainstorm and draft have no effect over
  the WebSocket.

Seen while modelling, in the models' behaviour or beside it, without a run:

- *vault*: `vault/undo.py:15` promises that "a single undo_id fully reverses
  whatever was logged", but `revert` has no case for the record `rename_file`
  writes: it reports success and moves nothing; a new file over an existing
  note is recorded as "did not exist", so rollback unlinks it; an undo file is
  truncated before it is rewritten; index and log stay when apply raises; the
  orphan check runs before the lock; the lexically last undo id need not be the
  last write's; `revert` goes through the records of a repeated path in the order
  it finds them.
- *queue*: the design brief (`docs/design/design-brief.md:265`) says "pending →
  applied OR rejected"; the second of two overlapping movers brings the envelope
  back with `os.replace` and files it again, so that it lies in both folders
  (`pending.py:150`). `get` returns a decided envelope that a death left in
  `pending/`. While one envelope is torn `list()` raises and shows none
  (`pending.py:108`); `Queue` is what it shows when it can read them all.
- *config*: an `fsync` error after the replace takes memory back although the file
  has changed; a save between a process's read at boot and the start of its
  watcher is not seen until the next one; the environment overlay is saved into
  the file; two reload threads may install in either order; `migrate` writes
  without the lock.
- *folders*: a rename can leave only the orphan of the old path, since the new
  path is a duplicate; `no_change` does not clear an orphan mark; the duplicate
  check and `delete_orphan`'s check are check-then-act; an ingest over an
  existing slug replaces that note where the design speaks of a "-2" suffix;
  `stop()` drops the events its timers hold; `brain_watch_folder` in the same
  process changes the live Config first, so that the reload sees no change and
  starts no watcher; the cache is filled once, so that a file whose note came
  later is ingested again at its next change, against "Modified →
  update_source" in the design.
- *watchers*: a restart after a configuration change runs on a timer thread;
  `start()` there finds no event loop, and the new watcher drops created and
  modified events until the next boot (`folder_watcher.py:262`, `:268`).
- *chat*: a turn that runs out of tool rounds is answered with `turn_end` and not
  saved before the next turn or the close (`session.py:247`); the text streamed
  in the round a cancel interrupts is not in the turn that is appended, although
  `session_runner.py:113-121` says so; a thread above the patch ceiling is never
  saved again; a connect that cannot parse the file starts empty, and the next
  turn overwrites it; a frame that is not JSON closes the socket, where
  `routes/chat.py:29-31` keeps it open; `brain_fork_thread` drops the session it
  builds, so that the turns it was to carry never reach the new thread.
- *domains*: the undo of a delete or of a rename brings the folder back and
  leaves `Config.domains` without it; the undo of a rename whose old name has
  been taken again leaves the folder where it is and still writes the old texts,
  into the new folder of that name; links inside the renamed folder itself are
  not rewritten; a save that fails after `os.rename` leaves no undo record;
  `create` removes the folder on a failure with whatever has been put into it;
  `_SLUG_RE` of `vault/domain.py` refuses slugs that `create` accepts, so that
  such a domain cannot be deleted.
- *backup*: a snapshot that fails half way keeps its final name, is listed, and
  passes the "integrity" check of `backup.py:228`, which only asks whether the
  archive can be read; a restore moves `.brain/run`, the locks and
  `state.sqlite` away under a running daemon.
- *daemon*: `brain stop`, `upgrade` and `uninstall` terminate whatever process has
  the pid of the file (`stop.py:40`, `upgrade.py:99`, `uninstall.py:145` ask only
  whether it is alive), although `pidfile.py:3` keeps `is_brain_api` for that
  case; two starts that overlap both spawn a daemon; the daemon migrates the
  database before it finds its port taken.
- *upgrade*: migrations are not taken back when the swap fails; `--tarball` skips
  the version check, so that code may become older than the schema;
  `rollback_swap` has no caller.
- *web UI*: a socket lost during an answer leaves the streaming flag set, and the
  composer locked, until the thread is left; a message sent on a socket that is
  not open is shown and never sent (`hooks.ts:182`), as is the first message of a
  thread without an id (`chat-screen.tsx:32`); a cancel that crosses the end of
  its turn, or hits the next before it has begun, empties the last message; an
  error leaves the partial text out of the message; a token refused before the
  accept looks like a lost connection (1006), so that the 1008 branch of
  `client.ts:117` never runs and a stale token is retried for ever; a second
  message sent before the first turn starts is shown above the first answer and
  then refused.

## 8. What is not modelled

Section 1 lists the parts; `PROJECT.json` gives the reason of each. In the
modelled parts: the content of notes beyond what `old in prev` and a content
hash tell apart; wording, logging and JSON layout; Windows' file locking; in
`ConfigStore` the environment overlay, schema migration and the repair tool; in
`FolderSync` more than one watched folder, the set of watched folders itself,
handlers that decline a file, and the autonomy gate (an ingest that is not
auto-applied ends in the queue, which is `PendingPatches`' `Put`); in
`ChatSocket` the length of texts (how many of the oldest turns the cap drops is any
number), fork, export, auto-title, the open document and the command line's
session; in `Domains` the backup copy `load_config` falls back to (`Loaded` is
the defaults) and slug validation beyond `Deletable`; in `Lifecycle` a process
that may not be signalled; in `Upgrade` the download, the shims, `--tarball` and
what uninstall asks about the vault and its backups; in `WebChat` attachments,
modes, the document panel and the cross-domain modal.

*Budget.* The guards around LLM calls are not modelled because next to nothing
writes what they read: only `chat/session.py:546` (with a cost of 0.0) and
`ingest/ocr.py:139` record a cost, and `BudgetEnforcer.check_can_spend` and
`CostLedger.is_over_budget` (which `tools/budget_override.py:10` calls "what
actually gates spending") have no caller outside tests. A model of them would
check a protocol the program does not run.

*Stores of the web UI.* The edit-and-approve of a staged patch is three calls
(reject, propose, apply) of which each can fail; every one of them is an
operation of `PendingPatches`, whose properties hold for any sequence of calls.

*Bulk import* walks over files one at a time; the concurrency is in the ingest
job, which `FolderSync` has.

## 9. Plan

Done, in this order: VaultWriter with its abstract specification, PendingPatches,
ConfigStore, FolderSync, ChatSocket, and their proofs; then Domains with
VaultBackup, Lifecycle with Upgrade, WebChat, and theirs. The order was by how much rests on
a part and how concurrent it is.

Next, most important first:

1. The composition of `ChatSocket` and `WebChat`, so that the transcript is
   compared with the thread's file; `BulkImport` on top of `FolderSync`'s job.
2. The edit-and-approve of the web UI on top of `PendingPatches`, with a failure
   between its calls.

Runs are kept few, one per question: a run that only exhibits a divergence of
wording has made room for one that checks behaviour, and the divergence is in
section 7.
