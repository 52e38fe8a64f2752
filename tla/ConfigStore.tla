---------------------------- MODULE ConfigStore ----------------------------
(***************************************************************************)
(* config.json and the copies of it in memory: save_config and             *)
(* persist_config_or_revert (config/writer.py), load_config and            *)
(* resolve_config (config/loader.py), ConfigWatcher (config/hot_reload.py) *)
(* and the hot-reload callbacks of brain_api (app.py) and brain_mcp        *)
(* (__main__.py, server.py).                                               *)
(*                                                                         *)
(* A tool changes the process's live Config in place and then saves all of *)
(* it under a file lock.  Every save makes each process's watcher set off  *)
(* a reload, on a thread of its own, which puts another object in the      *)
(* place of the live one: brain_api at once, brain_mcp (Lazy) by dropping  *)
(* its tool context, which the next tool call builds again.                *)
(*                                                                         *)
(* The cached object is the live one, so a tool changes it too; but it is  *)
(* dropped with the live one and not read in between, so `cache' keeps the *)
(* value.  Environment variables, which load_config lays over the file,    *)
(* are not modelled: no process has one set.                               *)
(***************************************************************************)
EXTENDS Naturals, FiniteSets

CONSTANTS
  Procs,      \* processes that hold a Config
  Lazy,       \* those of them that run brain_mcp
  Reloaders,  \* reload threads a process may run at once
  Fields, Values,
  Defaults,   \* Config()'s fields
  MaxSaves,   \* bound: calls of persist_config_or_revert in a run
  MaxDeaths,  \* bound: processes that die in a run
  MaxErrors,  \* bound: OSErrors in a run
  NoConfig, Torn, NoProc

Configs == [val : [Fields -> Values], ver : Nat]
DefaultConfig == [val |-> Defaults, ver |-> 0]

ASSUME ConfigAssumption ==
  /\ Lazy \subseteq Procs /\ NoProc \notin Procs
  /\ Defaults \in [Fields -> Values]
  /\ NoConfig \notin Configs \cup Fields
  /\ Torn \notin Configs \cup {NoConfig}
  /\ MaxSaves \in Nat /\ MaxDeaths \in Nat /\ MaxErrors \in Nat

VARIABLES
  disk,      \* config.json
  bak,       \* config.json.bak
  lock,      \* who holds config.json.lock
  mem,       \* process -> its live Config, NoConfig when brain_mcp has no context
  cache,     \* process -> what resolve_config has cached, as it was read
  watching,  \* processes whose ConfigWatcher runs
  armed,     \* processes whose debounce timer runs
  reload,    \* process -> reload thread -> the Config it has read
  pc, field, snap, \* each process's call: what it sets, the snapshot ...
  held,      \* ... and its Config: the live one (NoConfig), or one a reload replaced
  written,   \* history: every Config config.json has held, and the defaults
  blind,     \* history: processes that did not watch when it was last replaced
  saves, deaths, errors

loaderVars == <<cache, watching, armed, reload>>
callVars == <<pc, field, snap, held>>
counters == <<saves, deaths, errors>>
history == <<written, blind>>
vars == <<disk, bak, lock, mem, cache, watching, armed, reload, pc, field, snap, held,
          written, blind, saves, deaths, errors>>

Saving == {"backup", "replace", "sync"}
InCall == {"lock"} \cup Saving
PCs == {"idle", "boot"} \cup InCall

(* load_config: config.json, else config.json.bak, else the defaults.  A   *)
(* backup that was cut short does not parse.                               *)
Loaded == IF disk # NoConfig THEN disk ELSE IF bak \in Configs THEN bak ELSE DefaultConfig

(* resolve_config: the cached Config while config_version on disk is the   *)
(* cached one, or cannot be read.                                          *)
Resolved(p) ==
  IF cache[p] # NoConfig /\ (disk = NoConfig \/ disk.ver = cache[p].ver)
  THEN cache[p] ELSE Loaded

Init ==
  /\ disk = NoConfig
  /\ bak = NoConfig
  /\ lock = NoProc
  /\ mem = [p \in Procs |-> IF p \in Lazy THEN NoConfig ELSE DefaultConfig]
  /\ cache = [p \in Procs |-> DefaultConfig]
  /\ watching = Procs
  /\ armed = {}
  /\ reload = [p \in Procs |-> [r \in Reloaders |-> NoConfig]]
  /\ pc = [p \in Procs |-> "idle"]
  /\ field = [p \in Procs |-> NoConfig]
  /\ snap = [p \in Procs |-> NoConfig]
  /\ held = [p \in Procs |-> NoConfig]
  /\ written = {DefaultConfig}
  /\ blind = {}
  /\ saves = 0 /\ deaths = 0 /\ errors = 0
-----------------------------------------------------------------------------
(* The object a call works on.                                             *)

Held(p) == IF held[p] = NoConfig THEN mem[p] ELSE held[p]

(* An assignment to its fields.                                            *)
Assign(p, c) ==
  IF held[p] = NoConfig THEN mem' = [mem EXCEPT ![p] = c] /\ UNCHANGED held
                        ELSE held' = [held EXCEPT ![p] = c] /\ UNCHANGED mem

(* Mutant: a running call is left without its Config.                      *)
Swap_Drops(p, c) == mem' = [mem EXCEPT ![p] = c] /\ UNCHANGED held

(* Another object becomes the live one; a running call keeps its own.      *)
Swap(p, c) ==
  /\ mem' = [mem EXCEPT ![p] = c]
  /\ held' = IF pc[p] \in InCall /\ held[p] = NoConfig
             THEN [held EXCEPT ![p] = mem[p]] ELSE held

Goto(p, at) == pc' = [pc EXCEPT ![p] = at] /\ UNCHANGED <<field, snap>>

Forget(p, at) ==
  /\ pc' = [pc EXCEPT ![p] = at]
  /\ field' = [field EXCEPT ![p] = NoConfig]
  /\ snap' = [snap EXCEPT ![p] = NoConfig]
  /\ held' = [held EXCEPT ![p] = NoConfig]

Unlock(p) == lock' = IF lock = p THEN NoProc ELSE lock

-----------------------------------------------------------------------------
(* A call of brain_config_set or of any other tool that persists.          *)

Set(p, f, v) ==
  /\ pc[p] = "idle" /\ mem[p] # NoConfig
  /\ saves < MaxSaves
  /\ saves' = saves + 1
  /\ snap' = [snap EXCEPT ![p] = mem[p]]
  /\ field' = [field EXCEPT ![p] = f]
  /\ mem' = [mem EXCEPT ![p].val[f] = v]
  /\ pc' = [pc EXCEPT ![p] = "lock"]
  /\ UNCHANGED <<disk, bak, lock, loaderVars, held, history, deaths, errors>>

(* save_config bumps the version of the object, inside the lock.           *)
Acquire(p) ==
  /\ pc[p] = "lock" /\ lock = NoProc
  /\ lock' = p
  /\ Assign(p, [Held(p) EXCEPT !.ver = @ + 1])
  /\ Goto(p, "backup")
  /\ UNCHANGED <<disk, bak, loaderVars, history, counters>>

(* Mutant: the version is not among the fields written back.               *)
Revert_KeepsVersion(p) ==
  /\ mem' = IF held[p] = NoConfig
            THEN [mem EXCEPT ![p].val = snap[p].val] ELSE mem
  /\ Forget(p, "idle")
  /\ Unlock(p)

(* The exception path: persist_config_or_revert writes every field of the  *)
(* snapshot back, config_version among them.                               *)
Revert(p) ==
  /\ mem' = IF held[p] = NoConfig THEN [mem EXCEPT ![p] = snap[p]] ELSE mem
  /\ Forget(p, "idle")
  /\ Unlock(p)

(* A copy that is cut short leaves a torn backup.                          *)
CopyEnds(p) ==
  \/ UNCHANGED bak
  \/ pc[p] = "backup" /\ disk # NoConfig /\ bak' = Torn

LockTimeout(p) ==
  /\ pc[p] = "lock" /\ lock # NoProc
  /\ Revert(p)
  /\ UNCHANGED <<disk, bak, loaderVars, history, counters>>

(* copy2, not atomic; the first save has nothing to copy.  Then            *)
(* config.json.tmp, which only the lock's holder touches, and whose events *)
(* the watchers take for changes too.                                      *)
Backup(p) ==
  /\ pc[p] = "backup"
  /\ bak' = IF disk = NoConfig THEN bak ELSE disk
  /\ armed' = armed \cup watching
  /\ Goto(p, "replace")
  /\ UNCHANGED <<disk, lock, mem, held, cache, watching, reload, history, counters>>

(* config.json.tmp becomes config.json, and the watchers get their event.  *)
Replace(p) ==
  /\ pc[p] = "replace"
  /\ disk' = Held(p)
  /\ written' = written \cup {disk'}
  /\ armed' = armed \cup watching
  /\ blind' = Procs \ watching
  /\ Goto(p, "sync")
  /\ UNCHANGED <<bak, lock, mem, held, cache, watching, reload, counters>>

Saved(p) ==
  /\ pc[p] = "sync"
  /\ Forget(p, "idle")
  /\ Unlock(p)
  /\ UNCHANGED <<disk, bak, mem, loaderVars, history, counters>>

(* An OSError from the copy, the temporary file, os.replace, or from the   *)
(* fsync of the folder, after config.json has been replaced.               *)
SaveFails(p) ==
  /\ pc[p] \in Saving
  /\ errors < MaxErrors /\ errors' = errors + 1
  /\ Revert(p)
  /\ CopyEnds(p)
  /\ UNCHANGED <<disk, loaderVars, history, saves, deaths>>
-----------------------------------------------------------------------------
(* Reloading.                                                              *)

(* The timer fires: _on_config_change drops the cache entry, brain_mcp its *)
(* context too, and reads the file.                                        *)
Fire(p, r) ==
  /\ p \in armed /\ reload[p][r] = NoConfig
  /\ armed' = armed \ {p}
  /\ reload' = [reload EXCEPT ![p][r] = Loaded]
  /\ cache' = [cache EXCEPT ![p] = NoConfig]
  /\ IF p \in Lazy THEN Swap(p, NoConfig) ELSE UNCHANGED <<mem, held>>
  /\ UNCHANGED <<disk, bak, lock, watching, pc, field, snap, history, counters>>

(* Mutant: the tool context keeps the Config of the start.                 *)
Install_CacheOnly(p, r) ==
  /\ reload[p][r] # NoConfig
  /\ reload' = [reload EXCEPT ![p][r] = NoConfig]
  /\ cache' = [cache EXCEPT ![p] = reload[p][r]]
  /\ UNCHANGED <<disk, bak, lock, mem, held, watching, armed, pc, field, snap, history, counters>>

(* Mutant: the reload assigns to the fields of the live object.            *)
Install_InPlace(p, r) ==
  /\ reload[p][r] # NoConfig
  /\ reload' = [reload EXCEPT ![p][r] = NoConfig]
  /\ cache' = [cache EXCEPT ![p] = reload[p][r]]
  /\ mem' = IF p \in Lazy THEN mem ELSE [mem EXCEPT ![p] = reload[p][r]]
  /\ UNCHANGED <<disk, bak, lock, held, watching, armed, pc, field, snap, history, counters>>

(* What it has read goes into the cache, and in brain_api into the tool    *)
(* context.  Nothing orders two threads that are here.                     *)
Install(p, r) ==
  /\ reload[p][r] # NoConfig
  /\ reload' = [reload EXCEPT ![p][r] = NoConfig]
  /\ cache' = [cache EXCEPT ![p] = reload[p][r]]
  /\ IF p \in Lazy THEN UNCHANGED <<mem, held>> ELSE Swap(p, reload[p][r])
  /\ UNCHANGED <<disk, bak, lock, watching, armed, pc, field, snap, history, counters>>

(* A tool call of brain_mcp without a context.                             *)
BuildContext(p) ==
  /\ pc[p] = "idle" /\ mem[p] = NoConfig
  /\ mem' = [mem EXCEPT ![p] = Resolved(p)]
  /\ cache' = [cache EXCEPT ![p] = Resolved(p)]
  /\ UNCHANGED <<disk, bak, lock, watching, armed, reload, callVars, history, counters>>

(* The process dies and starts again.                                      *)
(* brain_api reads the file before its watcher starts, brain_mcp after.    *)
Die(p) ==
  /\ deaths < MaxDeaths /\ deaths' = deaths + 1
  /\ pc[p] # "boot"
  /\ CopyEnds(p)
  /\ Unlock(p)
  /\ mem' = [mem EXCEPT ![p] = IF p \in Lazy THEN NoConfig ELSE Loaded]
  /\ cache' = [cache EXCEPT ![p] = Loaded]
  /\ watching' = IF p \in Lazy THEN watching ELSE watching \ {p}
  /\ armed' = armed \ {p}
  /\ reload' = [reload EXCEPT ![p] = [r \in Reloaders |-> NoConfig]]
  /\ Forget(p, IF p \in Lazy THEN "idle" ELSE "boot")
  /\ UNCHANGED <<disk, history, saves, errors>>

StartWatcher(p) ==
  /\ pc[p] = "boot"
  /\ watching' = watching \cup {p}
  /\ Goto(p, "idle")
  /\ UNCHANGED <<disk, bak, lock, mem, held, cache, armed, reload, history, counters>>

Step(p) ==
  \/ Acquire(p) \/ LockTimeout(p) \/ Backup(p) \/ Replace(p) \/ Saved(p)
  \/ StartWatcher(p)

ReloadStep(p) == \E r \in Reloaders : Fire(p, r) \/ Install(p, r)

(* Bound: with every call made, a run stops.                               *)
Exhausted == saves = MaxSaves /\ (\A p \in Procs : pc[p] = "idle") /\ UNCHANGED vars

Next ==
  \/ \E p \in Procs :
       \/ \E f \in Fields, v \in Values : Set(p, f, v)
       \/ BuildContext(p) \/ Step(p) \/ ReloadStep(p) \/ SaveFails(p) \/ Die(p)
  \/ Exhausted

Spec == Init /\ [][Next]_vars

(* The threads run, a timer that was started fires, the lock is polled.    *)
(* Nobody is obliged to call a tool, to fail or to die.                    *)
FairSpec == Spec /\ \A p \in Procs : WF_vars(Step(p)) /\ WF_vars(ReloadStep(p))
-----------------------------------------------------------------------------
(* Properties.                                                             *)

(* The type invariant, and what a running call has.                        *)
TypeOK ==
  /\ disk \in {NoConfig} \cup Configs
  /\ bak \in {NoConfig, Torn} \cup Configs
  /\ lock \in {NoProc} \cup Procs
  /\ mem \in [Procs -> {NoConfig} \cup Configs]
  /\ cache \in [Procs -> {NoConfig} \cup Configs]
  /\ watching \subseteq Procs /\ armed \subseteq Procs /\ blind \subseteq Procs
  /\ reload \in [Procs -> [Reloaders -> {NoConfig} \cup Configs]]
  /\ pc \in [Procs -> PCs]
  /\ field \in [Procs -> {NoConfig} \cup Fields]
  /\ snap \in [Procs -> {NoConfig} \cup Configs]
  /\ held \in [Procs -> {NoConfig} \cup Configs]
  /\ \A p \in Procs : pc[p] \in InCall => {snap[p], Held(p)} \subseteq Configs
  /\ written \subseteq Configs
  /\ saves \in Nat /\ deaths \in Nat /\ errors \in Nat

(* One process at a time is between taking the lock and releasing it, on   *)
(* every path.                                                             *)
SavesExclude == \A p \in Procs : pc[p] \in Saving <=> lock = p

(* A process in no call has a Config that config.json has held, settings   *)
(* and version, and so has every copy a reload carries.                    *)
MemoryHeld ==
  \A p \in Procs :
    /\ pc[p] \in {"idle", "boot"} => mem[p] \in {NoConfig} \cup written
    /\ cache[p] \in {NoConfig} \cup written
    /\ \A r \in Reloaders : reload[p][r] \in {NoConfig} \cup written

(* The backup is something config.json holds or has held; only a copy that *)
(* was cut short tears it.                                                 *)
BackupIsOlder == bak \in {NoConfig, Torn} \cup written

(* "leaking a phantom bump ... that never made it to disk"                 *)
(* (config/writer.py:158): no Config whose save failed is left anywhere,   *)
(* in a process, on its way into one or in the backup, however calls and   *)
(* reloads have ended and crossed.                                         *)
NoPhantom == MemoryHeld /\ BackupIsOlder

(* A save changes the one setting of its call: what it writes is, in every *)
(* other, what the process had when the call began, also when a reload has *)
(* replaced the live Config meanwhile.                                     *)
SaveIsOneSetting ==
  [][disk' # disk =>
       \E p \in Procs : \A f \in Fields \ {field[p]} :
         pc[p] = "replace" /\ snap[p] # NoConfig /\ disk'.val[f] = snap[p].val[f]]_vars

(* When the saves are over, every process comes to see the file: its live  *)
(* Config is what load_config returns, or is built when next needed.       *)
(* Excepted is a process that did not watch when the file was replaced.    *)
Converges ==
  <>[](\A p \in Procs \ blind : mem[p] \in {NoConfig, Loaded})
=============================================================================
