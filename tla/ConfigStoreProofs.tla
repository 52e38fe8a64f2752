------------------------- MODULE ConfigStoreProofs -------------------------
(* Theorems of ConfigStore: types, saves exclude each other, no process    *)
(* keeps a Config that config.json never held, the backup is an older one, *)
(* and a save changes one setting.                                         *)
EXTENDS ConfigStore, TLAPS

(* config.json holds what was written to it.                               *)
FilesOK == disk \in {NoConfig} \cup written /\ DefaultConfig \in written

(* A live Config has been in config.json, unless a running call is changing *)
(* it.                                                                     *)
LiveOK ==
  \A p \in Procs :
    pc[p] \notin InCall \/ held[p] # NoConfig => mem[p] \in {NoConfig} \cup written

(* A running call's snapshot has been in config.json, its Config differs   *)
(* from that in the one field and is in config.json from os.replace on.    *)
CallsOK ==
  \A p \in Procs :
    /\ pc[p] \notin InCall => held[p] = NoConfig
    /\ pc[p] \in InCall =>
         /\ snap[p] \in written
         /\ \A f \in Fields \ {field[p]} : Held(p).val[f] = snap[p].val[f]
    /\ pc[p] = "sync" => Held(p) \in written

IInv == TypeOK /\ SavesExclude /\ MemoryHeld /\ BackupIsOlder /\ FilesOK /\ LiveOK /\ CallsOK

USE DEF Saving, InCall, PCs

(* The three markers are no Configs, and the defaults are one.             *)
LEMMA Markers ==
  /\ NoConfig \notin Configs /\ Torn \notin Configs /\ Torn # NoConfig
  /\ NoProc \notin Procs /\ Lazy \subseteq Procs
  /\ DefaultConfig \in Configs
  BY ConfigAssumption DEF Configs, DefaultConfig

(* Assigning to one setting keeps the others and the version.              *)
LEMMA SetKeepsOthers ==
  ASSUME NEW c \in Configs, NEW f \in Fields, NEW v \in Values
  PROVE  /\ [c EXCEPT !.val[f] = v] \in Configs
         /\ \A g \in Fields \ {f} : [c EXCEPT !.val[f] = v].val[g] = c.val[g]
  BY DEF Configs

(* Bumping the version keeps every setting.                                *)
LEMMA BumpKeepsSettings ==
  ASSUME NEW c \in Configs
  PROVE  /\ [c EXCEPT !.ver = @ + 1] \in Configs
         /\ [c EXCEPT !.ver = @ + 1].val = c.val
  BY DEF Configs

(* What load_config and resolve_config return has been in config.json, or  *)
(* is the defaults.                                                        *)
LEMMA LoadedWasWritten ==
  ASSUME IInv
  PROVE  /\ Loaded \in written /\ Loaded \in Configs
         /\ \A p \in Procs : Resolved(p) \in written /\ Resolved(p) \in Configs
<1> USE Markers DEF IInv
<1>1. Loaded \in written  BY DEF Loaded, FilesOK, BackupIsOlder
<1>2. \A p \in Procs : Resolved(p) \in written  BY <1>1 DEF Resolved, MemoryHeld
<1> QED  BY <1>1, <1>2 DEF TypeOK

(* The invariant holds initially.                                          *)
LEMMA InitKeeps == Init => IInv
  BY Markers, ConfigAssumption
     DEF Init, IInv, TypeOK, SavesExclude, MemoryHeld, BackupIsOlder, FilesOK, LiveOK, CallsOK

(* A call's steps up to the copy keep the invariant ...                    *)
LEMMA SetKeeps ==
  ASSUME IInv, NEW p \in Procs, NEW f \in Fields, NEW v \in Values, Set(p, f, v)
  PROVE  IInv'
<1> USE Markers DEF IInv, Set, loaderVars, history
<1> DEFINE c == [mem[p] EXCEPT !.val[f] = v]
<1>1. /\ mem[p] \in Configs /\ mem[p] \in written /\ held[p] = NoConfig
      /\ mem' = [mem EXCEPT ![p] = c]
  BY DEF TypeOK, LiveOK, CallsOK
<1>2. c \in Configs /\ \A g \in Fields \ {f} : c.val[g] = mem[p].val[g]
  BY <1>1, SetKeepsOthers
<1> HIDE DEF c
<1>3. Held(p)' = c /\ \A q \in Procs \ {p} : Held(q)' = Held(q)
  BY <1>1 DEF Held, TypeOK
<1>4. TypeOK'
  <2>1. mem' \in [Procs -> {NoConfig} \cup Configs]  BY <1>1, <1>2 DEF TypeOK
  <2>2. \A q \in Procs : pc'[q] \in InCall => {snap'[q], Held(q)'} \subseteq Configs
    BY <1>1, <1>2, <1>3 DEF TypeOK
  <2>3. saves' \in Nat  BY DEF TypeOK
  <2> QED  BY <1>1, <2>1, <2>2, <2>3 DEF TypeOK
<1>5. SavesExclude'  BY DEF SavesExclude, TypeOK
<1>6. MemoryHeld' /\ LiveOK'  BY <1>1 DEF MemoryHeld, LiveOK, TypeOK
<1>7. BackupIsOlder' /\ FilesOK'  BY DEF BackupIsOlder, FilesOK
<1>8. CallsOK'  BY <1>1, <1>2, <1>3 DEF CallsOK, TypeOK
<1> QED  BY <1>4, <1>5, <1>6, <1>7, <1>8

LEMMA AcquireKeeps ==
  ASSUME IInv, NEW p \in Procs, Acquire(p)
  PROVE  IInv'
<1> USE Markers DEF IInv, Acquire, Goto, loaderVars, history, counters
<1> DEFINE c == [Held(p) EXCEPT !.ver = @ + 1]
<1>1. Held(p) \in Configs /\ Assign(p, c)  BY DEF TypeOK
<1>2. c \in Configs /\ c.val = Held(p).val  BY <1>1, BumpKeepsSettings
<1> HIDE DEF c
<1>3. Held(p)' = c /\ \A q \in Procs \ {p} : Held(q)' = Held(q)
  BY <1>1, <1>2 DEF Held, Assign, TypeOK
<1>4. TypeOK'
  <2>1. /\ mem' \in [Procs -> {NoConfig} \cup Configs]
        /\ held' \in [Procs -> {NoConfig} \cup Configs]
    <3>1. mem \in [Procs -> {NoConfig} \cup Configs] /\ held \in [Procs -> {NoConfig} \cup Configs]
      BY DEF TypeOK
    <3>2. CASE mem' = [mem EXCEPT ![p] = c] /\ UNCHANGED held  BY <1>2, <3>1, <3>2
    <3>3. CASE held' = [held EXCEPT ![p] = c] /\ UNCHANGED mem  BY <1>2, <3>1, <3>3
    <3> QED  BY <1>1, <3>2, <3>3 DEF Assign
  <2>2. \A q \in Procs : pc'[q] \in InCall => {snap'[q], Held(q)'} \subseteq Configs
    BY <1>2, <1>3 DEF TypeOK
  <2> QED  BY <2>1, <2>2 DEF TypeOK
<1>5. SavesExclude'  BY DEF SavesExclude, TypeOK
<1>6. MemoryHeld' /\ LiveOK'  BY <1>1 DEF MemoryHeld, LiveOK, TypeOK, Assign
<1>7. BackupIsOlder' /\ FilesOK'  BY DEF BackupIsOlder, FilesOK
<1>8. CallsOK'  BY <1>1, <1>2, <1>3 DEF CallsOK, TypeOK, Assign
<1> QED  BY <1>4, <1>5, <1>6, <1>7, <1>8

LEMMA BackupKeeps ==
  ASSUME IInv, NEW p \in Procs, Backup(p)
  PROVE  IInv'
<1> USE Markers DEF IInv, Backup, Goto, loaderVars, history, counters
<1>1. TypeOK'  BY DEF TypeOK, Held
<1>2. SavesExclude'  BY DEF SavesExclude, TypeOK
<1>3. MemoryHeld' /\ LiveOK' /\ CallsOK'  BY DEF MemoryHeld, LiveOK, CallsOK, Held, TypeOK
<1>4. BackupIsOlder' /\ FilesOK'  BY DEF BackupIsOlder, FilesOK
<1> QED  BY <1>1, <1>2, <1>3, <1>4

(* ... and so do the replacement of config.json, the return ...            *)
LEMMA ReplaceKeeps ==
  ASSUME IInv, NEW p \in Procs, Replace(p) \/ Saved(p)
  PROVE  IInv'
<1> USE Markers DEF IInv, counters
<1>1. CASE Replace(p)
  <2> USE <1>1 DEF Replace, Goto
  <2>1. Held(p) \in Configs /\ \A q \in Procs : Held(q)' = Held(q)  BY DEF TypeOK, Held
  <2>2. TypeOK'  BY <2>1 DEF TypeOK
  <2>3. SavesExclude'  BY DEF SavesExclude, TypeOK
  <2>4. MemoryHeld' /\ LiveOK'  BY DEF MemoryHeld, LiveOK, TypeOK
  <2>5. CallsOK'  BY <2>1 DEF CallsOK, TypeOK
  <2>6. BackupIsOlder' /\ FilesOK'  BY DEF BackupIsOlder, FilesOK
  <2> QED  BY <2>2, <2>3, <2>4, <2>5, <2>6
<1>2. CASE Saved(p)
  <2> USE <1>2 DEF Saved, Forget, Unlock, loaderVars, history
  <2>1. TypeOK'  BY DEF TypeOK, Held
  <2>2. SavesExclude'  BY DEF SavesExclude, TypeOK
  <2>3. MemoryHeld' /\ LiveOK' /\ CallsOK'
    BY DEF MemoryHeld, LiveOK, CallsOK, Held, TypeOK
  <2>4. BackupIsOlder' /\ FilesOK'  BY DEF BackupIsOlder, FilesOK
  <2> QED  BY <2>1, <2>2, <2>3, <2>4
<1> QED  BY <1>1, <1>2

(* ... and a call that raises, at the lock or later.                       *)
LEMMA RaiseKeeps ==
  ASSUME IInv, NEW p \in Procs, LockTimeout(p) \/ SaveFails(p)
  PROVE  IInv'
<1> USE Markers DEF IInv
<1>1. /\ pc[p] \in InCall /\ Revert(p)
      /\ bak' = bak \/ bak' = Torn
      /\ UNCHANGED <<disk, loaderVars, history>>
      /\ saves' \in Nat /\ deaths' \in Nat /\ errors' \in Nat
  BY DEF LockTimeout, SaveFails, CopyEnds, TypeOK, counters
<1> USE <1>1 DEF Revert, Forget, Unlock, loaderVars, history
<1>2. TypeOK'  BY DEF TypeOK, Held, CallsOK
<1>3. SavesExclude'  BY DEF SavesExclude, TypeOK
<1>4. MemoryHeld' /\ LiveOK' /\ CallsOK'  BY DEF MemoryHeld, LiveOK, CallsOK, Held, TypeOK
<1>5. BackupIsOlder' /\ FilesOK'  BY DEF BackupIsOlder, FilesOK
<1> QED  BY <1>2, <1>3, <1>4, <1>5

(* So do the reload threads, which leave a running call its Config ...     *)
LEMMA SwapKeepsHeld ==
  ASSUME IInv, NEW p \in Procs, NEW c \in {NoConfig} \cup written, Swap(p, c), UNCHANGED pc
  PROVE  /\ mem' \in [Procs -> {NoConfig} \cup Configs]
         /\ held' \in [Procs -> {NoConfig} \cup Configs]
         /\ \A q \in Procs : pc[q] \in InCall => Held(q)' = Held(q)
         /\ \A q \in Procs : pc[q] \notin InCall => held'[q] = NoConfig
         /\ \A q \in Procs : pc[q] \notin InCall \/ held'[q] # NoConfig
              => mem'[q] \in {NoConfig} \cup written
  BY Markers DEF IInv, Swap, TypeOK, Held, LiveOK, CallsOK

LEMMA ReloadKeeps ==
  ASSUME IInv, NEW p \in Procs, NEW r \in Reloaders, Fire(p, r) \/ Install(p, r)
  PROVE  IInv'
<1> USE Markers DEF IInv
<1>1. PICK c \in {NoConfig} \cup written : Swap(p, c) \/ UNCHANGED <<mem, held>>
  BY DEF Fire, Install, MemoryHeld
<1>2. /\ mem' \in [Procs -> {NoConfig} \cup Configs]
      /\ held' \in [Procs -> {NoConfig} \cup Configs]
      /\ \A q \in Procs : pc[q] \in InCall => Held(q)' = Held(q)
      /\ \A q \in Procs : pc[q] \notin InCall => held'[q] = NoConfig
      /\ \A q \in Procs : pc[q] \notin InCall \/ held'[q] # NoConfig
           => mem'[q] \in {NoConfig} \cup written
  <2>1. UNCHANGED pc  BY DEF Fire, Install
  <2>2. CASE Swap(p, c)  BY <2>1, <2>2, SwapKeepsHeld
  <2>3. CASE UNCHANGED <<mem, held>>  BY <2>3 DEF TypeOK, Held, LiveOK, CallsOK
  <2> QED  BY <1>1, <2>2, <2>3
<1>3. /\ UNCHANGED <<disk, bak, lock, watching, pc, field, snap, history, counters>>
      /\ armed' \subseteq armed
      /\ cache' \in [Procs -> {NoConfig} \cup written]
      /\ reload' \in [Procs -> [Reloaders -> {NoConfig} \cup written]]
  <2>1. /\ cache \in [Procs -> {NoConfig} \cup written]
        /\ reload \in [Procs -> [Reloaders -> {NoConfig} \cup written]]
    BY DEF TypeOK, MemoryHeld
  <2>2. reload[p][r] \in {NoConfig} \cup written  BY DEF MemoryHeld
  <2>3. CASE Fire(p, r)  BY <2>1, <2>3, LoadedWasWritten DEF Fire
  <2>4. CASE Install(p, r)  BY <2>1, <2>2, <2>4 DEF Install
  <2> QED  BY <2>3, <2>4
<1> USE <1>2, <1>3 DEF history, counters
<1>4. TypeOK'  BY DEF TypeOK
<1>5. SavesExclude'  BY DEF SavesExclude
<1>6. MemoryHeld' /\ LiveOK'  BY DEF MemoryHeld, LiveOK
<1>7. CallsOK'  BY DEF CallsOK
<1>8. BackupIsOlder' /\ FilesOK'  BY DEF BackupIsOlder, FilesOK
<1> QED  BY <1>4, <1>5, <1>6, <1>7, <1>8

(* ... and the start of a context or of a process, after a death or not.   *)
LEMMA StartKeeps ==
  ASSUME IInv, NEW p \in Procs, BuildContext(p) \/ StartWatcher(p) \/ Die(p)
  PROVE  IInv'
<1> USE Markers, LoadedWasWritten DEF IInv
<1>1. CASE BuildContext(p)
  <2> USE <1>1 DEF BuildContext, callVars, history, counters
  <2>1. TypeOK'  BY DEF TypeOK, Held
  <2>2. SavesExclude'  BY DEF SavesExclude
  <2>3. MemoryHeld' /\ LiveOK' /\ CallsOK'  BY DEF MemoryHeld, LiveOK, CallsOK, Held, TypeOK
  <2>4. BackupIsOlder' /\ FilesOK'  BY DEF BackupIsOlder, FilesOK
  <2> QED  BY <2>1, <2>2, <2>3, <2>4
<1>2. CASE StartWatcher(p)
  <2> USE <1>2 DEF StartWatcher, Goto, history, counters
  <2>1. TypeOK'  BY DEF TypeOK, Held
  <2>2. SavesExclude'  BY DEF SavesExclude, TypeOK
  <2>3. MemoryHeld' /\ LiveOK' /\ CallsOK'  BY DEF MemoryHeld, LiveOK, CallsOK, Held, TypeOK
  <2>4. BackupIsOlder' /\ FilesOK'  BY DEF BackupIsOlder, FilesOK
  <2> QED  BY <2>1, <2>2, <2>3, <2>4
<1>3. CASE Die(p)
  <2> USE <1>3 DEF Die, Forget, Unlock, CopyEnds, history
  <2>1. TypeOK'  BY DEF TypeOK, Held
  <2>2. SavesExclude'  BY DEF SavesExclude, TypeOK
  <2>3. MemoryHeld' /\ LiveOK'  BY DEF MemoryHeld, LiveOK, TypeOK
  <2>4. CallsOK'  BY DEF CallsOK, Held, TypeOK
  <2>5. BackupIsOlder' /\ FilesOK'  BY DEF BackupIsOlder, FilesOK
  <2> QED  BY <2>1, <2>2, <2>3, <2>4, <2>5
<1> QED  BY <1>1, <1>2, <1>3

(* The invariant is inductive.                                             *)
LEMMA Invariant == Spec => []IInv
<1>1. Init => IInv  BY InitKeeps
<1>2. IInv /\ [Next]_vars => IInv'
  <2> SUFFICES ASSUME IInv, [Next]_vars PROVE IInv'  OBVIOUS
  <2>1. CASE UNCHANGED vars
    BY <2>1 DEF vars, IInv, TypeOK, SavesExclude, MemoryHeld, BackupIsOlder, FilesOK, LiveOK,
                CallsOK, Held
  <2>2. CASE Exhausted  BY <2>1, <2>2 DEF Exhausted
  <2>3. ASSUME NEW p \in Procs, NEW f \in Fields, NEW v \in Values, Set(p, f, v)
        PROVE  IInv'
    BY <2>3, SetKeeps
  <2>4. ASSUME NEW p \in Procs, Step(p) \/ SaveFails(p) PROVE IInv'
    BY <2>4, AcquireKeeps, BackupKeeps, ReplaceKeeps, RaiseKeeps, StartKeeps DEF Step
  <2>5. ASSUME NEW p \in Procs, ReloadStep(p) PROVE IInv'
    BY <2>5, ReloadKeeps DEF ReloadStep
  <2>6. ASSUME NEW p \in Procs, BuildContext(p) \/ Die(p) PROVE IInv'
    BY <2>6, StartKeeps
  <2> QED  BY <2>1, <2>2, <2>3, <2>4, <2>5, <2>6 DEF Next
<1> QED  BY <1>1, <1>2, PTL DEF Spec

(* The type invariant holds in every reachable state.                      *)
THEOREM TypeCorrect == Spec => []TypeOK
<1>1. IInv => TypeOK  BY DEF IInv
<1> QED  BY <1>1, Invariant, PTL

(* The lock's holder is exactly the process inside save_config.            *)
THEOREM ExclusionCorrect == Spec => []SavesExclude
<1>1. IInv => SavesExclude  BY DEF IInv
<1> QED  BY <1>1, Invariant, PTL

(* No failed save, reload or restart leaves a process, its cache or its    *)
(* reload threads with a Config that config.json never held.               *)
THEOREM NoPhantomCorrect == Spec => []NoPhantom
<1>1. IInv => NoPhantom  BY DEF IInv, NoPhantom
<1> QED  BY <1>1, Invariant, PTL

(* What a save writes differs from its snapshot in the call's one setting. *)
THEOREM SaveCorrect == Spec => SaveIsOneSetting
<1> DEFINE OneSetting ==
      disk' # disk =>
        \E p \in Procs : \A f \in Fields \ {field[p]} :
          pc[p] = "replace" /\ snap[p] # NoConfig /\ disk'.val[f] = snap[p].val[f]
<1>1. IInv /\ [Next]_vars => [OneSetting]_vars
  <2> SUFFICES ASSUME IInv, Next PROVE OneSetting  OBVIOUS
  <2>1. ASSUME NEW p \in Procs, Replace(p) PROVE OneSetting
    BY <2>1, Markers DEF Replace, IInv, TypeOK, CallsOK
  <2>2. ASSUME NEW p \in Procs, Step(p), ~Replace(p) PROVE disk' = disk
    BY <2>2 DEF Step, Acquire, LockTimeout, Backup, Saved, StartWatcher
  <2>3. ASSUME NEW p \in Procs, ReloadStep(p) PROVE disk' = disk
    BY <2>3 DEF ReloadStep, Fire, Install
  <2>4. ASSUME NEW p \in Procs, BuildContext(p) \/ SaveFails(p) \/ Die(p) PROVE disk' = disk
    BY <2>4 DEF BuildContext, SaveFails, Die
  <2>5. ASSUME NEW p \in Procs, NEW f \in Fields, NEW v \in Values, Set(p, f, v)
        PROVE  disk' = disk
    BY <2>5 DEF Set
  <2> QED  BY <2>1, <2>2, <2>3, <2>4, <2>5 DEF Next, Exhausted, vars
<1> QED  BY <1>1, Invariant, PTL DEF Spec, SaveIsOneSetting
=============================================================================
