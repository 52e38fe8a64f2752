------------------------------ MODULE Upgrade -------------------------------
(***************************************************************************)
(* brain upgrade and brain uninstall (commands/upgrade.py, uninstall.py,   *)
(* runtime/swap.py, migrator.py) beside the daemon and the commands of     *)
(* Lifecycle.                                                              *)
(*                                                                         *)
(* An upgrade stops the daemon, extracts and builds the new version in the *)
(* staging folder, migrates the live database, renames the install away    *)
(* and the staging folder into its place, and removes old backups.  It     *)
(* does not start the daemon again.                                        *)
(***************************************************************************)
EXTENDS Lifecycle

CONSTANTS
  Keep,     \* --keep-backups
  Partial   \* what is extracted and not built

ASSUME UpgradeAssumption == Keep \in Nat /\ Partial \notin Versions \cup {None}

VARIABLES
  staging,  \* <install>-staging: None, Partial, or the version it holds
  prevs,    \* <install>-prev-<ts>: timestamp -> version
  stamp,    \* the time of the last one: two are never made in one second
  removed,  \* history: brain uninstall has removed the code
  last      \* history: the version that was installed last

upVars == <<staging, prevs, stamp, removed, last>>
vars == <<lifeVars, upVars>>

Stamps == DOMAIN prevs
Plus(f, k, v) == [i \in DOMAIN f \cup {k} |-> IF i = k THEN v ELSE f[i]]
Less(f, ks) == [i \in DOMAIN f \ ks |-> f[i]]

InitUpgrade ==
  /\ Init
  /\ staging = None /\ prevs = [i \in {} |-> None] /\ stamp = 0
  /\ removed = FALSE /\ last = install
-----------------------------------------------------------------------------
(* brain upgrade.                                                          *)

UpgradeTo(c, v) ==
  /\ Run(c, "upgrade", v)
  /\ install # None /\ install < v
  /\ UNCHANGED <<procs, runFiles, install, schema, faults, upVars>>

(* stage_upgrade refuses to touch a staging folder that is there.          *)
Stage(c) ==
  /\ At(c, "stage")
  /\ IF staging # None THEN Exit(c) /\ UNCHANGED staging
                       ELSE Goto(c, "build") /\ staging' = Partial
  /\ UNCHANGED <<procs, runFiles, install, schema, counters, prevs, stamp, removed, last>>

Built(c, version) ==
  /\ At(c, "build")
  /\ staging' = version
  /\ Goto(c, "migrate")
  /\ UNCHANGED <<procs, runFiles, install, schema, counters, prevs, stamp, removed, last>>

(* MUTANT: the exit codes of uv sync and of the build are not looked at. *)
Build_Unchecked(c) == At(c, "build") /\ \E built \in {cmd[c].version, Partial} : Built(c, built)

(* The rest of the extraction, uv sync, the UI.                            *)
Build(c) == Built(c, cmd[c].version)

(* run_migrations, on the database of the vault.                           *)
Migrate(c) ==
  /\ At(c, "migrate")
  /\ schema' = Later(schema, cmd[c].version)
  /\ Goto(c, "out")
  /\ UNCHANGED <<procs, runFiles, install, counters, upVars>>

(* swap_in: the first rename ...                                           *)
SwapOut(c) ==
  /\ At(c, "out")
  /\ IF install = None THEN Goto(c, "in") /\ UNCHANGED <<install, prevs, stamp>>
     ELSE /\ stamp' = stamp + 1
          /\ prevs' = Plus(prevs, stamp', install) /\ install' = None
          /\ cmd' = [cmd EXCEPT ![c].pc = "in", ![c].backup = stamp']
          /\ UNCHANGED history
  /\ UNCHANGED <<procs, runFiles, schema, counters, staging, removed, last>>

(* ... and the second one, which cannot replace a folder.                  *)
SwapIn(c) ==
  /\ At(c, "in") /\ install = None
  /\ install' = staging /\ last' = staging /\ staging' = None
  /\ Goto(c, "rotate")
  /\ UNCHANGED <<procs, runFiles, schema, counters, prevs, stamp, removed>>

(* It fails: the backup goes back, if that works, and staging is removed.  *)
SwapInFails(c) ==
  LET b == cmd[c].backup IN
  /\ At(c, "in")
  /\ Fault
  /\ staging' = None
  /\ IF install = None /\ b \in Stamps
     THEN \/ install' = prevs[b] /\ prevs' = Less(prevs, {b})
          \/ UNCHANGED <<install, prevs>>
     ELSE UNCHANGED <<install, prevs>>
  /\ UNCHANGED <<procs, runFiles, schema, cmds, stamp, removed, last>>
  /\ ExitBadly(c)

(* The extraction, uv sync, the build, a migration or the first rename     *)
(* fails: staging is removed; the migrations that went through remain.     *)
UpgradeFails(c) ==
  /\ \E pc \in {"build", "migrate", "out"} : At(c, pc)
  /\ Fault
  /\ staging' = None
  /\ schema' \in Reached(c)
  /\ UNCHANGED <<procs, runFiles, install, cmds, prevs, stamp, removed, last>>
  /\ ExitBadly(c)

(* MUTANT: the oldest are kept. *)
Stale_Newest == {s \in Stamps : Cardinality({t \in Stamps : t < s}) >= Keep}

Stale == {s \in Stamps : Cardinality({t \in Stamps : t > s}) >= Keep}

Rotate(c) ==
  /\ At(c, "rotate")
  /\ prevs' = Less(prevs, Stale)
  /\ Exit(c)
  /\ UNCHANGED <<procs, runFiles, install, schema, counters, staging, stamp, removed, last>>

(* What the message of stage_upgrade asks the user to do.                  *)
RemoveStaging ==
  /\ staging # None /\ AtRest
  /\ staging' = None
  /\ UNCHANGED <<lifeVars, prevs, stamp, removed, last>>
-----------------------------------------------------------------------------
(* brain uninstall: the daemon stops before the user is asked.             *)

Uninstall(c) ==
  /\ Run(c, "uninstall", None)
  /\ UNCHANGED <<procs, runFiles, install, schema, faults, upVars>>

RemoveCode(c) ==
  /\ At(c, "ask")
  /\ \/ UNCHANGED <<install, removed>>
     \/ install' = None /\ removed' = TRUE
  /\ Exit(c)
  /\ UNCHANGED <<procs, runFiles, schema, counters, staging, prevs, stamp, last>>
-----------------------------------------------------------------------------
(* MUTANT: the upgrade goes on while the daemon runs. *)
CleanUp_First(c) ==
  \/ Cleaned(c, IF cmd[c].op = "upgrade" THEN "stage" ELSE "ask") /\ UNCHANGED upVars
  \/ /\ At(c, "read") /\ cmd[c].op = "upgrade"
     /\ Goto(c, "stage")
     /\ UNCHANGED <<procs, runFiles, install, schema, counters, upVars>>

CleanUp(c) == Cleaned(c, IF cmd[c].op = "upgrade" THEN "stage" ELSE "ask") /\ UNCHANGED upVars

UpgradeStep(c) ==
  \/ CleanUp(c)
  \/ Stage(c) \/ Build(c) \/ Migrate(c) \/ SwapOut(c) \/ SwapIn(c) \/ SwapInFails(c)
  \/ UpgradeFails(c) \/ Rotate(c) \/ RemoveCode(c)

Exhausted == cmds = MaxCmds /\ AtRest /\ UNCHANGED vars

Next ==
  \/ LifeNext /\ UNCHANGED upVars
  \/ \E c \in Cmds :
       \/ \E v \in Versions : UpgradeTo(c, v)
       \/ Uninstall(c) \/ UpgradeStep(c)
  \/ RemoveStaging
  \/ Exhausted

Spec == InitUpgrade /\ [][Next]_vars
-----------------------------------------------------------------------------
(* Properties.                                                             *)

(* The type invariant; an install is a version, never a folder that is     *)
(* half built.                                                             *)
TypeOK ==
  /\ procs \in [Pids -> {None} \cup Process]
  /\ pidFile \in {None} \cup Pids /\ portFile \in {None} \cup Ports
  /\ install \in {None} \cup Versions /\ schema \in Versions
  /\ staging \in {None, Partial} \cup Versions /\ stamp \in Nat /\ last \in Versions
  /\ \A s \in Stamps : prevs[s] \in Versions
  /\ orderly \in BOOLEAN /\ removed \in BOOLEAN
  /\ astray \subseteq Pids /\ left \in {None} \cup Versions
  /\ cmd \in [Cmds -> {None} \cup Command]
  /\ \A c \in Cmds : cmd[c] # None /\ cmd[c].pc \in {"migrate", "out", "in"} => staging \in Versions

(* Commands and restores that run one after the other leave one daemon at  *)
(* most that is not astray, and the two files lead to it, whatever         *)
(* crashed, failed or was interrupted, and whoever got a pid that was      *)
(* free.  Astray are the daemons nothing leads to any more, beside which   *)
(* a second one may start: a restore has moved the files away under them   *)
(* (backup.py:241), or the start that spawned them was interrupted before  *)
(* it wrote their pid (start.py:158).  Of commands or restores that have   *)
(* overlapped nothing is said.                                             *)
Tracked ==
  orderly /\ AtRest => \A d \in Known : pidFile = d /\ portFile = procs[d].port

(* Until it is uninstalled the version that was installed last is whole,   *)
(* in its place or in a backup, through every failure and death of an      *)
(* upgrade and whatever another command does meanwhile.                    *)
InstallAtHand == removed \/ install = last \/ \E s \in Stamps : prevs[s] = last

(* In such runs a daemon that is not astray runs the installed code, and   *)
(* there is none while an upgrade works on the install.  Its code is not   *)
(* older than the schema of the database, unless an upgrade that failed    *)
(* left the schema at that: its migrations are not taken back              *)
(* (upgrade.py:326).                                                       *)
Upgrading(c) == cmd[c] # None /\ cmd[c].pc \in {"stage", "build", "migrate", "out", "in", "rotate"}
DaemonCurrent ==
  orderly =>
    /\ \A d \in Known :
         procs[d].version = install /\ (procs[d].version >= schema \/ schema = left)
    /\ (\E c \in Cmds : Upgrading(c)) => Known = {}
=============================================================================
